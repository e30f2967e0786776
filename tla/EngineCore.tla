----------------------------- MODULE EngineCore -----------------------------
(***************************************************************************)
(* The engine core (vllm/v1/engine/core.py): one thread runs the scheduler, *)
(* hands batches to the worker and applies their results, oldest first. With *)
(* async scheduling up to BatchQueueSize batches are under way, so that the *)
(* scheduler plans a batch before it knows what the previous one sampled.   *)
(*                                                                         *)
(* Clients add and abort requests and reset the prefix cache; the engine    *)
(* serves them between two steps, aborts also before it applies a result.   *)
(***************************************************************************)
EXTENDS Scheduler, FiniteSetsExt

CONSTANTS
    BatchQueueSize,    \* max_concurrent_batches with async scheduling
    NextToken(_), Unknown, Garbage,
    MaxResets          \* bound on the number of prefix-cache resets

ASSUME EngineAssumption ==
    /\ BatchQueueSize \in Nat \ {0} /\ MaxResets \in Nat
    /\ Unknown \notin Tokens /\ Garbage \in Tokens

VARIABLES
    in_flight,         \* batches the worker has not executed yet, oldest first
    done,              \* executed batches whose output was not applied yet
    resets,            \* history: reset_running_requests of every reset so far
    requests, input_batch, prev_sampled_token_ids, prev_req_id_to_index, kv_caches

Worker == INSTANCE ModelRunner

workerVars ==
    <<requests, input_batch, prev_sampled_token_ids, prev_req_id_to_index, kv_caches>>
queue == <<in_flight, done>>
vars == <<kvmVars, schedVars, queue, resets, workerVars>>

EngineInit ==
    /\ Init /\ SchedInit /\ Worker!WorkerInit
    /\ in_flight = <<>> /\ done = <<>>
    /\ resets = <<>>

batch_queue_len == Len(in_flight) + Len(done)

\* Without a queue, step() applies the result of a batch at once.
batch_queue_size == IF async_scheduling THEN BatchQueueSize ELSE 1
-----------------------------------------------------------------------------
(* step(), step_with_batch_queue() *)

StartStep ==
    /\ pc = "idle" /\ has_requests
    /\ pc' = "running"
    /\ UNCHANGED <<kvmVars, queueVars, fixedVars, asyncVars, stepVars, pass, todo,
                   arrived, queue, resets, workerVars>>

\* Nothing to schedule, but results are due.
DrainQueue ==
    /\ pc = "idle" /\ ~has_requests /\ batch_queue_len > 0
    /\ pc' = "wait"
    /\ UNCHANGED <<kvmVars, queueVars, fixedVars, asyncVars, stepVars, pass, todo,
                   arrived, queue, resets, workerVars>>

SchedulePass ==
    /\ \/ SkipRunning \/ ScheduleRunning \/ PreemptLast \/ EndRunning
       \/ ScheduleWaiting \/ EndWaiting
    /\ UNCHANGED <<queue, resets, workerVars>>

\* Variant: the engine never blocks on a result after a batch.
LaunchBatchUnlimited ==
    /\ CommitPass
    /\ in_flight' = Append(in_flight, scheduler_output)
    /\ pc' = IF scheduled # {} THEN "idle" ELSE "wait"
    /\ UNCHANGED <<done, resets, workerVars>>

\* The engine does not block on a result while the queue has room, unless the
\* batch is empty or the oldest result is there already.
LaunchBatch ==
    /\ CommitPass
    /\ in_flight' = Append(in_flight, scheduler_output)
    /\ \/ pc' = "wait"
       \/ /\ scheduled # {} /\ batch_queue_len + 1 < batch_queue_size /\ done = <<>>
          /\ pc' = "idle"
    /\ UNCHANGED <<done, resets, workerVars>>

ApplyResult ==
    /\ pc = "wait" /\ done # <<>>
    /\ todo' = [i \in DOMAIN Head(done).order |->
                  <<Head(done).order[i], Head(done).sampled[Head(done).order[i]]>>]
    /\ done' = Tail(done)
    /\ pc' = "update"
    /\ UNCHANGED <<kvmVars, queueVars, fixedVars, asyncVars, stepVars, pass, arrived,
                   in_flight, resets, workerVars>>

UpdateFromOutput ==
    /\ \/ SkipOutput \/ DiscardOutput \/ AppendOutput \/ CacheOutput
       \/ FreeStopped \/ EndUpdate
    /\ UNCHANGED <<queue, resets, workerVars>>
-----------------------------------------------------------------------------
\* The worker executes the oldest batch. It shares nothing with the scheduler but
\* the queue, so it is enough to let it run where the engine looks at the queue.
WorkerStep ==
    /\ in_flight # <<>> /\ pc \in {"idle", "wait"}
    /\ in_flight' = Tail(in_flight)
    /\ \E result \in {Worker!executed(Head(in_flight))} :
         /\ Worker!execute_model(result)
         /\ done' = Append(done, [order |-> Head(in_flight).order,
                                  sampled |-> result.sampled_token_ids])
    /\ UNCHANGED <<kvmVars, schedVars, resets>>
-----------------------------------------------------------------------------
(* Clients *)

AddRequest(r) ==
    /\ pc = "idle" /\ add_request(r)
    /\ UNCHANGED <<queue, resets, workerVars>>

\* From the input queue, or from the aborts queue once a result is there.
AbortRequest(r) ==
    /\ pc = "idle" \/ (pc = "wait" /\ done # <<>>)
    /\ finish_requests(r)
    /\ UNCHANGED <<queue, resets, workerVars>>

StartReset ==
    /\ pc = "idle" /\ Len(resets) < MaxResets
    /\ \/ resets' = Append(resets, FALSE) /\ ResetPrefixCache /\ UNCHANGED pc
       \/ resets' = Append(resets, TRUE) /\ pc' = "reset" /\ UNCHANGED kvmVars
    /\ UNCHANGED <<queueVars, fixedVars, asyncVars, stepVars, pass, todo, arrived,
                   queue, workerVars>>

ForceReset ==
    /\ PreemptForReset \/ EndReset
    /\ UNCHANGED <<queue, resets, workerVars>>

\* The engine blocks on its input queue when all is done.
Quiescent ==
    /\ pc = "idle" /\ ~has_requests /\ batch_queue_len = 0
    /\ \A r \in Requests : status[r] = "FINISHED"
    /\ UNCHANGED vars
-----------------------------------------------------------------------------
EngineStep ==
    StartStep \/ DrainQueue \/ SchedulePass \/ LaunchBatch \/ ApplyResult
      \/ UpdateFromOutput \/ ForceReset

ClientStep ==
    (\E r \in Requests : AddRequest(r) \/ AbortRequest(r)) \/ StartReset

EngineNext == EngineStep \/ WorkerStep \/ ClientStep \/ Quiescent

EngineSpec == EngineInit /\ [][EngineNext]_vars

\* The worker's step, by its effect on the queue (no other step has it).
BatchExecuted ==
    /\ in_flight # <<>> /\ pc \in {"idle", "wait"}
    /\ in_flight' = Tail(in_flight)

\* The engine loop and the worker keep running; clients may do nothing.
FairEngineSpec == EngineSpec /\ WF_vars(EngineStep) /\ WF_in_flight(BatchExecuted)
-----------------------------------------------------------------------------
(* What the engine guarantees *)

\* The types of the scheduler's attributes, of the batch queue and of the
\* worker's state.
EngineTypeOK ==
    /\ TypeOK
    /\ pc \in {"idle", "running", "waiting", "commit", "wait", "update", "cache", "free", "reset"}
    /\ status \in [Requests -> {"ABSENT", "WAITING", "RUNNING", "PREEMPTED", "FINISHED"}]
    /\ waiting \in Seq(Requests) /\ running \in Seq(Requests) /\ arrived \in Seq(Requests)
    /\ num_output_placeholders \in [Requests -> 0 .. batch_queue_size]
    /\ discard_latest_async_tokens \subseteq Requests
    /\ finished_req_ids \subseteq Requests /\ prev_step_scheduled_req_ids \subseteq Requests
    /\ pass.token_budget \in 0 .. MaxNumScheduledTokens
    /\ batch_queue_len <= batch_queue_size
    /\ Worker!req_ids(input_batch) \subseteq DOMAIN requests /\ DOMAIN requests \subseteq Requests

\* The asserts of schedule(): PassIsConsistent and the token budget; and no token
\* of a resumed request is in flight.
ScheduleAssertionsHold ==
    /\ PassIsConsistent
    /\ pc = "commit" =>
         /\ FoldSet(LAMBDA r, n : n + num_scheduled_tokens[r], 0, scheduled)
              <= MaxNumScheduledTokens
         /\ \A r \in pass.resumed : num_output_placeholders[r] = 0

\* Tokens that batches under way will bring for r.
tokens_under_way(r) ==
    LET samples(batch) ==
          r \in Range(batch.order)
            /\ batch.num_computed_tokens[r] + batch.num_scheduled_tokens[r]
                 >= num_prompt_tokens[r] + batch.num_output_tokens[r]
    IN  Cardinality({i \in DOMAIN in_flight : samples(in_flight[i])})
          + Cardinality({i \in DOMAIN done :
               r \in Range(done[i].order) /\ done[i].sampled[r] # <<>>})
          + Cardinality({i \in DOMAIN todo :
               todo[i][1] = r /\ todo[i][2] # <<>> /\ ~(i = 1 /\ r \in stopping)})

\* num_output_placeholders counts the tokens of a live request that are under
\* way, also across preemption and resumption: schedule() never plans a token
\* that will not come, and _update_request_with_output never finds a negative
\* count (its assert).
PlaceholdersMatchInFlight ==
    async_scheduling => \A r \in Requests :
      status[r] \in {"RUNNING", "PREEMPTED"} =>
        num_output_placeholders[r] = tokens_under_way(r)

\* Every output token is what the model samples after the tokens before it: none
\* is lost, repeated, taken from another request or computed from a wrong KV
\* cache, however batches, preemptions, prefix-cache hits and aborts interleave.
OutputIsModelText ==
    \A r \in Requests : \A i \in num_prompt_tokens[r] + 1 .. num_tokens(r) :
      all_token_ids[r][i] = NextToken(SubSeq(all_token_ids[r], 1, i - 1))

\* Once the worker has caught up, every block in the prefix cache holds the
\* entries of the tokens it is cached under, although blocks are hashed before
\* they are computed; and the worker's block tables are the scheduler's.
CachedEntriesAreRight ==
    in_flight = <<>> /\ pc \in {"idle", "wait", "update", "cache", "free"} =>
      /\ \A c \in pool.cached : \A o \in 0 .. BlockSize - 1 :
           kv_caches[c[2]][o] = SubSeq(c[1], 1, Len(c[1]) - BlockSize + o + 1)
      /\ \A r \in Range(running) : requests[r].block_ids = req_to_blocks[r]

\* The worker can execute its next batch: it knows the requests that are not new
\* in it, and has been sent the tokens of those that enter its batch again
\* (req_data.all_token_ids[req_id] in _update_states).
WorkerKnowsRequests ==
    in_flight # <<>> =>
      LET batch == Head(in_flight) IN
      \A r \in Range(batch.order) \ batch.new :
        /\ r \in DOMAIN requests \ batch.finished_req_ids
        /\ r \in Worker!remaining(batch) \/ batch.all_token_ids[r] # <<>>

\* When the engine goes to sleep the worker has forgotten every request: the step
\* that carries the last finished_req_ids is made although no request is left.
WorkerForgetsFinished ==
    pc = "idle" /\ ~has_requests /\ batch_queue_len = 0
      => DOMAIN requests = {} /\ DOMAIN input_batch = {}

\* The persistent batch is a second copy of the requests' states: its rows are
\* numbered without gaps, no request has two, and each holds the tokens and the
\* blocks of its request's CachedRequestState, although rows are refilled, slid
\* down and swapped one field after the other.
RowsAgreeWithStates ==
    /\ DOMAIN input_batch = 0 .. Cardinality(Worker!req_ids(input_batch)) - 1
    /\ \A i \in DOMAIN input_batch :
         LET row == input_batch[i] IN
         /\ row.token_ids = requests[row.req_id].token_ids
         /\ row.block_ids = requests[row.req_id].block_ids
         /\ row.num_prompt_tokens = requests[row.req_id].num_prompt_tokens

\* The batch that attention gets is split: decodes, then short and long extends,
\* then prefills (split_decodes_and_prefills cuts it at the first row that is not
\* a decode). The swaps of the reordering follow every cycle once.
DecodesComeFirst ==
    in_flight # <<>> =>
      LET batch == Head(in_flight)
          rows == Worker!updated_rows(batch, Worker!updated_states(batch))
          of(i) == Worker!region(rows[i], batch.num_scheduled_tokens[rows[i].req_id])
      IN  \A i, j \in DOMAIN rows : i < j => of(i) <= of(j)

\* The scheduler uses the KV-cache manager as module KVCacheManager assumes, so
\* that everything proved there holds of the engine.
RefinesKVCacheManager == LocalSpec

\* With async scheduling a forced reset may drop an output token, and leave the
\* placeholder of that token behind.
TokenMayBeDropped == async_scheduling /\ TRUE \in Range(resets)

\* Recomputation after a reset of the prefix cache, forced or not, does not change
\* the output, unless that reset may drop a token.
OutputSurvivesResets == OutputIsModelText \/ TokenMayBeDropped

\* Every request is finished at last: preemption and recomputation do not
\* livelock, and no token is waited for that never comes (but the placeholder of
\* a dropped token may be).
EveryRequestFinishes ==
    \A r \in Requests :
      status[r] # "ABSENT" ~> (status[r] = "FINISHED" \/ TokenMayBeDropped)
=============================================================================

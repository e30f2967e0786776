------------------------------ MODULE Scheduler ------------------------------
(***************************************************************************)
(* The FCFS scheduler of the engine core (vllm/v1/core/sched/scheduler.py   *)
(* and async_scheduler.py), for text generation without speculative         *)
(* decoding, LoRA, encoder inputs, KV connectors or streaming input.        *)
(*                                                                         *)
(* schedule() and update_from_output() are loops over requests. Each        *)
(* iteration is one action; pc says where the engine is. Nothing but the    *)
(* engine itself touches the scheduler between two iterations.              *)
(***************************************************************************)
EXTENDS KVCacheManager

CONSTANTS
    SchedulingModes,          \* the values of async_scheduling to consider
    MaxNumScheduledTokens,    \* max_num_scheduled_tokens, the budget of a pass
    MaxNumRunningReqs,        \* max_num_running_reqs
    LongPrefillThreshold,     \* long_prefill_token_threshold, 0 if off
    ReserveFullIsl,           \* scheduler_reserve_full_isl
    MaxTokens,                \* sampling_params.max_tokens
    Eos                       \* the end-of-sequence token

ASSUME SchedulerAssumption ==
    /\ SchedulingModes \subseteq BOOLEAN /\ ReserveFullIsl \in BOOLEAN
    /\ MaxNumScheduledTokens \in Nat \ {0} /\ MaxNumRunningReqs \in Nat \ {0}
    /\ LongPrefillThreshold \in Nat /\ MaxTokens \in Nat \ {0}

\* get_kv_cache_configs refuses to start unless a request of max_model_len
\* tokens fits; a prompt leaves room for one output token.
ASSUME CapacityAssumption ==
    /\ cdiv(MaxModelLen, BlockSize) <= NumGpuBlocks - 1
    /\ \A s \in Prompts : Len(s) < MaxModelLen

VARIABLES
    pc,                             \* what the engine is doing
    status,                         \* Request.status, "ABSENT" before it arrives
    waiting, running,               \* the queues, as sequences
    num_prompt_tokens,              \* Request.num_prompt_tokens
    async_scheduling,               \* AsyncScheduler instead of Scheduler
    num_output_placeholders,        \* sampled tokens not received yet (async)
    discard_latest_async_tokens,    \* the requests with that flag
    finished_req_ids,               \* finished since the last pass
    prev_step_scheduled_req_ids,    \* scheduled in the last pass
    pass,                           \* the locals of schedule()
    todo,                           \* outputs update_from_output still handles
    arrived                         \* history: the requests as they arrived

queueVars == <<status, waiting, running>>
asyncVars == <<num_output_placeholders, discard_latest_async_tokens>>
stepVars == <<finished_req_ids, prev_step_scheduled_req_ids>>
fixedVars == <<num_prompt_tokens, async_scheduling>>
schedVars == <<pc, queueVars, fixedVars, asyncVars, stepVars, pass, todo, arrived>>

num_output_tokens(r) == num_tokens(r) - num_prompt_tokens[r]

Without(s, S) == Select(s, Requests \ S)

Last(s) == s[Len(s)]
Front(s) == SubSeq(s, 1, Len(s) - 1)

Nothing == [r \in Requests |-> <<>>]

\* preempted: some request was preempted in this pass; order: the scheduled
\* requests; new, resumed: the ones among them that come from the waiting
\* queue; new_block_ids: the blocks each of them was given.
EmptyPass ==
    [req_index |-> 1, token_budget |-> MaxNumScheduledTokens, preempted |-> FALSE,
     order |-> <<>>, new |-> {}, resumed |-> {}, new_block_ids |-> Nothing]

SchedInit ==
    /\ pc = "idle"
    /\ status = [r \in Requests |-> "ABSENT"]
    /\ waiting = <<>> /\ running = <<>>
    /\ num_prompt_tokens = [r \in Requests |-> num_tokens(r)]
    /\ async_scheduling \in SchedulingModes
    /\ num_output_placeholders = [r \in Requests |-> 0]
    /\ discard_latest_async_tokens = {}
    /\ finished_req_ids = {} /\ prev_step_scheduled_req_ids = {}
    /\ pass = EmptyPass
    /\ todo = <<>> /\ arrived = <<>>

\* Variant: the engine sleeps when only preempted requests are left.
has_unfinished_requests_not_preempted ==
    running # <<>> \/ \E i \in DOMAIN waiting : status[waiting[i]] = "WAITING"

has_unfinished_requests == waiting # <<>> \/ running # <<>>

\* Variant: finished requests are not worth a step.
has_requests_unfinished == has_unfinished_requests

has_requests == has_unfinished_requests \/ finished_req_ids # {}
-----------------------------------------------------------------------------
(* schedule(): first the running requests, in order *)

current == running[pass.req_index]

more_running == pass.req_index <= Len(running) /\ pass.token_budget > 0

\* What is in flight is sure to bring r to max_tokens.
reaches_max_tokens(r) ==
    /\ num_output_placeholders[r] > 0
    /\ num_computed_tokens[r] + 2 - num_output_placeholders[r]
         >= num_prompt_tokens[r] + MaxTokens

\* Variant: the budget is not applied.
within_threshold(n) ==
    IF 0 < LongPrefillThreshold /\ LongPrefillThreshold < n THEN LongPrefillThreshold ELSE n

within_limits(n) ==
    Min2(IF 0 < LongPrefillThreshold /\ LongPrefillThreshold < n
         THEN LongPrefillThreshold ELSE n,
         pass.token_budget)

num_new_tokens(r) ==
    Min2(within_limits(num_tokens(r) + num_output_placeholders[r] - num_computed_tokens[r]),
         MaxModelLen - 1 - num_computed_tokens[r])

to_be_scheduled(r) == ~reaches_max_tokens(r) /\ num_new_tokens(r) # 0

SkipRunning ==
    /\ pc = "running" /\ more_running /\ ~to_be_scheduled(current)
    /\ pass' = [pass EXCEPT !.req_index = @ + 1]
    /\ UNCHANGED <<kvmVars, pc, queueVars, fixedVars, asyncVars, stepVars, todo, arrived>>

ScheduleRunning ==
    LET r == current
        new == num_new_tokens(r)
    IN  /\ pc = "running" /\ more_running /\ to_be_scheduled(r)
        /\ allocate_slots(r, num_computed_tokens[r], <<>>, new, 0)
        /\ num_scheduled_tokens' = [num_scheduled_tokens EXCEPT ![r] = new]
        /\ pass' = [pass EXCEPT
                      !.req_index = @ + 1, !.token_budget = @ - new,
                      !.order = Append(@, r),
                      !.new_block_ids[r] =
                        SubSeq(req_to_blocks'[r], Len(req_to_blocks[r]) + 1,
                               Len(req_to_blocks'[r]))]
        /\ UNCHANGED <<all_token_ids, num_computed_tokens, pc, queueVars,
                       fixedVars, asyncVars, stepVars, todo, arrived>>

\* Variants: the preempted request goes to the end of the line; its computed
\* tokens are not forgotten; its blocks are not freed.
_preempt_request_appending(r) ==
    /\ FreeRequest(r)
    /\ status' = [status EXCEPT ![r] = "PREEMPTED"]
    /\ waiting' = Append(waiting, r)
_preempt_request_keeping_computed(r) ==
    /\ free(r)
    /\ status' = [status EXCEPT ![r] = "PREEMPTED"]
    /\ waiting' = <<r>> \o waiting
    /\ UNCHANGED reqVars
_preempt_request_keeping_blocks(r) ==
    /\ status' = [status EXCEPT ![r] = "PREEMPTED"]
    /\ waiting' = <<r>> \o waiting
    /\ num_computed_tokens' = [num_computed_tokens EXCEPT ![r] = 0]
    /\ UNCHANGED <<kvVars, all_token_ids, num_scheduled_tokens>>

_preempt_request(r) ==
    /\ FreeRequest(r)
    /\ status' = [status EXCEPT ![r] = "PREEMPTED"]
    /\ waiting' = <<r>> \o waiting

\* No slots for the current request: the last running one makes room, if need
\* be the current one itself, which ends the pass.
PreemptLast ==
    LET r == current
        victim == Last(running)
        slots == num_tokens_need_slot(num_computed_tokens[r], num_new_tokens(r), 0)
    IN  /\ pc = "running" /\ more_running /\ to_be_scheduled(r)
        /\ get_num_blocks_to_allocate(r, slots, <<>>) > get_num_free_blocks(pool)
        /\ _preempt_request(victim)
        /\ running' = Front(running)
        /\ pass' = [pass EXCEPT !.preempted = TRUE]
        /\ pc' = IF victim = r THEN "commit" ELSE "running"
        /\ UNCHANGED <<fixedVars, asyncVars, stepVars, todo, arrived>>

EndRunning ==
    /\ pc = "running" /\ ~more_running
    /\ pc' = IF pass.preempted THEN "commit" ELSE "waiting"
    /\ UNCHANGED <<kvmVars, queueVars, fixedVars, asyncVars, stepVars,
                   pass, todo, arrived>>
-----------------------------------------------------------------------------
(* schedule(): then the waiting ones, if nobody was preempted *)

more_waiting ==
    waiting # <<>> /\ pass.token_budget > 0 /\ Len(running) # MaxNumRunningReqs

can_fit_full_sequence(r, hit) ==
    get_num_blocks_to_allocate(r, Min2(num_tokens(r), MaxModelLen), hit)
      <= get_num_free_blocks(pool)

\* The cached blocks that r may start from. One with computed tokens (which
\* _preempt_request makes it forget) looks nothing up.
new_computed_blocks(r) ==
    IF num_computed_tokens[r] = 0 THEN get_computed_blocks(r) ELSE {<<>>}

computed_tokens(r, hit) == num_computed_tokens[r] + Len(hit) * BlockSize

can_admit(r, hit) ==
    LET computed == computed_tokens(r, hit)
        slots == num_tokens_need_slot(computed, within_limits(num_tokens(r) - computed), 0)
    IN  /\ ReserveFullIsl => can_fit_full_sequence(r, hit)
        /\ get_num_blocks_to_allocate(r, slots, hit) <= get_num_free_blocks(pool)

ScheduleWaiting ==
    LET r == Head(waiting) IN
    /\ pc = "waiting" /\ more_waiting
    /\ \E hit \in new_computed_blocks(r) :
         LET computed == computed_tokens(r, hit)
             new == within_limits(num_tokens(r) - computed)
         IN  /\ can_admit(r, hit)
             /\ allocate_slots(r, computed, hit, new, 0)
             /\ num_computed_tokens' = [num_computed_tokens EXCEPT ![r] = computed]
             /\ num_scheduled_tokens' = [num_scheduled_tokens EXCEPT ![r] = new]
             /\ pass' = [pass EXCEPT
                           !.token_budget = @ - new, !.order = Append(@, r),
                           !.new = IF status[r] = "WAITING" THEN @ \cup {r} ELSE @,
                           !.resumed = IF status[r] = "PREEMPTED" THEN @ \cup {r} ELSE @,
                           !.new_block_ids[r] = req_to_blocks'[r]]
    /\ waiting' = Tail(waiting) /\ running' = Append(running, r)
    /\ status' = [status EXCEPT ![r] = "RUNNING"]
    /\ UNCHANGED <<all_token_ids, pc, fixedVars, asyncVars, stepVars, todo, arrived>>

EndWaiting ==
    /\ pc = "waiting"
    /\ more_waiting =>
         \E hit \in new_computed_blocks(Head(waiting)) : ~can_admit(Head(waiting), hit)
    /\ pc' = "commit"
    /\ UNCHANGED <<kvmVars, queueVars, fixedVars, asyncVars, stepVars,
                   pass, todo, arrived>>
-----------------------------------------------------------------------------
(* schedule(): finally what the worker is told, and _update_after_schedule *)

scheduled == Range(pass.order)

\* SchedulerOutput. A worker that had the request in its last batch knows its
\* tokens; a new request comes with its prompt, the others with all their tokens.
\* num_output_tokens counts the outputs in flight.
scheduler_output ==
    [order                |-> pass.order,
     new                  |-> pass.new,
     resumed              |-> pass.resumed,
     finished_req_ids     |-> finished_req_ids,
     num_scheduled_tokens |-> [r \in scheduled |-> num_scheduled_tokens[r]],
     num_computed_tokens  |-> [r \in scheduled |-> num_computed_tokens[r]],
     new_block_ids        |-> [r \in scheduled |-> pass.new_block_ids[r]],
     num_output_tokens    |-> [r \in scheduled |->
                                 num_output_tokens(r) + num_output_placeholders[r]],
     all_token_ids        |-> [r \in scheduled |->
                                 IF r \in prev_step_scheduled_req_ids THEN <<>>
                                 ELSE all_token_ids[r]]]

\* Variant: off by one.
is_prefill_chunk_inclusive(r) ==
    num_computed_tokens[r] + num_scheduled_tokens[r]
      <= num_tokens(r) + num_output_placeholders[r]

\* The step will sample a token for r: it computes the last known token, or the
\* last one in flight.
is_prefill_chunk(r) ==
    num_computed_tokens[r] + num_scheduled_tokens[r]
      < num_tokens(r) + num_output_placeholders[r]

\* Variant: prev_step_scheduled_req_ids is not cleared first.
CommitPassAccumulating ==
    /\ pc = "commit"
    /\ IF scheduled = {} THEN UNCHANGED kvmVars ELSE CommitSchedule
    /\ num_output_placeholders' = [r \in Requests |->
          num_output_placeholders[r] +
            IF async_scheduling /\ r \in scheduled /\ ~is_prefill_chunk(r) THEN 1 ELSE 0]
    /\ prev_step_scheduled_req_ids' = prev_step_scheduled_req_ids \cup scheduled
    /\ finished_req_ids' = {}
    /\ pass' = EmptyPass
    /\ UNCHANGED <<queueVars, fixedVars, discard_latest_async_tokens, todo, arrived>>

\* EngineCore decides what comes next (pc).
CommitPass ==
    /\ pc = "commit"
    /\ IF scheduled = {} THEN UNCHANGED kvmVars ELSE CommitSchedule
    /\ num_output_placeholders' = [r \in Requests |->
          num_output_placeholders[r] +
            IF async_scheduling /\ r \in scheduled /\ ~is_prefill_chunk(r) THEN 1 ELSE 0]
    /\ prev_step_scheduled_req_ids' = scheduled
    /\ finished_req_ids' = {}
    /\ pass' = EmptyPass
    /\ UNCHANGED <<queueVars, fixedVars, discard_latest_async_tokens, todo, arrived>>
-----------------------------------------------------------------------------
(* update_from_output: the sampled tokens of a batch, request by request *)

handled == Head(todo)[1]
new_token_ids == Head(todo)[2]

\* The request is gone, or it is still in prefill and nothing was sampled.
SkipOutput ==
    /\ pc = "update" /\ todo # <<>>
    /\ status[handled] = "FINISHED" \/ new_token_ids = <<>>
    /\ todo' = Tail(todo)
    /\ UNCHANGED <<kvmVars, pc, queueVars, fixedVars, asyncVars, stepVars, pass, arrived>>

to_discard(r) == async_scheduling /\ r \in discard_latest_async_tokens

\* A token sampled before a forced preemption.
DiscardOutput ==
    /\ pc = "update" /\ todo # <<>>
    /\ status[handled] # "FINISHED" /\ new_token_ids # <<>> /\ to_discard(handled)
    /\ discard_latest_async_tokens' = discard_latest_async_tokens \ {handled}
    /\ todo' = Tail(todo)
    /\ UNCHANGED <<kvmVars, pc, queueVars, fixedVars, num_output_placeholders,
                   stepVars, pass, arrived>>

\* check_stop of a request that now has the tokens s.
check_stop(r, s) ==
    \/ Last(s) = Eos
    \/ Len(s) >= MaxModelLen
    \/ Len(s) - num_prompt_tokens[r] >= MaxTokens

\* _update_request_with_output, up to the caching of new blocks. Its assert, that
\* the token has a placeholder, is a guard: the engine would not get past it.
AppendOutput ==
    LET r == handled
        s == all_token_ids[r] \o new_token_ids
        stopped == check_stop(r, s)
    IN  /\ pc = "update" /\ todo # <<>>
        /\ status[r] # "FINISHED" /\ new_token_ids # <<>> /\ ~to_discard(r)
        /\ async_scheduling => num_output_placeholders[r] > 0
        /\ all_token_ids' = [all_token_ids EXCEPT ![r] = s]
        /\ num_output_placeholders' = [num_output_placeholders EXCEPT
              ![r] = IF async_scheduling THEN @ - 1 ELSE @]
        /\ status' = [status EXCEPT ![r] = IF stopped THEN "FINISHED" ELSE @]
        /\ pc' = IF async_scheduling /\ status[r] = "RUNNING" THEN "cache"
                 ELSE IF stopped THEN "free" ELSE "update"
        /\ todo' = IF pc' = "update" THEN Tail(todo) ELSE todo
        /\ UNCHANGED <<kvVars, num_computed_tokens, num_scheduled_tokens, waiting, running,
                       fixedVars, discard_latest_async_tokens, stepVars, pass, arrived>>

\* The async scheduler hashes a block when its last token has become known.
CacheOutput ==
    LET r == handled
        res == cache_blocks(pool, r, req_to_blocks[r], num_cached_block[r],
                            num_computed_tokens[r] - num_output_placeholders[r])
    IN  /\ pc = "cache"
        /\ pool' = res.pool
        /\ num_cached_block' = [num_cached_block EXCEPT ![r] = res.entry]
        /\ pc' = IF status[r] = "FINISHED" THEN "free" ELSE "update"
        /\ todo' = IF pc' = "update" THEN Tail(todo) ELSE todo
        /\ UNCHANGED <<req_to_blocks, reqVars, queueVars, fixedVars, asyncVars,
                       stepVars, pass, arrived>>

\* Variant: a request that stops while it is preempted stays in the waiting queue.
_free_request_running(r) ==
    /\ FreeRequest(r)
    /\ finished_req_ids' = finished_req_ids \cup {r}
    /\ running' = Without(running, {r})
    /\ UNCHANGED waiting

\* _free_request, and the removal of r from its queue.
_free_request(r) ==
    /\ FreeRequest(r)
    /\ finished_req_ids' = finished_req_ids \cup {r}
    /\ running' = Without(running, {r})
    /\ waiting' = Without(waiting, {r})

FreeStopped ==
    /\ pc = "free"
    /\ _free_request(handled)
    /\ pc' = "update"
    /\ todo' = Tail(todo)
    /\ UNCHANGED <<status, fixedVars, asyncVars, prev_step_scheduled_req_ids,
                   pass, arrived>>

EndUpdate ==
    /\ pc = "update" /\ todo = <<>>
    /\ pc' = "idle"
    /\ UNCHANGED <<kvmVars, queueVars, fixedVars, asyncVars, stepVars,
                   pass, todo, arrived>>
-----------------------------------------------------------------------------
(* Calls from outside *)

add_request(r) ==
    /\ status[r] = "ABSENT"
    /\ status' = [status EXCEPT ![r] = "WAITING"]
    /\ waiting' = Append(waiting, r)
    /\ arrived' = Append(arrived, r)
    /\ UNCHANGED <<kvmVars, pc, running, fixedVars, asyncVars, stepVars, pass, todo>>

\* An abort; of a request that is unknown or finished it does nothing.
finish_requests(r) ==
    /\ status[r] \in {"WAITING", "RUNNING", "PREEMPTED"}
    /\ status' = [status EXCEPT ![r] = "FINISHED"]
    /\ _free_request(r)
    /\ UNCHANGED <<pc, fixedVars, asyncVars, prev_step_scheduled_req_ids,
                   pass, todo, arrived>>

\* reset_prefix_cache(reset_running_requests=True), one running request at a time.
PreemptForReset ==
    /\ pc = "reset" /\ running # <<>>
    /\ _preempt_request(Last(running))
    /\ running' = Front(running)
    /\ num_output_placeholders' = [num_output_placeholders EXCEPT ![Last(running)] = 0]
    /\ discard_latest_async_tokens' = discard_latest_async_tokens \cup {Last(running)}
    /\ UNCHANGED <<pc, fixedVars, stepVars, pass, todo, arrived>>

\* Variant: the preempted requests still count as scheduled in the last step.
EndResetKeepingStep ==
    /\ pc = "reset" /\ running = <<>>
    /\ ResetPrefixCache
    /\ pc' = "idle"
    /\ UNCHANGED <<queueVars, fixedVars, asyncVars, stepVars, pass, todo, arrived>>

EndReset ==
    /\ pc = "reset" /\ running = <<>>
    /\ ResetPrefixCache
    /\ prev_step_scheduled_req_ids' = {}
    /\ pc' = "idle"
    /\ UNCHANGED <<queueVars, fixedVars, asyncVars, finished_req_ids,
                   pass, todo, arrived>>
-----------------------------------------------------------------------------
(* What the scheduler guarantees *)

\* The request whose stop update_from_output is handling.
stopping == IF pc \in {"cache", "free"} THEN {handled} ELSE {}

\* A request is in exactly the queue its status names, once, and only running
\* requests hold blocks: none is lost or queued twice by preemption, abort, stop
\* (also while preempted) and forced reset.
QueuesAgreeWithStatus ==
    /\ IsInjectiveSeq(running \o waiting)
    /\ \A r \in Requests \ stopping :
         /\ r \in Range(running) <=> status[r] = "RUNNING"
         /\ r \in Range(waiting) <=> status[r] \in {"WAITING", "PREEMPTED"}
         /\ req_to_blocks[r] # <<>> <=> status[r] = "RUNNING"

\* First come, first served survives preemption: the running requests, then the
\* waiting ones, are in the order in which they arrived.
ArrivalOrderIsKept ==
    LET rank(r) == CHOOSE i \in DOMAIN arrived : arrived[i] = r
        line == running \o waiting
    IN  \A i, j \in DOMAIN line : i < j => rank(line[i]) < rank(line[j])

\* What a pass has scheduled, when it is over: at most max_num_running_reqs
\* requests run; exactly the requests in the order have tokens scheduled and all
\* of them run, so that none was both scheduled and preempted; the resumed ones
\* were not scheduled in the previous step (_make_cached_request_data).
PassIsConsistent ==
    pc = "commit" =>
      /\ Len(running) <= MaxNumRunningReqs
      /\ \A r \in Requests : num_scheduled_tokens[r] > 0 <=> r \in scheduled
      /\ scheduled \subseteq Range(running)
      /\ \A r \in pass.resumed : r \notin prev_step_scheduled_req_ids

\* After a forced reset has preempted all running requests, no block is in use:
\* the pool's reset succeeds and the RuntimeError is not raised.
ForcedResetSucceeds ==
    pc = "reset" /\ running = <<>> => can_reset_prefix_cache(pool)
=============================================================================

------------------------- MODULE MultiprocExecutor --------------------------
(***************************************************************************)
(* Remote calls of the engine on its worker processes                      *)
(* (v1/executor/multiproc_executor.py).  collective_rpc broadcasts a call  *)
(* to every worker and returns a future; replies come back through one     *)
(* queue per worker and carry no call identifier, so a future takes the    *)
(* next reply of each queue it reads.  Threads: the engine's main thread,  *)
(* the monitor of worker processes, one busy loop per worker and, with     *)
(* asynchronous scheduling, one output thread per worker.                  *)
(*                                                                         *)
(* The queues are used as module BroadcastQueue specifies them.  A call is *)
(* its position in the broadcast; a reply is the call it answers and       *)
(* whether the method succeeded.                                           *)
(***************************************************************************)
EXTENDS Naturals, Sequences, Functions

CONSTANTS
  world_size,    \* workers, ranks 0 .. world_size - 1
  output_rank,   \* _get_output_rank
  MaxCalls       \* bound: calls that reach the broadcast queue

Ranks == 0 .. world_size - 1
Calls == 1 .. MaxCalls
ALL == world_size        \* no unique_reply_rank: every worker replies

ASSUME ExecutorAssumption ==
  world_size \in Nat \ {0} /\ output_rank \in Ranks /\ MaxCalls \in Nat

Threads == {"main", "monitor"}

VARIABLES
  use_async_scheduling,  \* workers hand outputs to a thread of their own
  calls,            \* rpc_broadcast_mq: every call broadcast so far
  main,             \* the engine's main thread
  futures_queue,    \* calls whose future is still in the queue, oldest first
  future,           \* call -> its FutureWrapper
  worker,           \* rank -> the worker's busy loop
  async_output_queue, output_thread,   \* rank -> its output thread
  response_mq,      \* rank -> replies not yet read
  is_failed, failure_callback, engine_told,
  shutting_down, closer,    \* shutdown: the flag, and who is where in it
  mq_cancelled, mqs_dropped,
  abandoned         \* history: ranks with a reply its caller gave up on

rpcVars == <<use_async_scheduling, calls>>
workerVars == <<worker, async_output_queue, output_thread, response_mq>>
futureVars == <<futures_queue, future, abandoned>>
failVars == <<is_failed, failure_callback, engine_told>>
closeVars == <<shutting_down, closer, mq_cancelled, mqs_dropped>>
vars == <<rpcVars, main, futureVars, workerVars, failVars, closeVars>>

(* The main thread outside any call. *)
Ready == [pc |-> "ready", kind |-> ALL, timed |-> FALSE, non_block |-> FALSE,
          target |-> 0, current |-> 0]

Init ==
  /\ use_async_scheduling \in BOOLEAN
  /\ calls = << >>
  /\ main = Ready
  /\ futures_queue = << >>
  /\ future = << >>
  /\ worker = [w \in Ranks |-> [pc |-> "idle", next |-> 1]]
  /\ async_output_queue = [w \in Ranks |-> << >>]
  /\ output_thread = [w \in Ranks |-> "running"]
  /\ response_mq = [w \in Ranks |-> << >>]
  /\ is_failed = FALSE /\ failure_callback = "unset" /\ engine_told = FALSE
  /\ shutting_down = FALSE
  /\ closer = [t \in Threads |-> "out"]
  /\ mq_cancelled = FALSE /\ mqs_dropped = FALSE
  /\ abandoned = {}

-----------------------------------------------------------------------------
(* The main thread: collective_rpc, in the three steps between which the   *)
(* monitor thread may run.                                                 *)

(* The assertion and the check of is_failed; either raises. *)
collective_rpc ==
  /\ main.pc = "ready"
  /\ failure_callback \notin {"unset", "checked"}
  /\ closer["main"] = "out"
  /\ Len(calls) < MaxCalls
  /\ ~mqs_dropped /\ ~is_failed
  /\ \E kind \in {output_rank, ALL}, timed, non_block \in BOOLEAN :
       main' = [main EXCEPT !.pc = "enqueue", !.kind = kind, !.timed = timed,
                            !.non_block = non_block]
  /\ UNCHANGED <<rpcVars, futureVars, workerVars, failVars, closeVars>>

(* rpc_broadcast_mq.enqueue; the attribute may have become None. *)
broadcast ==
  /\ main.pc = "enqueue"
  /\ IF mqs_dropped
     THEN UNCHANGED calls /\ main' = Ready
     ELSE /\ calls' = Append(calls, [output_rank |-> main.kind,
                                     timed |-> main.timed])
          /\ main' = [main EXCEPT !.pc = "create_future"]
  /\ UNCHANGED <<use_async_scheduling, futureVars, workerVars, failVars,
                 closeVars>>

(* The queues the future will read: self.response_mqs as it is now, which  *)
(* shutdown empties; indexing it then raises.                              *)
Response_mqs(kind) ==
  IF kind # ALL THEN <<kind>>
  ELSE IF mqs_dropped THEN << >> ELSE [k \in 1 .. world_size |-> k - 1]

create_future ==
  LET raises == mqs_dropped /\ main.kind # ALL
      wrapper == [state |-> "pending", responses |-> << >>,
                  mqs |-> IF raises THEN << >> ELSE Response_mqs(main.kind)]
  IN
  /\ main.pc = "create_future"
  /\ future' = Append(future,
                 [wrapper EXCEPT !.state = IF raises THEN "exception" ELSE @])
  /\ IF raises
     THEN UNCHANGED futures_queue /\ main' = Ready
     ELSE /\ futures_queue' = Append(futures_queue, Len(calls))
          /\ main' = IF main.non_block THEN Ready
                     ELSE [Ready EXCEPT !.pc = "result", !.target = Len(calls)]
  /\ UNCHANGED <<rpcVars, abandoned, workerVars, failVars, closeVars>>

(* The caller of a non-blocking call asks its future for the result. *)
ask_result ==
  /\ main.pc = "ready" /\ closer["main"] = "out"
  /\ \E i \in DOMAIN future :
       /\ future[i].state = "pending"
       /\ main' = [main EXCEPT !.pc = "result", !.target = i]
  /\ UNCHANGED <<rpcVars, futureVars, workerVars, failVars, closeVars>>

(* FutureWrapper.result, with the future it takes from the queue next. *)
Take(i, rest) ==
  /\ main.pc = "result"
  /\ IF future[main.target].state # "pending"
     THEN main' = Ready /\ UNCHANGED futures_queue
     ELSE /\ main' = [main EXCEPT !.pc = "get_response", !.current = i]
          /\ futures_queue' = rest
  /\ UNCHANGED <<rpcVars, future, abandoned, workerVars, failVars, closeVars>>

(* Variants: the future reads its own replies at once; the oldest future   *)
(* is read and left in the queue.                                          *)
result_without_draining ==
  Take(main.target, SelectSeq(futures_queue, LAMBDA i : i # main.target))
result_peeking == Take(Head(futures_queue), futures_queue)

(* Drain the futures ahead until this one is done. *)
result == Take(Head(futures_queue), Tail(futures_queue))

Resolve(state) ==
  /\ future' = [future EXCEPT ![main.current].state = state]
  /\ main' = [main EXCEPT !.pc = "result", !.current = 0]

(* get_response: the replies are read queue by queue. *)
Reading == future[main.current]
NextMq == Reading.mqs[Len(Reading.responses) + 1]
Unread(n) == {Reading.mqs[k] : k \in Len(Reading.responses) + n .. Len(Reading.mqs)}

get_response_done ==
  /\ main.pc = "get_response"
  /\ Len(Reading.responses) = Len(Reading.mqs)
  /\ Resolve("result")
  /\ UNCHANGED <<rpcVars, futures_queue, abandoned, workerVars, failVars,
                 closeVars>>

(* A reply arrives.  One that reports a failure raises at once: the        *)
(* replies of the other workers stay in their queues.                      *)
get_response_reply ==
  /\ main.pc = "get_response"
  /\ Len(Reading.responses) < Len(Reading.mqs)
  /\ response_mq[NextMq] # << >>
  /\ LET reply == Head(response_mq[NextMq]) IN
     IF reply.ok
     THEN /\ future' = [future EXCEPT ![main.current].responses =
                          Append(@, reply.call)]
          /\ UNCHANGED <<main, abandoned>>
     ELSE /\ Resolve("exception")
          /\ abandoned' = abandoned \cup Unread(2)
  /\ response_mq' = [response_mq EXCEPT ![NextMq] = Tail(@)]
  /\ UNCHANGED <<rpcVars, futures_queue, worker, async_output_queue,
                 output_thread, failVars, closeVars>>

(* No reply: the deadline passes, or the queue is cancelled. *)
get_response_raises ==
  /\ main.pc = "get_response"
  /\ Len(Reading.responses) < Len(Reading.mqs)
  /\ response_mq[NextMq] = << >>
  /\ calls[main.current].timed \/ mq_cancelled
  /\ Resolve("exception")
  /\ abandoned' = abandoned \cup Unread(1)
  /\ UNCHANGED <<rpcVars, futures_queue, workerVars, failVars, closeVars>>

(* register_failure_callback: the check of is_failed, then the assignment, *)
(* which nobody reads ("late") if the monitor has finished in between.     *)
register_failure_callback ==
  /\ \/ /\ failure_callback = "unset"
        /\ failure_callback' = IF is_failed THEN "called" ELSE "checked"
        /\ engine_told' = is_failed
     \/ /\ failure_callback = "checked"
        /\ failure_callback' = IF closer["monitor"] = "left" THEN "late" ELSE "set"
        /\ UNCHANGED engine_told
  /\ UNCHANGED <<rpcVars, main, futureVars, workerVars, is_failed, closeVars>>

-----------------------------------------------------------------------------
(* The worker processes *)

(* worker_busy_loop: dequeue the next call. *)
worker_dequeue(w) ==
  /\ worker[w].pc = "idle"
  /\ worker[w].next <= Len(calls)
  /\ worker' = [worker EXCEPT ![w].pc = "running"]
  /\ UNCHANGED <<rpcVars, main, futureVars, async_output_queue, output_thread,
                 response_mq, failVars, closeVars>>

(* The method returns or raises; handle_output if a reply is wanted. *)
Execute(w, reply_wanted) ==
  /\ worker[w].pc = "running"
  /\ \E ok \in BOOLEAN :
       LET reply == IF reply_wanted THEN <<[call |-> worker[w].next, ok |-> ok]>>
                                    ELSE << >> IN
       IF use_async_scheduling
       THEN /\ async_output_queue' = [async_output_queue EXCEPT ![w] = @ \o reply]
            /\ UNCHANGED response_mq
       ELSE /\ response_mq' = [response_mq EXCEPT ![w] = @ \o reply]
            /\ UNCHANGED async_output_queue
  /\ worker' = [worker EXCEPT ![w] = [pc |-> "idle", next |-> @.next + 1]]
  /\ UNCHANGED <<rpcVars, main, futureVars, output_thread, failVars, closeVars>>

(* Variant: every worker replies to every call. *)
worker_execute_all_reply(w) == Execute(w, TRUE)

worker_execute(w) ==
  /\ worker[w].pc = "running"
  /\ Execute(w, calls[worker[w].next].output_rank \in {ALL, w})

(* async_output_busy_loop: enqueue_output for the oldest output.  Nothing  *)
(* catches what get_output raises; the thread then ends.                   *)
async_output_busy_loop(w) ==
  /\ output_thread[w] = "running"
  /\ async_output_queue[w] # << >>
  /\ async_output_queue' = [async_output_queue EXCEPT ![w] = Tail(@)]
  /\ \/ /\ response_mq' = [response_mq EXCEPT ![w] =
                             Append(@, Head(async_output_queue[w]))]
        /\ UNCHANGED output_thread
     \/ /\ output_thread' = [output_thread EXCEPT ![w] = "ended"]
        /\ UNCHANGED response_mq
  /\ UNCHANGED <<rpcVars, main, futureVars, worker, failVars, closeVars>>

(* A worker process ends, and with it its busy loop and its output thread. *)
End(ranks) ==
  /\ worker' = [w \in Ranks |-> IF w \in ranks THEN [pc |-> "dead", next |-> 1]
                                              ELSE worker[w]]
  /\ async_output_queue' = [w \in Ranks |-> IF w \in ranks THEN << >>
                                             ELSE async_output_queue[w]]
  /\ output_thread' = [w \in Ranks |-> IF w \in ranks THEN "ended"
                                        ELSE output_thread[w]]
  /\ UNCHANGED response_mq

worker_dies(w) ==
  /\ worker[w].pc # "dead"
  /\ End({w})
  /\ UNCHANGED <<rpcVars, main, futureVars, failVars, closeVars>>

-----------------------------------------------------------------------------
(* shutdown, run by the main thread when the engine stops and by the       *)
(* monitor when a worker dies.                                             *)

At(t, pc) == closer' = [closer EXCEPT ![t] = pc]

(* The flag; the second thread to come skips the workers. *)
shutdown_begin(t) ==
  /\ closer[t] = "begin"
  /\ shutting_down' = TRUE
  /\ At(t, IF shutting_down THEN "drop" ELSE "terminate")
  /\ UNCHANGED <<rpcVars, main, futureVars, workerVars, failVars, mq_cancelled,
                 mqs_dropped>>

(* Close the death pipes, _ensure_worker_termination (SIGKILL at the end). *)
shutdown_terminate(t) ==
  /\ closer[t] = "terminate"
  /\ End(Ranks)
  /\ At(t, "cancel")
  /\ UNCHANGED <<rpcVars, main, futureVars, failVars, shutting_down,
                 mq_cancelled, mqs_dropped>>

(* worker_response_mq.shutdown() wakes a reader that waits for a reply. *)
shutdown_cancel(t) ==
  /\ closer[t] = "cancel"
  /\ mq_cancelled' = TRUE
  /\ At(t, "drop")
  /\ UNCHANGED <<rpcVars, main, futureVars, workerVars, failVars, shutting_down,
                 mqs_dropped>>

(* rpc_broadcast_mq = None, response_mqs = [], each shut down first: the   *)
(* thread that skipped the workers cancels the response queues too.        *)
shutdown_drop(t) ==
  /\ closer[t] = "drop"
  /\ mqs_dropped' = TRUE /\ mq_cancelled' = TRUE
  /\ At(t, "done")
  /\ UNCHANGED <<rpcVars, main, futureVars, workerVars, failVars, shutting_down>>

Shutdown(t) ==
  shutdown_begin(t) \/ shutdown_terminate(t) \/ shutdown_cancel(t) \/ shutdown_drop(t)

engine_stops ==
  /\ main.pc = "ready" /\ closer["main"] = "out"
  /\ failure_callback \notin {"unset", "checked"}
  /\ At("main", "begin")
  /\ UNCHANGED <<rpcVars, main, futureVars, workerVars, failVars,
                 shutting_down, mq_cancelled, mqs_dropped>>

(* A process has ended.  If not by a shutdown, fail and go on at pc. *)
Fail(pc) ==
  /\ closer["monitor"] = "out"
  /\ \E w \in Ranks : worker[w].pc = "dead"
  /\ IF shutting_down THEN At("monitor", "left") /\ UNCHANGED is_failed
                      ELSE At("monitor", pc) /\ is_failed' = TRUE
  /\ UNCHANGED <<rpcVars, main, futureVars, workerVars, failure_callback,
                 engine_told, shutting_down, mq_cancelled, mqs_dropped>>

(* Variant: the failure is reported, the executor left as it is. *)
monitor_workers_reporting == Fail("done")

(* monitor_workers: shut down first ... *)
monitor_workers == Fail("begin")

(* ... then the callback, if there is one. *)
Invoke(there_is_one) ==
  /\ closer["monitor"] = "done"
  /\ At("monitor", "left")
  /\ IF there_is_one THEN failure_callback' = "called" /\ engine_told' = TRUE
                     ELSE UNCHANGED <<failure_callback, engine_told>>
  /\ UNCHANGED <<rpcVars, main, futureVars, workerVars, is_failed, shutting_down,
                 mq_cancelled, mqs_dropped>>

(* Variant: the end of a shutdown is never reported, its own included. *)
invoke_failure_callback_unless_closing ==
  Invoke(failure_callback = "set" /\ ~shutting_down)

invoke_failure_callback == Invoke(failure_callback = "set")

-----------------------------------------------------------------------------
MainStep ==
  \/ broadcast \/ create_future \/ result \/ get_response_done
  \/ get_response_reply \/ get_response_raises \/ register_failure_callback
  \/ Shutdown("main")

MonitorStep == monitor_workers \/ Shutdown("monitor") \/ invoke_failure_callback

WorkerStep(w) == worker_dequeue(w) \/ worker_execute(w)

Next ==
  \/ MainStep \/ collective_rpc \/ ask_result \/ engine_stops
  \/ MonitorStep
  \/ \E w \in Ranks : \/ WorkerStep(w) \/ async_output_busy_loop(w)
                      \/ worker_dies(w)

Spec == Init /\ [][Next]_vars

(* Every thread that can run does: worker methods return, and the main     *)
(* thread goes on with a call it has begun.  Nothing forces a new call, a  *)
(* crash or a shutdown.                                                    *)
FairSpec ==
  /\ Spec
  /\ WF_vars(MainStep) /\ WF_vars(MonitorStep)
  /\ \A w \in Ranks : WF_vars(WorkerStep(w)) /\ WF_vars(async_output_busy_loop(w))

-----------------------------------------------------------------------------
(* Properties *)

FutureStates == {"pending", "result", "exception"}
Replies == [call : Calls, ok : BOOLEAN]

(* Type correctness; in particular a queue is read only for a future that   *)
(* names it, and every pending future is in the futures queue or being read.*)
TypeOK ==
  /\ use_async_scheduling \in BOOLEAN
  /\ calls \in Seq([output_rank : {output_rank, ALL}, timed : BOOLEAN])
  /\ main.pc \in {"ready", "enqueue", "create_future", "result", "get_response"}
  /\ main.target \in {0} \cup DOMAIN future
  /\ main.current \in {0} \cup DOMAIN future
  /\ DOMAIN future \in {1 .. Len(calls), 1 .. Len(calls) - 1}
  /\ \A i \in DOMAIN future :
       /\ future[i].state \in FutureStates
       /\ future[i].mqs \in Seq(Ranks) /\ future[i].responses \in Seq(Calls)
       /\ future[i].state = "pending" <=>
            i = main.current \/ i \in Range(futures_queue)
  /\ \A w \in Ranks :
       /\ worker[w].pc \in {"idle", "running", "dead"}
       /\ worker[w].next \in 1 .. Len(calls) + 1
       /\ async_output_queue[w] \in Seq(Replies) /\ response_mq[w] \in Seq(Replies)
       /\ output_thread[w] \in {"running", "ended"}
  /\ closer \in [Threads -> {"out", "begin", "terminate", "cancel", "drop",
                             "done", "left"}]
  /\ abandoned \subseteq Ranks

(* The replies a call asked for: one of each worker, or the output rank's. *)
Asked(i) == IF calls[i].output_rank = ALL THEN [k \in 1 .. world_size |-> k - 1]
            ELSE <<output_rank>>

OwnReply(i, k) == future[i].responses[k] = i

(* Replies carry no call identifier, yet a call that returns has read the   *)
(* replies to itself, whatever futures were drained on the way, as long as  *)
(* no earlier caller gave up on a reply of the same worker (its deadline    *)
(* passed, or another worker reported a failure first) and no shutdown took *)
(* the queues away while the call was being made.                           *)
RepliesMatchCalls ==
  \A i \in DOMAIN future :
    future[i].state = "result" /\ ~mqs_dropped =>
      /\ future[i].mqs = Asked(i)
      /\ \A k \in DOMAIN Asked(i) : Asked(i)[k] \in abandoned \/ OwnReply(i, k)

(* FutureWrapper.result drains the futures ahead of it: futures are settled *)
(* in the order of the calls.                                               *)
FuturesSettleInOrder ==
  \A i, j \in DOMAIN future :
    i < j /\ future[j].state = "result" => future[i].state # "pending"

(* A call without a deadline that waits for a worker whose output thread    *)
(* has ended while its process lives on: nothing will wake it.              *)
WaitsForEver ==
  /\ main.pc = "get_response"
  /\ Len(Reading.responses) < Len(Reading.mqs)
  /\ ~calls[main.current].timed
  /\ response_mq[NextMq] = << >>
  /\ output_thread[NextMq] = "ended" /\ worker[NextMq].pc # "dead"

(* No call hangs: result() returns or raises, also when the worker it waits *)
(* for dies (the monitor's shutdown cancels the queue it is blocked on),    *)
(* except when an output thread was ended by an exception of get_output.    *)
NoCallHangs == main.pc # "ready" ~> (main.pc = "ready" \/ WaitsForEver)

(* A worker that dies on its own makes the monitor tell the engine, unless  *)
(* the engine was stopping anyway or the monitor's whole run fell between   *)
(* the two steps of register_failure_callback.                              *)
FailureReachesEngine ==
  (\E w \in Ranks : worker[w].pc = "dead") ~>
     (engine_told \/ closer["main"] # "out" \/ failure_callback = "late")
=============================================================================

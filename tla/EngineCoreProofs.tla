-------------------------- MODULE EngineCoreProofs --------------------------
(***************************************************************************)
(* The engine implements the KV-cache manager, and keeps the promises of     *)
(* its scheduler, for all values of the constants: whatever batches are      *)
(* under way, whatever the worker samples and whenever clients add requests, *)
(* abort them or reset the prefix cache.                                     *)
(*                                                                         *)
(* SchedulerProofs shows that no step of the scheduler harms its invariant.  *)
(* What is left is what the engine adds: the batch queue, from which the     *)
(* scheduler gets back requests and tokens.                                  *)
(***************************************************************************)
EXTENDS EngineCore, SchedulerProofs

\* ModelRunnerOutput: at most one token for every request of the batch.
Results ==
    {result \in [order : Seq(Requests), sampled : PartialFunctions(Samples)] :
       DOMAIN result.sampled = Range(result.order)}

QueueTypeOK == in_flight \in Seq(Batches) /\ done \in Seq(Results)

EngineInv == IInv /\ SchedInv /\ QueueTypeOK
-----------------------------------------------------------------------------
(* The batch queue *)

\* A step samples at most one token for every request of the batch, whatever its
\* rows are.
LEMMA SampledType ==
    ASSUME \A s : NextToken(s) \in Tokens, NEW batch \in Batches
    PROVE  [order |-> batch.order, sampled |-> Worker!executed(batch).sampled_token_ids]
             \in Results
<1>1. batch.order \in Seq(Requests)
  BY DEF Batches
<1>2. Range(batch.order) \in SUBSET Requests
  BY <1>1, RangeOfSeq
<1>3. ASSUME NEW rows, NEW valid \in SUBSET DOMAIN rows, NEW kv
      PROVE  Worker!sampled_token_ids(batch, rows, valid, Worker!sampled_tokens(batch, rows, kv))
               \in [Range(batch.order) -> Samples]
  <2> DEFINE sampled == Worker!sampled_tokens(batch, rows, kv)
             of(r) == Worker!req_index(rows, r)
             S == Worker!with_token(rows, valid)
  <2>1. \A i \in DOMAIN rows : sampled[i] \in Tokens
    BY EngineAssumption, Zenon DEF Worker!sampled_token, Worker!sampled_tokens
  <2>2. ASSUME NEW r \in S PROVE of(r) \in DOMAIN rows
    <3>1. \E i \in DOMAIN rows : rows[i].req_id = r
      BY <2>2, Zenon DEF Worker!with_token
    <3> QED BY <3>1, Zenon DEF Worker!req_index
  <2> HIDE DEF sampled, of, S
  <2>3. \A r \in Range(batch.order) : (IF r \in S THEN <<sampled[of(r)]>> ELSE <<>>) \in Samples
    BY <2>1, <2>2 DEF Samples
  <2>4. [r \in Range(batch.order) |-> IF r \in S THEN <<sampled[of(r)]>> ELSE <<>>]
          \in [Range(batch.order) -> Samples]
    BY <2>3, Zenon
  <2>5. Worker!members(batch) = Range(batch.order)
    BY Zenon DEF Worker!members, Worker!Range, Range
  <2> QED BY <2>4, <2>5, Zenon DEF sampled, of, S, Worker!sampled_token_ids
<1> DEFINE ids == Worker!executed(batch).sampled_token_ids
<1>4. \E rows, kv : \E valid \in SUBSET DOMAIN rows :
        ids = Worker!sampled_token_ids(batch, rows, valid, Worker!sampled_tokens(batch, rows, kv))
  <2>1. PICK states : states = Worker!updated_states(batch)
    OBVIOUS
  <2>2. PICK rows : rows = Worker!updated_rows(batch, states)
    OBVIOUS
  <2>3. PICK kv : kv = Worker!stored(batch, rows)
    OBVIOUS
  <2>4. PICK valid : valid = Worker!valid_rows(batch, rows, states)
    OBVIOUS
  <2>5. valid \in SUBSET DOMAIN rows
    BY <2>4, Zenon DEF Worker!valid_rows
  <2>6. ids = Worker!sampled_token_ids(batch, rows, valid, Worker!sampled_tokens(batch, rows, kv))
    BY <2>1, <2>2, <2>3, <2>4, SMTT(30) DEF Worker!executed
  <2> QED BY <2>5, <2>6, Zenon
<1> HIDE DEF ids
<1>5. ids \in [Range(batch.order) -> Samples]
  BY <1>3, <1>4, Zenon
<1>6. ids \in PartialFunctions(Samples) /\ DOMAIN ids = Range(batch.order)
  BY <1>2, <1>5, Zenon DEF PartialFunctions
<1>7. [order |-> batch.order, sampled |-> ids]
        \in [order : Seq(Requests), sampled : PartialFunctions(Samples)]
  BY <1>1, <1>6, Zenon
<1>8. DOMAIN [order |-> batch.order, sampled |-> ids].sampled
        = Range([order |-> batch.order, sampled |-> ids].order)
  BY <1>6
<1> QED BY <1>7, <1>8, Zenon DEF Results, ids

\* The outputs that update_from_output goes through.
LEMMA OutputsType ==
    ASSUME NEW result \in Results
    PROVE  [i \in DOMAIN result.order |-> <<result.order[i], result.sampled[result.order[i]]>>]
             \in Seq(Requests \X Samples)
<1>1. PICK order : order = result.order
  OBVIOUS
<1>2. PICK sampled : sampled = result.sampled
  OBVIOUS
<1>3. order \in Seq(Requests) /\ sampled \in PartialFunctions(Samples) /\ DOMAIN sampled = Range(order)
  BY <1>1, <1>2 DEF Results
<1>4. \A r \in Range(order) : sampled[r] \in Samples
  BY <1>3, Zenon DEF PartialFunctions
<1>5. \A i \in DOMAIN order : <<order[i], sampled[order[i]]>> \in Requests \X Samples
  BY <1>3, <1>4 DEF Range
<1>6. Len(order) \in Nat /\ DOMAIN order = 1 .. Len(order)
  BY <1>3
<1>7. [i \in 1 .. Len(order) |-> <<order[i], sampled[order[i]]>>] \in Seq(Requests \X Samples)
  <2> DEFINE n == Len(order)
             T == Requests \X Samples
             f == [i \in 1 .. n |-> <<order[i], sampled[order[i]]>>]
  <2>1. f \in [1 .. n -> T]
    BY <1>5, <1>6, Zenon
  <2>2. n \in Nat
    BY <1>6
  <2> HIDE DEF n, T, f
  <2>3. f \in Seq(T)
    BY <2>1, <2>2
  <2> QED BY <2>3, Zenon DEF n, T, f
<1> QED BY <1>1, <1>2, <1>6, <1>7, Zenon

LEMMA EngineStepInv ==
    ASSUME \A s : NextToken(s) \in Tokens, EngineInv, [EngineNext]_vars
    PROVE  KvStep /\ EngineInv'
<1>1. IInv /\ SchedInv /\ in_flight \in Seq(Batches) /\ done \in Seq(Results)
  BY DEF EngineInv, QueueTypeOK
<1>2. SUFFICES KvStep /\ SchedInv' /\ QueueTypeOK'
  BY <1>1, KvInv DEF EngineInv
<1>3. ASSUME UNCHANGED queue PROVE QueueTypeOK'
  BY <1>1, <1>3 DEF queue, QueueTypeOK
<1>4. CASE StartStep \/ DrainQueue
  <2>1. /\ UNCHANGED <<kvmVars, queueVars, fixedVars, asyncVars, stepVars, pass, arrived>>
        /\ pc = "idle" /\ pc' \in {"running", "wait"} /\ todo' = todo /\ UNCHANGED queue
    BY <1>4 DEF StartStep, DrainQueue
  <2>2. todo \in Seq(Requests \X Samples)
    BY <1>1 DEF SchedInv, SchedTypeOK
  <2> QED BY <1>1, <1>3, <2>1, <2>2, PhaseStep DEF Phases
<1>5. CASE SchedulePass
  BY <1>1, <1>3, <1>5, PassStep, Zenon DEF SchedulePass
<1>6. CASE LaunchBatch
  <2>1. /\ CommitPass /\ pc' \in {"idle", "wait"} /\ done' = done
        /\ in_flight' = Append(in_flight, scheduler_output)
    BY <1>6 DEF LaunchBatch
  <2>2. KvStep /\ SchedInv'
    BY <1>1, <2>1, CommitPassStep
  <2>3. scheduler_output \in Batches
    BY <1>1, OutputType
  <2>4. QueueTypeOK'
    BY <1>1, <2>1, <2>3 DEF QueueTypeOK
  <2> QED BY <2>2, <2>4
<1>7. CASE ApplyResult
  <2>1. /\ UNCHANGED <<kvmVars, queueVars, fixedVars, asyncVars, stepVars, pass, arrived>>
        /\ pc = "wait" /\ pc' = "update" /\ done # <<>> /\ done' = Tail(done)
        /\ in_flight' = in_flight
        /\ todo' = [i \in DOMAIN Head(done).order |->
                      <<Head(done).order[i], Head(done).sampled[Head(done).order[i]]>>]
    BY <1>7 DEF ApplyResult
  <2>2. Head(done) \in Results /\ Tail(done) \in Seq(Results)
    BY <1>1, <2>1
  <2>3. todo' \in Seq(Requests \X Samples)
    BY <2>1, <2>2, OutputsType, Zenon
  <2>4. KvStep /\ SchedInv'
    BY <1>1, <2>1, <2>3, PhaseStep DEF Phases
  <2>5. QueueTypeOK'
    BY <1>1, <2>1, <2>2 DEF QueueTypeOK
  <2> QED BY <2>4, <2>5
<1>8. CASE UpdateFromOutput
  BY <1>1, <1>3, <1>8, UpdateStep, Zenon DEF UpdateFromOutput
<1>9. CASE ForceReset
  BY <1>1, <1>3, <1>9, PreemptForResetStep, EndResetStep, Zenon DEF ForceReset
<1>10. CASE WorkerStep
  <2>1. /\ UNCHANGED <<kvmVars, schedVars>> /\ in_flight # <<>> /\ in_flight' = Tail(in_flight)
        /\ done' = Append(done, [order |-> Head(in_flight).order,
                                 sampled |-> Worker!executed(Head(in_flight)).sampled_token_ids])
    BY <1>10 DEF WorkerStep
  <2>2. Head(in_flight) \in Batches /\ Tail(in_flight) \in Seq(Batches)
    BY <1>1, <2>1
  <2>3. [order |-> Head(in_flight).order,
         sampled |-> Worker!executed(Head(in_flight)).sampled_token_ids] \in Results
    BY <2>2, SampledType, Zenon
  <2>4. PICK result : result = [order |-> Head(in_flight).order,
                               sampled |-> Worker!executed(Head(in_flight)).sampled_token_ids]
    BY Zenon
  <2>5. done' = Append(done, result) /\ result \in Results
    BY <2>1, <2>3, <2>4, Zenon
  <2>6. QueueTypeOK'
    BY <1>1, <2>1, <2>2, <2>5 DEF QueueTypeOK
  <2>7. KvStep /\ SchedInv'
    BY <1>1, <2>1, SameSched, Zenon
  <2> QED BY <2>6, <2>7
<1>11. ASSUME NEW r \in Requests, AddRequest(r) \/ AbortRequest(r)
       PROVE  KvStep /\ SchedInv' /\ QueueTypeOK'
  <2>1. CASE AddRequest(r)
    BY <1>1, <1>3, <2>1, AddRequestStep, Zenon DEF AddRequest
  <2>2. CASE AbortRequest(r)
    <3>1. pc \in {"idle", "wait"} /\ finish_requests(r) /\ UNCHANGED queue
      BY <2>2 DEF AbortRequest
    <3>2. pc \notin {"running", "waiting", "commit", "reset", "cache", "free"}
      BY <3>1
    <3> QED BY <1>1, <1>3, <3>1, <3>2, FinishRequestsStep, Zenon
  <2> QED BY <1>11, <2>1, <2>2
<1>12. CASE StartReset
  <2>1. /\ UNCHANGED <<queueVars, fixedVars, asyncVars, stepVars, pass, todo, arrived>>
        /\ UNCHANGED queue /\ pc = "idle"
        /\ \/ ResetPrefixCache /\ pc' = pc
           \/ UNCHANGED kvmVars /\ pc' = "reset"
    BY <1>12, Zenon DEF StartReset
  <2>2. CASE ResetPrefixCache /\ pc' = pc
    BY <1>1, <1>3, <2>1, <2>2, ResetStepKeeps
  <2>3. CASE UNCHANGED kvmVars /\ pc' = "reset"
    <3>1. todo' \in Seq(Requests \X Samples)
      BY <1>1, <2>1 DEF SchedInv, SchedTypeOK
    <3> QED BY <1>1, <1>3, <2>1, <2>3, <3>1, PhaseStep DEF Phases
  <2> QED BY <2>1, <2>2, <2>3
<1>13. CASE Quiescent \/ UNCHANGED vars
  <2>1. UNCHANGED <<kvmVars, schedVars>> /\ UNCHANGED queue
    BY <1>13 DEF Quiescent, vars
  <2> QED BY <1>1, <1>3, <2>1, SameSched, Zenon
<1> QED BY <1>4, <1>5, <1>6, <1>7, <1>8, <1>9, <1>10, <1>11, <1>12, <1>13
        DEF EngineNext, EngineStep, ClientStep

LEMMA EngineInitInv == EngineInit => EngineInv
<1> SUFFICES ASSUME EngineInit PROVE EngineInv
  OBVIOUS
<1>1. Init /\ SchedInit /\ in_flight = <<>> /\ done = <<>>
  BY DEF EngineInit
<1>2. IInv /\ SchedInv
  BY <1>1, InitInv, SchedInitInv
<1>3. QueueTypeOK
  BY <1>1 DEF QueueTypeOK
<1> QED BY <1>2, <1>3 DEF EngineInv
-----------------------------------------------------------------------------
(* The theorems *)

\* Every state of the engine satisfies the invariants of the KV-cache manager and
\* of the scheduler, and the batches and results under way are about requests.
THEOREM EngineInvariant ==
    ASSUME \A s : NextToken(s) \in Tokens
    PROVE  EngineSpec => []EngineInv
<1>1. EngineInv /\ [EngineNext]_vars => EngineInv'
  BY EngineStepInv
<1> QED BY <1>1, EngineInitInv, PTL DEF EngineSpec

\* schedule, update_from_output, aborts and resets call the KV-cache manager as
\* KVCacheManager assumes: every step of the engine is one of its steps or leaves
\* it alone. So what is proved there holds of the engine.
THEOREM EngineImplementsKVCacheManager ==
    ASSUME \A s : NextToken(s) \in Tokens
    PROVE  EngineSpec => RefinesKVCacheManager
<1>1. EngineInv /\ [EngineNext]_vars => [LocalNext]_kvmVars
  BY EngineStepInv DEF KvStep
<1>2. EngineInit => Init
  BY DEF EngineInit
<1> QED BY <1>1, <1>2, EngineInvariant, PTL DEF EngineSpec, RefinesKVCacheManager, LocalSpec

\* The queues of the scheduler agree with the statuses, and only running requests
\* hold blocks, through preemption, abort, stop and forced reset.
THEOREM QueuesAlwaysAgree ==
    ASSUME \A s : NextToken(s) \in Tokens
    PROVE  EngineSpec => []QueuesAgreeWithStatus
<1>1. EngineInv => QueuesAgreeWithStatus
  BY QueuesAgree DEF EngineInv
<1> QED BY <1>1, EngineInvariant, PTL

\* First come, first served: running, then waiting requests stay in the order of
\* arrival whatever is preempted and resumed.
THEOREM ArrivalOrderIsAlwaysKept ==
    ASSUME \A s : NextToken(s) \in Tokens
    PROVE  EngineSpec => []ArrivalOrderIsKept
<1>1. EngineInv => ArrivalOrderIsKept
  BY OrderIsKept DEF EngineInv
<1> QED BY <1>1, EngineInvariant, PTL

\* The asserts of schedule() about what a pass has scheduled hold.
THEOREM PassesAreConsistent ==
    ASSUME \A s : NextToken(s) \in Tokens
    PROVE  EngineSpec => []PassIsConsistent
<1>1. EngineInv => PassIsConsistent
  BY PassConsistent DEF EngineInv
<1> QED BY <1>1, EngineInvariant, PTL

\* reset_prefix_cache with reset_running_requests never raises.
THEOREM ForcedResetsSucceed ==
    ASSUME \A s : NextToken(s) \in Tokens
    PROVE  EngineSpec => []ForcedResetSucceeds
<1>1. EngineInv => ForcedResetSucceeds
  BY ResetSucceeds DEF EngineInv
<1> QED BY <1>1, EngineInvariant, PTL
=============================================================================

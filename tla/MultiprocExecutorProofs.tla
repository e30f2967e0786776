----------------------- MODULE MultiprocExecutorProofs -----------------------
(***************************************************************************)
(* Proofs about the remote calls of the multiprocess executor: for every    *)
(* number of workers and calls, futures settle in the order of the calls,   *)
(* and a call that returns holds the replies to itself although a reply     *)
(* does not say which call it answers.                                      *)
(***************************************************************************)
EXTENDS MultiprocExecutor, TLAPS

-----------------------------------------------------------------------------
(* The inductive invariant: types *)

CallRecords == [output_rank : {output_rank, ALL}, timed : BOOLEAN]
MainStates ==
  [pc : {"ready", "enqueue", "create_future", "result", "get_response"},
   kind : {output_rank, ALL}, timed : BOOLEAN, non_block : BOOLEAN,
   target : Nat, current : Nat]
Wrappers == [state : FutureStates, responses : Seq(Calls), mqs : Seq(Ranks)]
Workers == [pc : {"idle", "running", "dead"}, next : Nat]

DataInv ==
  /\ use_async_scheduling \in BOOLEAN
  /\ calls \in Seq(CallRecords) /\ Len(calls) <= MaxCalls
  /\ main \in MainStates
  /\ main.pc = "enqueue" => Len(calls) < MaxCalls
  /\ main.pc = "create_future" =>
       Len(calls) > 0 /\ calls[Len(calls)].output_rank = main.kind
  /\ future \in Seq(Wrappers)
  /\ Len(future) = IF main.pc = "create_future" THEN Len(calls) - 1 ELSE Len(calls)
  /\ futures_queue \in Seq(Nat)
  /\ worker \in [Ranks -> Workers]
  /\ \A w \in Ranks :
       /\ worker[w].next \in 1 .. Len(calls) + 1
       /\ worker[w].pc = "running" => worker[w].next <= Len(calls)
  /\ async_output_queue \in [Ranks -> Seq(Replies)]
  /\ response_mq \in [Ranks -> Seq(Replies)]
  /\ output_thread \in [Ranks -> {"running", "ended"}]
  /\ is_failed \in BOOLEAN /\ shutting_down \in BOOLEAN
  /\ mq_cancelled \in BOOLEAN /\ mqs_dropped \in BOOLEAN
  /\ closer \in [Threads -> {"out", "begin", "terminate", "cancel", "drop",
                             "done", "left"}]
  /\ abandoned \subseteq Ranks

-----------------------------------------------------------------------------
(* The inductive invariant: futures *)

Pending(i) == future[i].state = "pending"

\* The futures queue is sorted; what it holds, and the future being read, are the
\* pending futures, the one being read the oldest; only that one has replies.
FutureInv ==
  /\ main.target \in {0} \cup DOMAIN future
  /\ main.pc \in {"result", "get_response"} => main.target # 0
  /\ IF main.pc = "get_response" THEN main.current \in DOMAIN future ELSE main.current = 0
  /\ \A p \in DOMAIN futures_queue :
       /\ futures_queue[p] \in DOMAIN future
       /\ main.current < futures_queue[p]
       /\ \A q \in DOMAIN futures_queue : p < q => futures_queue[p] < futures_queue[q]
  /\ \A i \in DOMAIN future :
       /\ Pending(i) <=> (i = main.current \/ i \in Range(futures_queue))
       /\ i # main.current /\ Pending(i) => future[i].responses = << >>
       /\ Len(future[i].responses) <= Len(future[i].mqs)
       /\ future[i].state = "result" => Len(future[i].responses) = Len(future[i].mqs)
       /\ \A j \in DOMAIN future :
            i < j /\ Pending(i) => future[j].state \in {"pending", "exception"}

-----------------------------------------------------------------------------
(* The inductive invariant: replies *)

\* The calls worker w replies to.
AskedOf(w) == {c \in DOMAIN calls : calls[c].output_rank \in {ALL, w}}

HasRead(c, w) ==
  \E k \in DOMAIN future[c].responses : future[c].mqs[k] = w

\* Those among them whose caller has still to read the reply.
OwedTo(w) ==
  {c \in AskedOf(w) : c \in DOMAIN future => Pending(c) /\ ~HasRead(c, w)}

Sorted(queue) ==
  \A p, q \in DOMAIN queue : p < q => queue[p].call < queue[q].call

CallsOf(queue) == {queue[p].call : p \in DOMAIN queue}

\* The replies in a worker's response queue answer the oldest owed calls, in order.
\* As long as its output thread runs, those on the way follow them, and together
\* they answer every owed call the worker has executed.
MqOK(sent, coming, thread, pc, next, asked, owed) ==
  /\ Sorted(sent) /\ CallsOf(sent) \subseteq owed
  /\ \A c \in owed, d \in CallsOf(sent) : c < d => c \in CallsOf(sent)
  /\ pc # "dead" =>
       /\ \A d \in CallsOf(sent) : d < next
       /\ \A c \in asked : c >= next => c \in owed
  /\ thread = "running" =>
       /\ Sorted(coming) /\ CallsOf(coming) \subseteq owed
       /\ \A d \in CallsOf(coming) : d < next
       /\ \A c \in CallsOf(sent), d \in CallsOf(coming) : c < d
       /\ \A c \in owed : c < next => c \in CallsOf(sent) \cup CallsOf(coming)

MqInv(w) ==
  MqOK(response_mq[w], async_output_queue[w], output_thread[w], worker[w].pc,
       worker[w].next, AskedOf(w), OwedTo(w))

ThreadInv ==
  \A w \in Ranks :
    /\ worker[w].pc = "dead" => output_thread[w] = "ended"
    /\ ~use_async_scheduling =>
         /\ async_output_queue[w] = << >>
         /\ output_thread[w] = "ended" => worker[w].pc = "dead"

ReplyInv ==
  ~mqs_dropped =>
    /\ \A i \in DOMAIN future :
         /\ future[i].mqs = Asked(i)
         /\ \A k \in DOMAIN future[i].responses :
              future[i].mqs[k] \in abandoned \/ OwnReply(i, k)
    /\ \A w \in Ranks \ abandoned : MqInv(w)

IInv == DataInv /\ FutureInv /\ ThreadInv /\ ReplyInv

-----------------------------------------------------------------------------
(* Queues of replies *)

LEMMA RepliesAnswerCalls == \A x \in Replies : x.call \in Nat
BY ExecutorAssumption DEF Replies, Calls

LEMMA CallsOfNat ==
  ASSUME NEW s \in Seq(Replies)
  PROVE  CallsOf(s) \subseteq Nat
<1>1. \A p \in DOMAIN s : s[p] \in Replies
  OBVIOUS
<1> QED BY <1>1, RepliesAnswerCalls DEF CallsOf

\* A reply to a call after all those in the queue joins it.
LEMMA SortedAppend ==
  ASSUME NEW s \in Seq(Replies), NEW x \in Replies, Sorted(s),
         \A d \in CallsOf(s) : d < x.call
  PROVE  /\ Append(s, x) \in Seq(Replies) /\ Sorted(Append(s, x))
         /\ CallsOf(Append(s, x)) = CallsOf(s) \cup {x.call}
<1> DEFINE t == Append(s, x)
           n == Len(s)
<1>1. /\ n \in Nat /\ t \in Seq(Replies) /\ DOMAIN s = 1 .. n /\ DOMAIN t = 1 .. n + 1
      /\ t[n + 1] = x /\ \A p \in 1 .. n : t[p] = s[p]
  BY SMTT(30)
<1> HIDE DEF t, n
<1>2. \A p \in 1 .. n : s[p].call < x.call
  BY <1>1 DEF CallsOf
<1>3. \A p \in 1 .. n + 1 : p = n + 1 \/ p \in 1 .. n
  BY <1>1
<1>4. Sorted(t)
  <2> SUFFICES ASSUME NEW p \in 1 .. n + 1, NEW q \in 1 .. n + 1, p < q
               PROVE  t[p].call < t[q].call
    BY <1>1 DEF Sorted
  <2>1. p \in 1 .. n
    BY <1>1
  <2>2. CASE q = n + 1
    BY <1>1, <1>2, <2>1, <2>2
  <2>3. CASE q \in 1 .. n
    BY <1>1, <2>1, <2>3 DEF Sorted
  <2> QED BY <1>3, <2>2, <2>3
<1>5. CallsOf(t) = CallsOf(s) \cup {x.call}
  BY <1>1, <1>3 DEF CallsOf
<1> QED BY <1>1, <1>4, <1>5 DEF t

\* The oldest reply leaves the queue.
LEMMA SortedTail ==
  ASSUME NEW s \in Seq(Replies), s # << >>, Sorted(s)
  PROVE  /\ Head(s) \in Replies /\ Tail(s) \in Seq(Replies) /\ Sorted(Tail(s))
         /\ CallsOf(Tail(s)) = CallsOf(s) \ {Head(s).call}
         /\ Head(s).call \in CallsOf(s)
         /\ \A d \in CallsOf(s) : Head(s).call <= d
<1> DEFINE t == Tail(s)
           n == Len(s) - 1
           h == Head(s)
<1>1. /\ n \in Nat /\ t \in Seq(Replies) /\ DOMAIN s = 1 .. n + 1 /\ DOMAIN t = 1 .. n
      /\ h = s[1] /\ h \in Replies /\ \A p \in 1 .. n : t[p] = s[p + 1]
  OBVIOUS
<1>2. \A p \in 1 .. n + 1 : s[p] \in Replies /\ s[p].call \in Nat
  BY <1>1, RepliesAnswerCalls, SMTT(30)
<1> HIDE DEF t, n, h
<1>3. \A p \in 1 .. n + 1 : p = 1 \/ (p - 1 \in 1 .. n /\ p = (p - 1) + 1)
  BY <1>1
<1>4. \A p \in 1 .. n : p + 1 \in 1 .. n + 1 /\ 1 < p + 1
  BY <1>1
<1>5. 1 \in 1 .. n + 1
  BY <1>1
<1>6. \A p \in 1 .. n : h.call < t[p].call /\ t[p].call = s[p + 1].call
  BY <1>1, <1>4, <1>5 DEF Sorted
<1>7. Sorted(t)
  <2> SUFFICES ASSUME NEW p \in 1 .. n, NEW q \in 1 .. n, p < q
               PROVE  t[p].call < t[q].call
    BY <1>1 DEF Sorted
  <2>1. p + 1 < q + 1
    BY <1>1
  <2> QED BY <1>1, <1>4, <2>1, ZenonT(30) DEF Sorted
<1>8. CallsOf(s) = CallsOf(t) \cup {h.call}
  <2>1. ASSUME NEW d \in CallsOf(s) PROVE d \in CallsOf(t) \cup {h.call}
    <3>1. PICK p \in 1 .. n + 1 : d = s[p].call
      BY <1>1, <2>1 DEF CallsOf
    <3>2. CASE p = 1
      BY <1>1, <3>1, <3>2
    <3>3. CASE p - 1 \in 1 .. n /\ p = (p - 1) + 1
      <4>1. t[p - 1] = s[p]
        BY <1>1, <3>3
      <4> QED BY <1>1, <3>1, <3>3, <4>1, ZenonT(30) DEF CallsOf
    <3> QED BY <1>3, <3>2, <3>3
  <2>2. CallsOf(t) \cup {h.call} \subseteq CallsOf(s)
    BY <1>1, <1>4, <1>5, <1>6, SMTT(30) DEF CallsOf
  <2> QED BY <2>1, <2>2
<1>9. \A d \in CallsOf(t) : h.call < d
  BY <1>1, <1>6 DEF CallsOf
<1>10. h.call \in Nat /\ CallsOf(t) \subseteq Nat
  <2>1. \A p \in 1 .. n : t[p].call \in Nat
    BY <1>2, <1>4, <1>6
  <2> QED BY <1>1, <1>2, <1>5, <2>1 DEF CallsOf
<1>11. h.call \notin CallsOf(t)
  BY <1>9, <1>10
<1>12. \A d \in CallsOf(s) : h.call <= d
  BY <1>8, <1>9, <1>10
<1> QED BY <1>1, <1>7, <1>8, <1>11, <1>12 DEF h, t

-----------------------------------------------------------------------------
(* What the steps of a worker and of its reader do to MqOK *)

\* The worker executes a call and replies on its response queue.
LEMMA MqSend ==
  ASSUME NEW sent \in Seq(Replies), NEW next \in Nat, NEW asked \in SUBSET Nat,
         NEW owed \in SUBSET asked, NEW x \in Replies, x.call = next, next \in asked,
         MqOK(sent, << >>, "running", "running", next, asked, owed)
  PROVE  MqOK(Append(sent, x), << >>, "running", "idle", next + 1, asked, owed)
<1> DEFINE t == Append(sent, x)
<1>1. /\ t \in Seq(Replies) /\ Sorted(t) /\ CallsOf(t) = CallsOf(sent) \cup {next}
      /\ CallsOf(sent) \subseteq Nat
  BY SortedAppend, CallsOfNat DEF MqOK
<1> HIDE DEF t
<1>2. CallsOf(<< >>) = {} /\ Sorted(<< >>)
  BY DEF CallsOf, Sorted
<1>3. next \in owed
  BY DEF MqOK
<1> QED BY <1>1, <1>2, <1>3 DEF MqOK, t

\* The worker executes a call and leaves the output to its output thread.
LEMMA MqQueue ==
  ASSUME NEW sent \in Seq(Replies), NEW coming \in Seq(Replies), NEW next \in Nat,
         NEW asked \in SUBSET Nat, NEW owed \in SUBSET asked, NEW x \in Replies,
         x.call = next, next \in asked,
         MqOK(sent, coming, "running", "running", next, asked, owed)
  PROVE  MqOK(sent, Append(coming, x), "running", "idle", next + 1, asked, owed)
<1> DEFINE t == Append(coming, x)
<1>1. /\ t \in Seq(Replies) /\ Sorted(t) /\ CallsOf(t) = CallsOf(coming) \cup {next}
      /\ CallsOf(sent) \subseteq Nat /\ CallsOf(coming) \subseteq Nat
  BY SortedAppend, CallsOfNat DEF MqOK
<1> HIDE DEF t
<1>2. next \in owed
  BY DEF MqOK
<1> QED BY <1>1, <1>2 DEF MqOK, t

\* The worker executes a call that asks for no reply of it.
LEMMA MqSilent ==
  ASSUME NEW sent \in Seq(Replies), NEW coming \in Seq(Replies), NEW next \in Nat,
         NEW asked \in SUBSET Nat, NEW owed \in SUBSET asked, next \notin asked,
         NEW thread, MqOK(sent, coming, thread, "running", next, asked, owed)
  PROVE  MqOK(sent, coming, thread, "idle", next + 1, asked, owed)
<1>1. CallsOf(sent) \subseteq Nat /\ CallsOf(coming) \subseteq Nat
  BY CallsOfNat
<1> QED BY <1>1 DEF MqOK

\* The worker goes on although its output thread has ended.
LEMMA MqUnheard ==
  ASSUME NEW sent \in Seq(Replies), NEW coming, NEW new, NEW next \in Nat,
         NEW asked \in SUBSET Nat, NEW owed \in SUBSET asked, NEW thread,
         thread # "running", MqOK(sent, coming, thread, "running", next, asked, owed)
  PROVE  MqOK(sent, new, thread, "idle", next + 1, asked, owed)
<1>1. CallsOf(sent) \subseteq Nat
  BY CallsOfNat
<1> QED BY <1>1 DEF MqOK

\* The output thread sends the oldest output.
LEMMA MqForward ==
  ASSUME NEW sent \in Seq(Replies), NEW coming \in Seq(Replies), NEW next \in Nat,
         NEW asked \in SUBSET Nat, NEW owed \in SUBSET asked, NEW pc,
         coming # << >>, MqOK(sent, coming, "running", pc, next, asked, owed)
  PROVE  MqOK(Append(sent, Head(coming)), Tail(coming), "running", pc, next, asked, owed)
<1> DEFINE x == Head(coming)
           s == Append(sent, x)
           t == Tail(coming)
<1>1. /\ x \in Replies /\ t \in Seq(Replies) /\ Sorted(t)
      /\ CallsOf(t) = CallsOf(coming) \ {x.call} /\ x.call \in CallsOf(coming)
      /\ \A d \in CallsOf(coming) : x.call <= d
  BY SortedTail DEF MqOK
<1> HIDE DEF x, t
<1>2. s \in Seq(Replies) /\ Sorted(s) /\ CallsOf(s) = CallsOf(sent) \cup {x.call}
  BY <1>1, SortedAppend DEF MqOK
<1>3. CallsOf(sent) \subseteq Nat /\ CallsOf(coming) \subseteq Nat
  BY CallsOfNat
<1> HIDE DEF s
<1>4. /\ x.call \in owed /\ x.call < next
      /\ \A c \in owed : c < x.call => c \in CallsOf(sent)
  BY <1>1, <1>3 DEF MqOK
<1> QED BY <1>1, <1>2, <1>3, <1>4 DEF MqOK, s, t, x

\* The output thread ends, or the process does.
LEMMA MqEnds ==
  ASSUME NEW sent, NEW coming, NEW thread, NEW pc, NEW next, NEW asked, NEW owed,
         MqOK(sent, coming, thread, pc, next, asked, owed), NEW new, NEW first
  PROVE  /\ MqOK(sent, new, "ended", pc, next, asked, owed)
         /\ MqOK(sent, new, "ended", "dead", first, asked, owed)
BY DEF MqOK

\* A new call, after all those executed and all those owed.
LEMMA MqNewCall ==
  ASSUME NEW sent \in Seq(Replies), NEW coming \in Seq(Replies), NEW next \in Nat,
         NEW asked \in SUBSET Nat, NEW owed \in SUBSET asked, NEW n \in Nat, NEW pc,
         NEW thread, NEW new \in SUBSET {n}, next <= n, \A c \in asked : c < n,
         MqOK(sent, coming, thread, pc, next, asked, owed)
  PROVE  MqOK(sent, coming, thread, pc, next, asked \cup new, owed \cup new)
<1>1. CallsOf(sent) \subseteq Nat /\ CallsOf(coming) \subseteq Nat
  BY CallsOfNat
<1> QED BY <1>1 DEF MqOK

\* The caller of the oldest call owed takes the oldest reply: it is the reply to
\* that call.
LEMMA MqRead ==
  ASSUME NEW sent \in Seq(Replies), NEW coming \in Seq(Replies), NEW next \in Nat,
         NEW asked \in SUBSET Nat, NEW owed \in SUBSET asked, NEW pc, NEW thread,
         MqOK(sent, coming, thread, pc, next, asked, owed), sent # << >>,
         NEW j \in owed, \A c \in owed : j <= c
  PROVE  /\ Head(sent).call = j
         /\ MqOK(Tail(sent), coming, thread, pc, next, asked, owed \ {j})
<1> DEFINE x == Head(sent)
           t == Tail(sent)
<1>1. /\ x \in Replies /\ t \in Seq(Replies) /\ Sorted(t)
      /\ CallsOf(t) = CallsOf(sent) \ {x.call} /\ x.call \in CallsOf(sent)
      /\ \A d \in CallsOf(sent) : x.call <= d
  BY SortedTail DEF MqOK
<1>2. CallsOf(sent) \subseteq Nat /\ CallsOf(coming) \subseteq Nat
  BY CallsOfNat
<1> HIDE DEF x, t
<1>3. x.call = j
  BY <1>1, <1>2 DEF MqOK
<1>4. MqOK(t, coming, thread, pc, next, asked, owed \ {j})
  BY <1>1, <1>2, <1>3 DEF MqOK
<1> QED BY <1>3, <1>4 DEF x, t
-----------------------------------------------------------------------------
(* The steps and the types *)

LEMMA RankFacts ==
  /\ world_size \in Nat \ {0} /\ ALL \in Nat /\ ALL \notin Ranks /\ output_rank \in Ranks
  /\ Ranks \subseteq Nat /\ MaxCalls \in Nat
BY ExecutorAssumption DEF Ranks, ALL

LEMMA ReadyIsState == Ready \in MainStates /\ Ready.pc = "ready" /\ Ready.target = 0 /\ Ready.current = 0
BY RankFacts DEF Ready, MainStates

LEMMA InitIInv == Init => IInv
<1> SUFFICES ASSUME Init PROVE IInv
  OBVIOUS
<1>1. DataInv
  <2>1. /\ main \in MainStates /\ main.pc = "ready"
        /\ worker \in [Ranks -> Workers] /\ \A w \in Ranks : worker[w].next = 1 /\ worker[w].pc = "idle"
    BY RankFacts, ReadyIsState DEF Init, Workers
  <2>2. /\ calls \in Seq(CallRecords) /\ Len(calls) = 0 /\ futures_queue \in Seq(Nat)
        /\ future \in Seq(Wrappers) /\ Len(future) = 0
    BY DEF Init
  <2>3. /\ async_output_queue \in [Ranks -> Seq(Replies)]
        /\ response_mq \in [Ranks -> Seq(Replies)]
        /\ output_thread \in [Ranks -> {"running", "ended"}]
    BY DEF Init
  <2>4. /\ use_async_scheduling \in BOOLEAN /\ is_failed \in BOOLEAN
        /\ shutting_down \in BOOLEAN /\ mq_cancelled \in BOOLEAN /\ mqs_dropped \in BOOLEAN
        /\ closer \in [Threads -> {"out", "begin", "terminate", "cancel", "drop",
                                   "done", "left"}]
        /\ abandoned \subseteq Ranks
    BY ZenonT(30) DEF Init
  <2> QED BY <2>1, <2>2, <2>3, <2>4, RankFacts DEF DataInv
<1>2. FutureInv
  BY ReadyIsState DEF Init, FutureInv, Range
<1>3. ThreadInv
  BY DEF Init, ThreadInv
<1>4. ReplyInv
  BY DEF Init, ReplyInv, MqInv, MqOK, Sorted, CallsOf, OwedTo, AskedOf
<1> QED BY <1>1, <1>2, <1>3, <1>4 DEF IInv

\* What the steps of the main thread outside get_response do to the data.
LEMMA DataMain ==
  ASSUME DataInv, FutureInv, collective_rpc \/ ask_result \/ result
  PROVE  DataInv'
<1>1. CASE collective_rpc
  <2>1. /\ UNCHANGED <<rpcVars, futureVars, workerVars, failVars, closeVars>>
        /\ main' \in MainStates /\ main'.pc = "enqueue" /\ main.pc = "ready"
        /\ Len(calls) < MaxCalls
    BY <1>1, ZenonT(30) DEF collective_rpc, DataInv, MainStates
  <2> QED BY <2>1 DEF DataInv, rpcVars, futureVars, workerVars, failVars, closeVars
<1>2. CASE ask_result
  <2>1. /\ UNCHANGED <<rpcVars, futureVars, workerVars, failVars, closeVars>>
        /\ main' \in MainStates /\ main'.pc = "result" /\ main.pc = "ready"
    <3>1. PICK i \in DOMAIN future : main' = [main EXCEPT !.pc = "result", !.target = i]
      BY <1>2, ZenonT(30) DEF ask_result
    <3>2. main \in MainStates /\ i \in Nat
      BY DEF DataInv
    <3>3. main' \in MainStates /\ main'.pc = "result"
      BY <3>1, <3>2, ZenonT(30) DEF MainStates
    <3> QED BY <1>2, <3>3, ZenonT(30) DEF ask_result
  <2> QED BY <2>1 DEF DataInv, rpcVars, futureVars, workerVars, failVars, closeVars
<1>3. CASE result
  <2>1. /\ UNCHANGED <<rpcVars, future, abandoned, workerVars, failVars, closeVars>>
        /\ main.pc = "result"
        /\ \/ main' = Ready /\ futures_queue' = futures_queue
           \/ /\ main' = [main EXCEPT !.pc = "get_response", !.current = Head(futures_queue)]
              /\ futures_queue' = Tail(futures_queue)
              /\ Pending(main.target)
    BY <1>3 DEF result, Take, Pending
  <2>2. CASE main' = Ready /\ futures_queue' = futures_queue
    BY <2>1, <2>2, ReadyIsState
       DEF DataInv, rpcVars, futureVars, workerVars, failVars, closeVars
  <2>3. CASE /\ main' = [main EXCEPT !.pc = "get_response", !.current = Head(futures_queue)]
             /\ futures_queue' = Tail(futures_queue)
             /\ Pending(main.target)
    <3>1. futures_queue \in Seq(Nat) /\ futures_queue # << >>
      BY <2>1, <2>3 DEF FutureInv, DataInv, Range
    <3>2. Head(futures_queue) \in Nat /\ Tail(futures_queue) \in Seq(Nat)
      BY <3>1
    <3>3. main' \in MainStates /\ main'.pc = "get_response"
      BY <2>3, <3>2, ZenonT(30) DEF DataInv, MainStates
    <3> QED BY <2>1, <2>3, <3>2, <3>3
            DEF DataInv, rpcVars, futureVars, workerVars, failVars, closeVars
  <2> QED BY <2>1, <2>2, <2>3
<1> QED BY <1>1, <1>2, <1>3
\* A call joins the broadcast; its future is not there yet.
LEMMA DataBroadcast ==
  ASSUME DataInv, broadcast
  PROVE  /\ DataInv'
         /\ \/ /\ mqs_dropped /\ calls' = calls /\ main' = Ready
            \/ /\ ~mqs_dropped /\ main' = [main EXCEPT !.pc = "create_future"]
               /\ Len(calls') = Len(calls) + 1
               /\ \A i \in 1 .. Len(calls) : calls'[i] = calls[i]
               /\ calls'[Len(calls) + 1].output_rank = main.kind
<1>1. /\ main.pc = "enqueue" /\ main \in MainStates /\ calls \in Seq(CallRecords)
      /\ UNCHANGED <<use_async_scheduling, futureVars, workerVars, failVars, closeVars>>
  BY DEF broadcast, DataInv
<1>2. CASE mqs_dropped
  <2>1. calls' = calls /\ main' = Ready
    BY <1>2 DEF broadcast
  <2> QED BY <1>1, <1>2, <2>1, ReadyIsState
          DEF DataInv, futureVars, workerVars, failVars, closeVars
<1>3. CASE ~mqs_dropped
  <2> DEFINE new == [output_rank |-> main.kind, timed |-> main.timed]
  <2>1. new \in CallRecords /\ new.output_rank = main.kind
    BY <1>1 DEF MainStates, CallRecords
  <2>2. calls' = Append(calls, new) /\ main' = [main EXCEPT !.pc = "create_future"]
    BY <1>3 DEF broadcast
  <2>3. /\ main' \in MainStates /\ main'.pc = "create_future" /\ main'.kind = main.kind
    BY <1>1, <2>2, SMTT(30) DEF MainStates
  <2> HIDE DEF new
  <2>4. /\ calls' \in Seq(CallRecords) /\ Len(calls') = Len(calls) + 1 /\ Len(calls) \in Nat
        /\ \A i \in 1 .. Len(calls) : calls'[i] = calls[i]
        /\ calls'[Len(calls) + 1] = new
    BY <1>1, <2>1, <2>2
  <2>5. /\ Len(future') = Len(calls') - 1 /\ Len(calls') > 0 /\ Len(calls') <= MaxCalls
        /\ calls'[Len(calls')].output_rank = main'.kind
    BY <1>1, <2>1, <2>3, <2>4, RankFacts DEF DataInv, futureVars
  <2>6. \A w \in Ranks : /\ worker'[w].next \in 1 .. Len(calls') + 1
                         /\ worker'[w].pc = "running" => worker'[w].next <= Len(calls')
    BY <1>1, <2>4 DEF DataInv, workerVars, Workers
  <2>7. DataInv'
    BY <1>1, <2>3, <2>4, <2>5, <2>6
       DEF DataInv, futureVars, workerVars, failVars, closeVars
  <2> QED BY <1>3, <2>1, <2>2, <2>4, <2>7
<1> QED BY <1>2, <1>3

\* The future of the call is made.
LEMMA DataCreate ==
  ASSUME DataInv, create_future
  PROVE  /\ DataInv' /\ main'.pc # "create_future"
         /\ Len(future') = Len(future) + 1 /\ Len(future') = Len(calls)
         /\ \A i \in 1 .. Len(future) : future'[i] = future[i]
         /\ LET new == future'[Len(future) + 1] IN
            \/ /\ mqs_dropped /\ new.state = "exception" /\ new.responses = << >>
               /\ new.mqs = << >> /\ futures_queue' = futures_queue /\ main' = Ready
            \/ /\ new.state = "pending" /\ new.responses = << >>
               /\ ~mqs_dropped => new.mqs = Response_mqs(calls[Len(calls)].output_rank)
               /\ futures_queue' = Append(futures_queue, Len(calls))
               /\ \/ main' = Ready
                  \/ main' = [Ready EXCEPT !.pc = "result", !.target = Len(calls)]
<1> DEFINE raises == mqs_dropped /\ main.kind # ALL
           mqs == IF raises THEN << >> ELSE Response_mqs(main.kind)
           state == IF raises THEN "exception" ELSE "pending"
           new == [state |-> state, responses |-> << >>, mqs |-> mqs]
<1>1. /\ main.pc = "create_future" /\ main \in MainStates /\ calls \in Seq(CallRecords)
      /\ future \in Seq(Wrappers) /\ Len(future) = Len(calls) - 1 /\ Len(calls) > 0
      /\ calls[Len(calls)].output_rank = main.kind /\ futures_queue \in Seq(Nat)
      /\ UNCHANGED <<rpcVars, abandoned, workerVars, failVars, closeVars>>
  BY DEF create_future, DataInv
<1>2. mqs \in Seq(Ranks)
  <2>1. main.kind # ALL => main.kind \in Ranks
    BY <1>1, RankFacts DEF MainStates
  <2>2. [k \in 1 .. world_size |-> k - 1] \in Seq(Ranks)
    BY RankFacts DEF Ranks
  <2>3. << >> \in Seq(Ranks)
    OBVIOUS
  <2>4. main.kind \in Ranks => <<main.kind>> \in Seq(Ranks)
    OBVIOUS
  <2> QED BY <2>1, <2>2, <2>3, <2>4, ZenonT(30) DEF Response_mqs
<1> HIDE DEF mqs
<1>3. new \in Wrappers /\ new.state = state /\ new.responses = << >> /\ new.mqs = mqs
  <2>1. << >> \in Seq(Calls)
    OBVIOUS
  <2> QED BY <1>2, <2>1 DEF Wrappers, FutureStates
<1>4. future' = Append(future, new)
  <2>1. future' = Append(future, [[state |-> "pending", responses |-> << >>, mqs |-> mqs]
                                    EXCEPT !.state = IF raises THEN "exception" ELSE @])
    BY DEF create_future, mqs
  <2>2. [[state |-> "pending", responses |-> << >>, mqs |-> mqs]
           EXCEPT !.state = IF raises THEN "exception" ELSE @] = new
    OBVIOUS
  <2> QED BY <2>1, <2>2
<1> HIDE DEF new
<1>5. /\ future' \in Seq(Wrappers) /\ Len(future') = Len(future) + 1 /\ Len(future') = Len(calls)
      /\ \A i \in 1 .. Len(future) : future'[i] = future[i]
      /\ future'[Len(future) + 1] = new
  BY <1>1, <1>3, <1>4
<1>6. Len(calls) \in Nat
  BY <1>1
<1>7. CASE raises
  <2>1. futures_queue' = futures_queue /\ main' = Ready
    BY <1>7 DEF create_future
  <2>2. DataInv'
    BY <1>1, <1>5, <2>1, ReadyIsState DEF DataInv, rpcVars, workerVars, failVars, closeVars
  <2> QED BY <1>3, <1>5, <1>7, <2>1, <2>2, ReadyIsState DEF mqs
<1>8. CASE ~raises
  <2>1. /\ futures_queue' = Append(futures_queue, Len(calls))
        /\ \/ main' = Ready
           \/ main' = [Ready EXCEPT !.pc = "result", !.target = Len(calls)]
    BY <1>8 DEF create_future
  <2>2. main' \in MainStates /\ main'.pc # "create_future" /\ main'.pc # "enqueue"
    BY <1>6, <2>1, ReadyIsState, ZenonT(30) DEF MainStates
  <2>3. futures_queue' \in Seq(Nat)
    BY <1>1, <1>6, <2>1
  <2>4. DataInv'
    BY <1>1, <1>5, <2>2, <2>3 DEF DataInv, rpcVars, workerVars, failVars, closeVars
  <2>5. ~mqs_dropped => mqs = Response_mqs(calls[Len(calls)].output_rank)
    BY <1>1 DEF mqs
  <2> QED BY <1>3, <1>5, <1>8, <2>1, <2>2, <2>4, <2>5
<1> QED BY <1>7, <1>8
\* The future that is read.
LEMMA ReadingFacts ==
  ASSUME DataInv, FutureInv, main.pc = "get_response"
  PROVE  /\ main \in MainStates /\ main.current \in DOMAIN future /\ main.current \in Nat
         /\ future \in Seq(Wrappers) /\ Reading \in Wrappers /\ Pending(main.current)
         /\ Len(Reading.responses) \in Nat /\ Len(Reading.mqs) \in Nat
         /\ Len(Reading.responses) < Len(Reading.mqs) =>
              Len(Reading.responses) + 1 \in DOMAIN Reading.mqs /\ NextMq \in Ranks
         /\ DOMAIN future = 1 .. Len(calls) /\ main.current \in Calls
<1>1. /\ main \in MainStates /\ main.current \in DOMAIN future /\ future \in Seq(Wrappers)
      /\ Len(future) = Len(calls) /\ Len(calls) \in Nat /\ Len(calls) <= MaxCalls
      /\ Pending(main.current)
  BY DEF DataInv, FutureInv
<1>2. Reading \in Wrappers
  BY <1>1 DEF Reading
<1>3. Reading.responses \in Seq(Calls) /\ Reading.mqs \in Seq(Ranks)
  BY <1>2 DEF Wrappers
<1>4. DOMAIN future = 1 .. Len(calls) /\ main.current \in Nat /\ main.current \in Calls
  BY <1>1, RankFacts DEF Calls
<1> QED BY <1>1, <1>2, <1>3, <1>4 DEF NextMq

\* Settling the future that is read.
LEMMA ResolveFacts ==
  ASSUME DataInv, FutureInv, main.pc = "get_response", NEW state \in FutureStates,
         Resolve(state)
  PROVE  /\ main' \in MainStates /\ main'.pc = "result" /\ main'.current = 0
         /\ main'.target = main.target
         /\ future' \in Seq(Wrappers) /\ Len(future') = Len(future)
         /\ future'[main.current].state = state
         /\ \A i \in DOMAIN future :
              /\ i # main.current => future'[i] = future[i]
              /\ future'[i].mqs = future[i].mqs /\ future'[i].responses = future[i].responses
<1> DEFINE j == main.current
<1>1. /\ main \in MainStates /\ j \in DOMAIN future /\ future \in Seq(Wrappers)
      /\ future[j] \in Wrappers
  BY ReadingFacts DEF Reading
<1>2. main' \in MainStates /\ main'.pc = "result" /\ main'.current = 0
      /\ main'.target = main.target
  BY <1>1, ZenonT(30) DEF Resolve, MainStates
<1> HIDE DEF j
<1> DEFINE f == [future[j] EXCEPT !.state = state]
<1>3. future' = [future EXCEPT ![j] = f]
  BY DEF Resolve, j
<1>4. /\ f \in Wrappers /\ f.state = state
      /\ f.mqs = future[j].mqs /\ f.responses = future[j].responses
  BY <1>1, ZenonT(30) DEF Wrappers
<1> HIDE DEF f
<1>5. /\ future' \in Seq(Wrappers) /\ Len(future') = Len(future) /\ future'[j].state = state
      /\ \A i \in DOMAIN future :
           /\ i # j => future'[i] = future[i]
           /\ future'[i].mqs = future[i].mqs /\ future'[i].responses = future[i].responses
  BY <1>1, <1>3, <1>4
<1> QED BY <1>2, <1>5 DEF j

LEMMA DataDone ==
  ASSUME DataInv, FutureInv, get_response_done
  PROVE  DataInv'
<1>1. /\ main.pc = "get_response" /\ Resolve("result")
      /\ UNCHANGED <<rpcVars, futures_queue, abandoned, workerVars, failVars, closeVars>>
  BY DEF get_response_done
<1>2. /\ main' \in MainStates /\ main'.pc = "result"
      /\ future' \in Seq(Wrappers) /\ Len(future') = Len(future)
  BY <1>1, ResolveFacts DEF FutureStates
<1> QED BY <1>1, <1>2 DEF DataInv, rpcVars, workerVars, failVars, closeVars

\* A reply is read, and what it does to the future.
LEMMA ReplyFacts ==
  ASSUME DataInv, FutureInv, get_response_reply
  PROVE  LET x == Head(response_mq[NextMq])
             j == main.current
             n == Len(Reading.responses)
         IN
         /\ main.pc = "get_response" /\ n < Len(Reading.mqs)
         /\ response_mq[NextMq] # << >> /\ x \in Replies
         /\ UNCHANGED <<rpcVars, futures_queue, worker, async_output_queue,
                        output_thread, failVars, closeVars>>
         /\ response_mq' = [response_mq EXCEPT ![NextMq] = Tail(@)]
         /\ \/ /\ x.ok /\ UNCHANGED <<main, abandoned>>
               /\ future' \in Seq(Wrappers) /\ Len(future') = Len(future)
               /\ \A i \in DOMAIN future :
                    /\ i # j => future'[i] = future[i]
                    /\ future'[i].mqs = future[i].mqs /\ future'[i].state = future[i].state
               /\ future'[j].responses = Append(future[j].responses, x.call)
            \/ Resolve("exception") /\ abandoned' = abandoned \cup Unread(2)
<1> DEFINE x == Head(response_mq[NextMq])
           j == main.current
<1>1. /\ main.pc = "get_response" /\ Len(Reading.responses) < Len(Reading.mqs)
      /\ response_mq[NextMq] # << >>
      /\ UNCHANGED <<rpcVars, futures_queue, worker, async_output_queue,
                     output_thread, failVars, closeVars>>
      /\ response_mq' = [response_mq EXCEPT ![NextMq] = Tail(@)]
  BY DEF get_response_reply
<1>2. /\ NextMq \in Ranks /\ j \in DOMAIN future /\ future \in Seq(Wrappers)
      /\ future[j] \in Wrappers
  BY <1>1, ReadingFacts DEF Reading
<1>3. x \in Replies
  <2>1. response_mq[NextMq] \in Seq(Replies)
    BY <1>2, SMTT(30) DEF DataInv
  <2> QED BY <1>1, <2>1
<1>4. CASE x.ok
  <2>1. /\ UNCHANGED <<main, abandoned>>
        /\ future' = [future EXCEPT ![j] = [future[j] EXCEPT !.responses = Append(@, x.call)]]
    BY <1>4 DEF get_response_reply
  <2>2. x.call \in Calls
    BY <1>3 DEF Replies
  <2> HIDE DEF x, j
  <2> DEFINE r == Append(future[j].responses, x.call)
             f == [future[j] EXCEPT !.responses = r]
  <2>3. r \in Seq(Calls)
    <3>1. future[j].responses \in Seq(Calls)
      BY <1>2 DEF Wrappers
    <3> QED BY <2>2, <3>1
  <2>4. future' = [future EXCEPT ![j] = f]
    BY <2>1
  <2> HIDE DEF r
  <2>5. f \in Wrappers /\ f.mqs = future[j].mqs /\ f.state = future[j].state /\ f.responses = r
    BY <1>2, <2>3, ZenonT(30) DEF Wrappers
  <2> HIDE DEF f
  <2>6. /\ future' \in Seq(Wrappers) /\ Len(future') = Len(future)
        /\ \A i \in DOMAIN future :
             /\ i # j => future'[i] = future[i]
             /\ future'[i].mqs = future[i].mqs /\ future'[i].state = future[i].state
        /\ future'[j].responses = Append(future[j].responses, x.call)
    BY <1>2, <2>4, <2>5 DEF r
  <2> QED BY <1>1, <1>3, <1>4, <2>1, <2>6 DEF x, j
<1>5. CASE ~x.ok
  BY <1>1, <1>3, <1>5 DEF get_response_reply
<1> QED BY <1>4, <1>5
LEMMA DataReply ==
  ASSUME DataInv, FutureInv, get_response_reply
  PROVE  DataInv'
<1>1. /\ main.pc = "get_response"
      /\ UNCHANGED <<rpcVars, futures_queue, worker, async_output_queue,
                     output_thread, failVars, closeVars>>
      /\ response_mq' = [response_mq EXCEPT ![NextMq] = Tail(@)]
      /\ Len(Reading.responses) < Len(Reading.mqs) /\ response_mq[NextMq] # << >>
  BY ReplyFacts
<1>2. NextMq \in Ranks /\ main \in MainStates
  BY <1>1, ReadingFacts
<1>3. response_mq' \in [Ranks -> Seq(Replies)]
  <2>1. response_mq \in [Ranks -> Seq(Replies)] /\ response_mq[NextMq] \in Seq(Replies)
    BY <1>2 DEF DataInv
  <2>2. Tail(response_mq[NextMq]) \in Seq(Replies)
    BY <1>1, <2>1
  <2> QED BY <1>1, <1>2, <2>1, <2>2
<1>4. /\ main' \in MainStates /\ main'.pc \in {"result", "get_response"}
      /\ future' \in Seq(Wrappers) /\ Len(future') = Len(future)
      /\ abandoned' \subseteq Ranks
  <2>1. CASE Resolve("exception") /\ abandoned' = abandoned \cup Unread(2)
    <3>1. Reading.mqs \in Seq(Ranks) /\ Len(Reading.responses) \in Nat
      BY <1>1, ReadingFacts DEF Wrappers
    <3>2. Unread(2) \subseteq Ranks
      BY <3>1 DEF Unread
    <3>3. abandoned' \subseteq Ranks
      BY <2>1, <3>2 DEF DataInv
    <3> QED BY <1>1, <2>1, <3>3, ResolveFacts DEF FutureStates
  <2>2. CASE /\ UNCHANGED <<main, abandoned>>
             /\ future' \in Seq(Wrappers) /\ Len(future') = Len(future)
    BY <1>1, <1>2, <2>2 DEF DataInv
  <2> QED BY <2>1, <2>2, ReplyFacts
<1> QED BY <1>1, <1>3, <1>4 DEF DataInv, rpcVars, failVars, closeVars

LEMMA DataRaises ==
  ASSUME DataInv, FutureInv, get_response_raises
  PROVE  DataInv'
<1>1. /\ main.pc = "get_response" /\ Resolve("exception")
      /\ abandoned' = abandoned \cup Unread(1)
      /\ UNCHANGED <<rpcVars, futures_queue, workerVars, failVars, closeVars>>
  BY DEF get_response_raises
<1>2. /\ main' \in MainStates /\ main'.pc = "result"
      /\ future' \in Seq(Wrappers) /\ Len(future') = Len(future)
  BY <1>1, ResolveFacts DEF FutureStates
<1>3. Reading.mqs \in Seq(Ranks) /\ Len(Reading.responses) \in Nat
  BY <1>1, ReadingFacts DEF Wrappers
<1>4. Unread(1) \subseteq Ranks
  BY <1>3 DEF Unread
<1>5. abandoned' \subseteq Ranks
  BY <1>1, <1>4 DEF DataInv
<1> QED BY <1>1, <1>2, <1>5 DEF DataInv, rpcVars, workerVars, failVars, closeVars

\* A worker takes a call, or executes the one it has taken.
LEMMA DataDequeue ==
  ASSUME DataInv, NEW w \in Ranks, worker_dequeue(w)
  PROVE  DataInv' /\ worker'[w].next = worker[w].next /\ worker[w].pc # "dead"
         /\ worker'[w].pc # "dead" /\ \A v \in Ranks : v # w => worker'[v] = worker[v]
<1>1. /\ worker[w].pc = "idle" /\ worker[w].next <= Len(calls)
      /\ worker' = [worker EXCEPT ![w] = [worker[w] EXCEPT !.pc = "running"]]
      /\ UNCHANGED <<rpcVars, main, futureVars, async_output_queue, output_thread,
                     response_mq, failVars, closeVars>>
  BY DEF worker_dequeue
<1>2. worker \in [Ranks -> Workers] /\ worker[w] \in Workers
  BY DEF DataInv
<1> DEFINE x == [worker[w] EXCEPT !.pc = "running"]
<1>3. x \in Workers /\ x.pc = "running" /\ x.next = worker[w].next
  BY <1>2 DEF Workers
<1> HIDE DEF x
<1>4. /\ worker' \in [Ranks -> Workers] /\ worker'[w] = x
      /\ \A v \in Ranks : v # w => worker'[v] = worker[v]
  BY <1>1, <1>2, <1>3 DEF x
<1>5. \A v \in Ranks : /\ worker'[v].next \in 1 .. Len(calls) + 1
                       /\ worker'[v].pc = "running" => worker'[v].next <= Len(calls)
  BY <1>1, <1>3, <1>4 DEF DataInv
<1>6. DataInv'
  BY <1>1, <1>4, <1>5, SMTT(30) DEF DataInv, rpcVars, futureVars, failVars, closeVars
<1> QED BY <1>1, <1>3, <1>4, <1>6

LEMMA ExecuteFacts ==
  ASSUME DataInv, NEW w \in Ranks, worker_execute(w)
  PROVE  LET m == worker[w].next IN
         /\ worker[w].pc = "running" /\ m \in 1 .. Len(calls) /\ m \in Calls
         /\ worker'[w] = [pc |-> "idle", next |-> m + 1]
         /\ \A v \in Ranks : v # w => worker'[v] = worker[v]
         /\ UNCHANGED <<rpcVars, main, futureVars, output_thread, failVars, closeVars>>
         /\ worker' \in [Ranks -> Workers]
         /\ \/ m \notin AskedOf(w) /\ UNCHANGED <<async_output_queue, response_mq>>
            \/ /\ m \in AskedOf(w)
               /\ \E x \in Replies :
                    /\ x.call = m
                    /\ IF use_async_scheduling
                       THEN /\ async_output_queue' =
                                 [async_output_queue EXCEPT ![w] = Append(@, x)]
                            /\ response_mq' = response_mq
                       ELSE /\ response_mq' = [response_mq EXCEPT ![w] = Append(@, x)]
                            /\ async_output_queue' = async_output_queue
<1> DEFINE m == worker[w].next
           wanted == calls[worker[w].next].output_rank \in {ALL, w}
<1>1. /\ worker[w].pc = "running" /\ Execute(w, wanted)
  BY DEF worker_execute
<1>2. /\ worker \in [Ranks -> Workers] /\ worker[w] \in Workers /\ calls \in Seq(CallRecords)
      /\ m \in 1 .. Len(calls) /\ Len(calls) <= MaxCalls
      /\ async_output_queue \in [Ranks -> Seq(Replies)]
      /\ response_mq \in [Ranks -> Seq(Replies)]
  BY <1>1 DEF DataInv
<1>3. m \in Calls /\ (m \in AskedOf(w) <=> wanted)
  BY <1>2, RankFacts, SMTT(30) DEF Calls, AskedOf
<1>4. /\ worker' = [worker EXCEPT ![w] = [pc |-> "idle", next |-> m + 1]]
      /\ UNCHANGED <<rpcVars, main, futureVars, output_thread, failVars, closeVars>>
  BY <1>1 DEF Execute
<1>5. [pc |-> "idle", next |-> m + 1] \in Workers
  BY <1>2 DEF Workers
<1>6. /\ worker'[w] = [pc |-> "idle", next |-> m + 1] /\ worker' \in [Ranks -> Workers]
      /\ \A v \in Ranks : v # w => worker'[v] = worker[v]
  <2> DEFINE x == [pc |-> "idle", next |-> m + 1]
  <2>1. worker' = [worker EXCEPT ![w] = x] /\ x \in Workers
    BY <1>4, <1>5
  <2> HIDE DEF x
  <2>2. /\ worker'[w] = x /\ worker' \in [Ranks -> Workers]
        /\ \A v \in Ranks : v # w => worker'[v] = worker[v]
    BY <1>2, <2>1, SMTT(30)
  <2> QED BY <2>2 DEF x
<1>7. PICK ok \in BOOLEAN :
        LET reply == IF wanted THEN <<[call |-> m, ok |-> ok]>> ELSE << >> IN
        IF use_async_scheduling
        THEN /\ async_output_queue' = [async_output_queue EXCEPT ![w] = @ \o reply]
             /\ UNCHANGED response_mq
        ELSE /\ response_mq' = [response_mq EXCEPT ![w] = @ \o reply]
             /\ UNCHANGED async_output_queue
  BY <1>1, ZenonT(30) DEF Execute
<1>8. \A s \in Seq(Replies) : s \o << >> = s
  OBVIOUS
<1>9. \A s \in Seq(Replies), x \in Replies : s \o <<x>> = Append(s, x)
  BY SMTT(30)
<1>10. CASE ~wanted
  <2>1. UNCHANGED <<async_output_queue, response_mq>>
    BY <1>2, <1>7, <1>8, <1>10
  <2> QED BY <1>1, <1>2, <1>3, <1>4, <1>6, <1>10, <2>1
<1>11. CASE wanted
  <2> DEFINE x == [call |-> m, ok |-> ok]
  <2>1. x \in Replies /\ x.call = m
    BY <1>3, <1>7 DEF Replies
  <2>2. IF use_async_scheduling
        THEN /\ async_output_queue' = [async_output_queue EXCEPT ![w] = @ \o <<x>>]
             /\ UNCHANGED response_mq
        ELSE /\ response_mq' = [response_mq EXCEPT ![w] = @ \o <<x>>]
             /\ UNCHANGED async_output_queue
    BY <1>7, <1>11
  <2> HIDE DEF x
  <2>3. /\ async_output_queue[w] \o <<x>> = Append(async_output_queue[w], x)
        /\ response_mq[w] \o <<x>> = Append(response_mq[w], x)
    BY <1>2, <1>9, <2>1
  <2> QED BY <1>1, <1>2, <1>3, <1>4, <1>6, <1>11, <2>1, <2>2, <2>3, ZenonT(30)
<1> QED BY <1>10, <1>11
LEMMA DataExecute ==
  ASSUME DataInv, NEW w \in Ranks, worker_execute(w)
  PROVE  DataInv'
<1> DEFINE m == worker[w].next
<1>1. /\ m \in 1 .. Len(calls) /\ worker' \in [Ranks -> Workers]
      /\ worker'[w] = [pc |-> "idle", next |-> m + 1]
      /\ \A v \in Ranks : v # w => worker'[v] = worker[v]
      /\ UNCHANGED <<rpcVars, main, futureVars, output_thread, failVars, closeVars>>
  BY ExecuteFacts
<1>2. \A v \in Ranks : /\ worker'[v].next \in 1 .. Len(calls) + 1
                       /\ worker'[v].pc = "running" => worker'[v].next <= Len(calls)
  <2>1. /\ Len(calls) \in Nat
        /\ \A v \in Ranks : /\ worker[v].next \in 1 .. Len(calls) + 1
                            /\ worker[v].pc = "running" => worker[v].next <= Len(calls)
    BY SMTT(30) DEF DataInv
  <2>2. worker'[w].pc = "idle" /\ worker'[w].next \in 1 .. Len(calls) + 1
    BY <1>1, <2>1
  <2>3. \A v \in Ranks : v # w => worker'[v] = worker[v]
    BY <1>1, SMTT(30)
  <2> QED BY <2>1, <2>2, <2>3
<1>3. /\ async_output_queue' \in [Ranks -> Seq(Replies)]
      /\ response_mq' \in [Ranks -> Seq(Replies)]
  <2>1. /\ async_output_queue \in [Ranks -> Seq(Replies)]
        /\ response_mq \in [Ranks -> Seq(Replies)]
    BY DEF DataInv
  <2>2. CASE UNCHANGED <<async_output_queue, response_mq>>
    BY <2>1, <2>2
  <2>3. CASE \E x \in Replies :
               \/ /\ async_output_queue' = [async_output_queue EXCEPT ![w] = Append(@, x)]
                  /\ response_mq' = response_mq
               \/ /\ response_mq' = [response_mq EXCEPT ![w] = Append(@, x)]
                  /\ async_output_queue' = async_output_queue
    <3>1. PICK x \in Replies :
            \/ /\ async_output_queue' = [async_output_queue EXCEPT ![w] = Append(@, x)]
               /\ response_mq' = response_mq
            \/ /\ response_mq' = [response_mq EXCEPT ![w] = Append(@, x)]
               /\ async_output_queue' = async_output_queue
      BY <2>3
    <3>2. /\ Append(async_output_queue[w], x) \in Seq(Replies)
          /\ Append(response_mq[w], x) \in Seq(Replies)
      BY <2>1
    <3> QED BY <2>1, <3>1, <3>2, ZenonT(30)
  <2> QED BY <2>2, <2>3, ExecuteFacts, ZenonT(30)
<1> QED BY <1>1, <1>2, <1>3, SMTT(30) DEF DataInv, rpcVars, futureVars, failVars, closeVars

LEMMA DataOutput ==
  ASSUME DataInv, NEW w \in Ranks, async_output_busy_loop(w)
  PROVE  DataInv'
<1>1. /\ async_output_queue \in [Ranks -> Seq(Replies)] /\ async_output_queue[w] # << >>
      /\ response_mq \in [Ranks -> Seq(Replies)]
      /\ UNCHANGED <<rpcVars, main, futureVars, worker, failVars, closeVars>>
  BY DEF async_output_busy_loop, DataInv
<1>2. /\ Tail(async_output_queue[w]) \in Seq(Replies) /\ Head(async_output_queue[w]) \in Replies
  BY <1>1
<1>3. async_output_queue' \in [Ranks -> Seq(Replies)]
  BY <1>1, <1>2 DEF async_output_busy_loop
<1>4. /\ response_mq' \in [Ranks -> Seq(Replies)]
      /\ output_thread' \in [Ranks -> {"running", "ended"}]
  <2>1. CASE /\ response_mq' = [response_mq EXCEPT ![w] = Append(@, Head(async_output_queue[w]))]
             /\ UNCHANGED output_thread
    BY <1>1, <1>2, <2>1 DEF DataInv
  <2>2. CASE /\ output_thread' = [output_thread EXCEPT ![w] = "ended"]
             /\ UNCHANGED response_mq
    BY <1>1, <2>2 DEF DataInv
  <2> QED BY <2>1, <2>2 DEF async_output_busy_loop
<1> QED BY <1>1, <1>3, <1>4 DEF DataInv, rpcVars, futureVars, failVars, closeVars

\* Processes end.
LEMMA EndFacts ==
  ASSUME DataInv, NEW ranks \in SUBSET Ranks, End(ranks)
  PROVE  /\ worker' \in [Ranks -> Workers]
         /\ async_output_queue' \in [Ranks -> Seq(Replies)]
         /\ output_thread' \in [Ranks -> {"running", "ended"}]
         /\ response_mq' = response_mq
         /\ \A w \in ranks : /\ worker'[w].pc = "dead" /\ worker'[w].next = 1
                             /\ async_output_queue'[w] = << >> /\ output_thread'[w] = "ended"
         /\ \A w \in Ranks \ ranks : /\ worker'[w] = worker[w]
                                     /\ async_output_queue'[w] = async_output_queue[w]
                                     /\ output_thread'[w] = output_thread[w]
<1> DEFINE dead == [pc |-> "dead", next |-> 1]
<1>1. dead \in Workers /\ dead.pc = "dead" /\ dead.next = 1
  BY DEF Workers
<1>2. worker' = [w \in Ranks |-> IF w \in ranks THEN dead ELSE worker[w]]
  BY DEF End
<1> HIDE DEF dead
<1>3. /\ worker' \in [Ranks -> Workers]
      /\ \A w \in ranks : worker'[w].pc = "dead" /\ worker'[w].next = 1
      /\ \A w \in Ranks \ ranks : worker'[w] = worker[w]
  BY <1>1, <1>2 DEF DataInv
<1>4. << >> \in Seq(Replies)
  OBVIOUS
<1>5. /\ async_output_queue' \in [Ranks -> Seq(Replies)]
      /\ \A w \in ranks : async_output_queue'[w] = << >>
      /\ \A w \in Ranks \ ranks : async_output_queue'[w] = async_output_queue[w]
  BY <1>4 DEF DataInv, End
<1>6. /\ output_thread' \in [Ranks -> {"running", "ended"}]
      /\ \A w \in ranks : output_thread'[w] = "ended"
      /\ \A w \in Ranks \ ranks : output_thread'[w] = output_thread[w]
  BY DEF DataInv, End
<1> QED BY <1>3, <1>5, <1>6 DEF End

LEMMA DataEnd ==
  ASSUME DataInv, NEW ranks \in SUBSET Ranks, End(ranks),
         UNCHANGED <<rpcVars, main, futureVars, failVars>>,
         shutting_down' \in BOOLEAN, mq_cancelled' \in BOOLEAN, mqs_dropped' \in BOOLEAN,
         closer' \in [Threads -> {"out", "begin", "terminate", "cancel", "drop", "done", "left"}]
  PROVE  DataInv'
<1>1. /\ Len(calls) \in Nat
      /\ \A w \in Ranks : /\ worker[w].next \in 1 .. Len(calls) + 1
                          /\ worker[w].pc = "running" => worker[w].next <= Len(calls)
  BY DEF DataInv
<1>2. \A w \in Ranks : /\ worker'[w].next \in 1 .. Len(calls) + 1
                       /\ worker'[w].pc = "running" => worker'[w].next <= Len(calls)
  <2>1. /\ \A w \in ranks : worker'[w].pc = "dead" /\ worker'[w].next = 1
        /\ \A w \in Ranks \ ranks : worker'[w] = worker[w]
    BY EndFacts
  <2> QED BY <1>1, <2>1, SMTT(30)
<1>3. /\ worker' \in [Ranks -> Workers]
      /\ async_output_queue' \in [Ranks -> Seq(Replies)]
      /\ output_thread' \in [Ranks -> {"running", "ended"}]
      /\ response_mq' = response_mq
  BY EndFacts
<1> QED BY <1>2, <1>3, SMTT(30) DEF DataInv, rpcVars, futureVars, failVars
\* The steps of shutdown, of the monitor and of the callback leave the calls and
\* the futures alone, and only the termination of the workers touches the queues.
Quiet ==
  UNCHANGED <<rpcVars, main, futureVars, workerVars>>

LEMMA DataQuiet ==
  ASSUME DataInv, Quiet, is_failed' \in BOOLEAN,
         shutting_down' \in BOOLEAN, mq_cancelled' \in BOOLEAN, mqs_dropped' \in BOOLEAN,
         closer' \in [Threads -> {"out", "begin", "terminate", "cancel", "drop", "done", "left"}]
  PROVE  DataInv'
BY DEF Quiet, DataInv, rpcVars, futureVars, workerVars

LEMMA CloserStep ==
  ASSUME DataInv, NEW t \in Threads,
         NEW pc \in {"out", "begin", "terminate", "cancel", "drop", "done", "left"}, At(t, pc)
  PROVE  closer' \in [Threads -> {"out", "begin", "terminate", "cancel", "drop", "done", "left"}]
BY DEF DataInv, At

LEMMA QuietSteps ==
  ASSUME DataInv,
         \/ \E t \in Threads : shutdown_begin(t) \/ shutdown_cancel(t) \/ shutdown_drop(t)
         \/ engine_stops \/ monitor_workers \/ invoke_failure_callback
         \/ register_failure_callback
  PROVE  DataInv' /\ Quiet /\ (mqs_dropped => mqs_dropped')
<1> DEFINE Places == {"out", "begin", "terminate", "cancel", "drop", "done", "left"}
<1>0. /\ is_failed \in BOOLEAN /\ shutting_down \in BOOLEAN
      /\ mq_cancelled \in BOOLEAN /\ mqs_dropped \in BOOLEAN
      /\ closer \in [Threads -> Places] /\ {"main", "monitor"} \subseteq Threads
  BY DEF DataInv, Threads
<1>1. ASSUME NEW t \in Threads, shutdown_begin(t)
      PROVE  DataInv' /\ Quiet /\ (mqs_dropped => mqs_dropped')
  <2>1. /\ Quiet /\ UNCHANGED failVars /\ UNCHANGED <<mq_cancelled, mqs_dropped>>
        /\ shutting_down' = TRUE
        /\ At(t, IF shutting_down THEN "drop" ELSE "terminate")
    BY <1>1 DEF shutdown_begin, Quiet
  <2>2. closer' \in [Threads -> Places]
    BY <2>1, CloserStep
  <2> HIDE DEF Places
  <2> QED BY <1>0, <2>1, <2>2, DataQuiet DEF failVars, Places
<1>2. ASSUME NEW t \in Threads, shutdown_cancel(t)
      PROVE  DataInv' /\ Quiet /\ (mqs_dropped => mqs_dropped')
  <2>1. /\ Quiet /\ UNCHANGED failVars /\ UNCHANGED <<shutting_down, mqs_dropped>>
        /\ mq_cancelled' = TRUE /\ At(t, "drop")
    BY <1>2 DEF shutdown_cancel, Quiet
  <2>2. closer' \in [Threads -> Places]
    BY <2>1, CloserStep
  <2> QED BY <1>0, <2>1, <2>2, DataQuiet DEF failVars
<1>3. ASSUME NEW t \in Threads, shutdown_drop(t)
      PROVE  DataInv' /\ Quiet /\ (mqs_dropped => mqs_dropped')
  <2>1. /\ Quiet /\ UNCHANGED failVars /\ UNCHANGED shutting_down
        /\ mq_cancelled' = TRUE /\ mqs_dropped' = TRUE /\ At(t, "done")
    BY <1>3 DEF shutdown_drop, Quiet
  <2>2. closer' \in [Threads -> Places]
    BY <2>1, CloserStep
  <2> QED BY <1>0, <2>1, <2>2, DataQuiet DEF failVars
<1>4. CASE engine_stops
  <2>1. /\ Quiet /\ UNCHANGED failVars /\ UNCHANGED <<shutting_down, mq_cancelled, mqs_dropped>>
        /\ At("main", "begin")
    BY <1>4 DEF engine_stops, Quiet
  <2>2. closer' \in [Threads -> Places]
    BY <1>0, <2>1, CloserStep
  <2> QED BY <1>0, <2>1, <2>2, DataQuiet DEF failVars
<1>5. CASE monitor_workers
  <2>1. /\ Quiet /\ UNCHANGED <<shutting_down, mq_cancelled, mqs_dropped>>
        /\ is_failed' = is_failed \/ is_failed' = TRUE
        /\ At("monitor", "left") \/ At("monitor", "begin")
    BY <1>5 DEF monitor_workers, Fail, Quiet
  <2>2. closer' \in [Threads -> Places]
    BY <1>0, <2>1, CloserStep
  <2> QED BY <1>0, <2>1, <2>2, DataQuiet, ZenonT(30)
<1>6. CASE invoke_failure_callback
  <2>1. /\ Quiet /\ UNCHANGED <<is_failed, shutting_down, mq_cancelled, mqs_dropped>>
        /\ At("monitor", "left")
    BY <1>6 DEF invoke_failure_callback, Invoke, Quiet
  <2>2. closer' \in [Threads -> Places]
    BY <1>0, <2>1, CloserStep
  <2> QED BY <1>0, <2>1, <2>2, DataQuiet
<1>7. CASE register_failure_callback
  <2>1. Quiet /\ UNCHANGED <<is_failed, shutting_down, closer, mq_cancelled, mqs_dropped>>
    BY <1>7 DEF register_failure_callback, Quiet, closeVars
  <2> QED BY <1>0, <2>1, DataQuiet
<1> QED BY <1>1, <1>2, <1>3, <1>4, <1>5, <1>6, <1>7

\* The steps that end processes.
Ending(ranks) ==
  /\ End(ranks) /\ UNCHANGED <<rpcVars, main, futureVars, mqs_dropped>>

LEMMA EndingSteps ==
  ASSUME DataInv,
         \/ \E t \in Threads : shutdown_terminate(t)
         \/ \E w \in Ranks : worker_dies(w)
  PROVE  DataInv' /\ \E ranks \in SUBSET Ranks : Ending(ranks)
<1> DEFINE Places == {"out", "begin", "terminate", "cancel", "drop", "done", "left"}
<1>0. /\ shutting_down \in BOOLEAN /\ mq_cancelled \in BOOLEAN /\ mqs_dropped \in BOOLEAN
      /\ closer \in [Threads -> Places]
  BY DEF DataInv
<1>1. ASSUME NEW t \in Threads, shutdown_terminate(t)
      PROVE  DataInv' /\ \E ranks \in SUBSET Ranks : Ending(ranks)
  <2>1. /\ End(Ranks) /\ UNCHANGED <<rpcVars, main, futureVars, failVars>>
        /\ UNCHANGED <<shutting_down, mq_cancelled, mqs_dropped>> /\ At(t, "cancel")
    BY <1>1 DEF shutdown_terminate
  <2>2. closer' \in [Threads -> Places]
    BY <2>1, CloserStep
  <2>3. DataInv'
    BY <1>0, <2>1, <2>2, DataEnd
  <2>4. Ending(Ranks)
    BY <2>1 DEF Ending
  <2> QED BY <2>3, <2>4
<1>2. ASSUME NEW w \in Ranks, worker_dies(w)
      PROVE  DataInv' /\ \E ranks \in SUBSET Ranks : Ending(ranks)
  <2>1. /\ End({w}) /\ UNCHANGED <<rpcVars, main, futureVars, failVars>>
        /\ UNCHANGED <<shutting_down, closer, mq_cancelled, mqs_dropped>>
    BY <1>2 DEF worker_dies, closeVars
  <2>2. DataInv'
    BY <1>0, <2>1, DataEnd
  <2>3. Ending({w})
    BY <2>1 DEF Ending
  <2> QED BY <2>2, <2>3
<1> QED BY <1>1, <1>2
-----------------------------------------------------------------------------
(* The steps and the futures *)

LEMMA FutureQuiet ==
  ASSUME FutureInv, UNCHANGED <<main, futureVars>>
  PROVE  FutureInv'
BY DEF FutureInv, futureVars, Pending

\* The main thread outside result: only its place, and the future it asks for, change.
LEMMA FutureCalling ==
  ASSUME DataInv, FutureInv, collective_rpc \/ broadcast \/ ask_result
  PROVE  FutureInv'
<1>1. /\ UNCHANGED futureVars /\ main.current = 0 /\ main'.current = 0
      /\ main'.pc # "get_response" /\ main'.target \in {0} \cup DOMAIN future
      /\ main'.pc = "result" => main'.target # 0
  <2>0. main \in MainStates /\ Len(future) \in Nat /\ DOMAIN future = 1 .. Len(future)
    BY SMTT(30) DEF DataInv
  <2>1. CASE collective_rpc
    <3>1. PICK kind \in {output_rank, ALL}, timed \in BOOLEAN, non_block \in BOOLEAN :
            main' = [main EXCEPT !.pc = "enqueue", !.kind = kind, !.timed = timed,
                                 !.non_block = non_block]
      BY <2>1, ZenonT(30) DEF collective_rpc
    <3>2. main'.pc = "enqueue" /\ main'.current = main.current /\ main'.target = main.target
      BY <2>0, <3>1, SMTT(30) DEF MainStates
    <3>3. main.pc = "ready" /\ UNCHANGED futureVars
      BY <2>1, ZenonT(30) DEF collective_rpc
    <3>4. main.current = 0 /\ main.target \in {0} \cup DOMAIN future
      BY <3>3 DEF FutureInv
    <3> QED BY <3>2, <3>3, <3>4, ZenonT(30)
  <2>2. CASE broadcast
    <3>1. main' = Ready \/ main' = [main EXCEPT !.pc = "create_future"]
      BY <2>2, DataBroadcast
    <3>2. \/ main'.pc = "ready" /\ main'.current = 0 /\ main'.target = 0
          \/ /\ main'.pc = "create_future" /\ main'.current = main.current
             /\ main'.target = main.target
      BY <2>0, <3>1, ReadyIsState DEF MainStates
    <3>3. main.pc = "enqueue" /\ UNCHANGED futureVars
      BY <2>2 DEF broadcast
    <3>4. main.current = 0 /\ main.target \in {0} \cup DOMAIN future
      BY <3>3 DEF FutureInv
    <3> QED BY <3>2, <3>3, <3>4
  <2>3. CASE ask_result
    <3>1. PICK i \in DOMAIN future : main' = [main EXCEPT !.pc = "result", !.target = i]
      BY <2>3, ZenonT(30) DEF ask_result
    <3>2. main'.pc = "result" /\ main'.current = main.current /\ main'.target = i
      BY <2>0, <3>1, SMTT(30) DEF MainStates
    <3>3. main.pc = "ready" /\ UNCHANGED futureVars
      BY <2>3, ZenonT(30) DEF ask_result
    <3>4. main.current = 0 /\ i # 0
      BY <2>0, <3>3 DEF FutureInv
    <3> QED BY <3>2, <3>3, <3>4, ZenonT(30)
  <2> QED BY <2>1, <2>2, <2>3
<1>2. UNCHANGED <<futures_queue, future>>
  BY <1>1 DEF futureVars
<1> QED BY <1>1, <1>2 DEF FutureInv, Pending

LEMMA QueueAppend ==
  ASSUME NEW s \in Seq(Nat), NEW n \in Nat, \A p \in DOMAIN s : s[p] < n,
         \A p, q \in DOMAIN s : p < q => s[p] < s[q]
  PROVE  LET t == Append(s, n) IN
         /\ Range(t) = Range(s) \cup {n}
         /\ \A p, q \in DOMAIN t : p < q => t[p] < t[q]
<1> DEFINE t == Append(s, n)
<1>1. /\ DOMAIN s = 1 .. Len(s) /\ DOMAIN t = 1 .. Len(s) + 1 /\ Len(s) \in Nat
      /\ \A p \in 1 .. Len(s) : t[p] = s[p]
      /\ t[Len(s) + 1] = n
  OBVIOUS
<1> HIDE DEF t
<1>2. Range(t) = Range(s) \cup {n}
  <2>1. \A p \in DOMAIN t : p \in 1 .. Len(s) \/ p = Len(s) + 1
    BY <1>1
  <2>2. Range(t) \subseteq Range(s) \cup {n}
    BY <1>1, <2>1 DEF Range
  <2>3. 1 .. Len(s) \subseteq DOMAIN t /\ Len(s) + 1 \in DOMAIN t
    BY <1>1
  <2>4. Range(s) \cup {n} \subseteq Range(t)
    BY <1>1, <2>3 DEF Range
  <2> QED BY <2>2, <2>4
<1>3. ASSUME NEW p \in DOMAIN t, NEW q \in DOMAIN t, p < q
      PROVE  t[p] < t[q]
  BY <1>1, <1>3, SMTT(30)
<1> QED BY <1>2, <1>3 DEF t

LEMMA QueueTail ==
  ASSUME NEW s \in Seq(Nat), s # << >>, \A p, q \in DOMAIN s : p < q => s[p] < s[q]
  PROVE  /\ Head(s) \in Nat /\ Range(s) = Range(Tail(s)) \cup {Head(s)}
         /\ \A p \in DOMAIN Tail(s) : Head(s) < Tail(s)[p]
         /\ \A p, q \in DOMAIN Tail(s) : p < q => Tail(s)[p] < Tail(s)[q]
<1> DEFINE t == Tail(s)
           h == Head(s)
           n == Len(s) - 1
<1>1. /\ n \in Nat /\ DOMAIN s = 1 .. n + 1 /\ DOMAIN t = 1 .. n
      /\ \A p \in 1 .. n : t[p] = s[p + 1]
      /\ h = s[1] /\ h \in Nat
  OBVIOUS
<1> HIDE DEF t, h, n
<1>2. \A p \in 1 .. n : p + 1 \in 1 .. n + 1 /\ 1 < p + 1
  BY <1>1
<1>3. \A p \in 1 .. n + 1 : p = 1 \/ (p - 1 \in 1 .. n /\ p = (p - 1) + 1)
  BY <1>1
<1>4. Range(s) \subseteq Range(t) \cup {h}
  <2> SUFFICES ASSUME NEW p \in 1 .. n + 1 PROVE s[p] \in Range(t) \cup {h}
    BY <1>1 DEF Range
  <2>1. CASE p = 1
    BY <1>1, <2>1
  <2>2. CASE p - 1 \in 1 .. n /\ p = (p - 1) + 1
    <3>1. t[p - 1] = s[p]
      BY <1>1, <2>2
    <3> QED BY <1>1, <2>2, <3>1, ZenonT(30) DEF Range
  <2> QED BY <1>3, <2>1, <2>2
<1>5. 1 \in DOMAIN s
  BY <1>1
<1>6. Range(t) \cup {h} \subseteq Range(s)
  BY <1>1, <1>2, <1>5, ZenonT(30) DEF Range
<1>7. \A p \in 1 .. n : h < t[p]
  BY <1>1, <1>2, <1>5, ZenonT(30)
<1>8. ASSUME NEW p \in 1 .. n, NEW q \in 1 .. n, p < q
      PROVE  t[p] < t[q]
  <2>1. p + 1 < q + 1 /\ p + 1 \in DOMAIN s /\ q + 1 \in DOMAIN s
    BY <1>1, <1>8, SMTT(30)
  <2> QED BY <1>1, <2>1, ZenonT(30)
<1> QED BY <1>1, <1>4, <1>6, <1>7, <1>8, SMTT(30) DEF t, h

\* The new future is the youngest of the queue.
LEMMA FutureCreate ==
  ASSUME DataInv, FutureInv, create_future
  PROVE  FutureInv'
<1> DEFINE n == Len(calls)
           new == future'[n]
<1>1. /\ main.pc = "create_future" /\ futures_queue \in Seq(Nat) /\ future \in Seq(Wrappers)
      /\ n = Len(future) + 1 /\ n \in Nat /\ DOMAIN future = 1 .. n - 1 /\ n \notin DOMAIN future
      /\ main.current = 0 /\ n # 0
  BY DataCreate DEF create_future, DataInv, FutureInv
<1>2. /\ DOMAIN future' = 1 .. n /\ \A i \in 1 .. n - 1 : future'[i] = future[i]
      /\ new.responses = << >>
      /\ \/ /\ new.state = "exception" /\ futures_queue' = futures_queue /\ main' = Ready
         \/ /\ new.state = "pending" /\ futures_queue' = Append(futures_queue, n)
            /\ \/ main' = Ready
               \/ main' = [Ready EXCEPT !.pc = "result", !.target = n]
  <2>1. future' \in Seq(Wrappers) /\ Len(future') = n
    BY <1>1, DataCreate DEF DataInv
  <2>2. DOMAIN future' = 1 .. n
    BY <2>1
  <2>3. LET late == future'[Len(future) + 1] IN
        \/ /\ late.state = "exception" /\ late.responses = << >>
           /\ futures_queue' = futures_queue /\ main' = Ready
        \/ /\ late.state = "pending" /\ late.responses = << >>
           /\ futures_queue' = Append(futures_queue, n)
           /\ \/ main' = Ready
              \/ main' = [Ready EXCEPT !.pc = "result", !.target = n]
    BY DataCreate
  <2>4. \A i \in 1 .. n - 1 : future'[i] = future[i]
    BY <1>1, DataCreate
  <2> HIDE DEF n
  <2> QED BY <1>1, <2>2, <2>3, <2>4
<1> HIDE DEF new, n
<1>3. /\ \A i \in 1 .. n : i \in 1 .. n - 1 \/ i = n
      /\ 1 .. n - 1 \subseteq 1 .. n /\ n \in 1 .. n
      /\ \A i \in 1 .. n - 1 : i < n
  BY <1>1
<1>4. /\ main'.current = 0 /\ main'.pc # "get_response"
      /\ main'.target \in {0} \cup DOMAIN future'
      /\ main'.pc = "result" => main'.target # 0
  <2>1. n \in DOMAIN future' /\ n # 0
    BY <1>1, <1>2, <1>3
  <2>2. CASE main' = Ready
    BY <2>2, ReadyIsState
  <2>3. CASE main' = [Ready EXCEPT !.pc = "result", !.target = n]
    BY <2>1, <2>3, ReadyIsState DEF MainStates
  <2> QED BY <1>2, <2>2, <2>3
<1>5. /\ \A p \in DOMAIN futures_queue : futures_queue[p] < n /\ futures_queue[p] \in Nat
      /\ \A p, q \in DOMAIN futures_queue : p < q => futures_queue[p] < futures_queue[q]
      /\ n \notin Range(futures_queue) /\ Range(futures_queue) \subseteq 1 .. n - 1
  <2>1. \A p \in DOMAIN futures_queue : futures_queue[p] \in 1 .. n - 1
    BY <1>1 DEF FutureInv
  <2>2. \A p, q \in DOMAIN futures_queue : p < q => futures_queue[p] < futures_queue[q]
    BY DEF FutureInv
  <2> QED BY <1>1, <1>3, <2>1, <2>2 DEF Range
<1>6. /\ Range(futures_queue') = IF new.state = "pending" THEN Range(futures_queue) \cup {n}
                                 ELSE Range(futures_queue)
      /\ \A p, q \in DOMAIN futures_queue' : p < q => futures_queue'[p] < futures_queue'[q]
  BY <1>1, <1>2, <1>5, QueueAppend, ZenonT(30)
<1>7. \A p \in DOMAIN futures_queue' :
        futures_queue'[p] \in DOMAIN future' /\ main'.current < futures_queue'[p]
  <2>1. Range(futures_queue') \subseteq 1 .. n
    BY <1>3, <1>5, <1>6
  <2>2. \A p \in DOMAIN futures_queue' : futures_queue'[p] \in 1 .. n
    BY <2>1 DEF Range
  <2> QED BY <1>1, <1>2, <1>4, <2>2
<1>8. ASSUME NEW i \in DOMAIN future'
      PROVE  /\ (Pending(i) <=> (i = main.current \/ i \in Range(futures_queue)))'
             /\ (i # main.current /\ Pending(i) => future[i].responses = << >>)'
             /\ (Len(future[i].responses) <= Len(future[i].mqs))'
             /\ (future[i].state = "result" => Len(future[i].responses) = Len(future[i].mqs))'
  <2>1. CASE i \in 1 .. n - 1
    <3>1. i \in DOMAIN future /\ future'[i] = future[i] /\ i # n /\ i # 0
      BY <1>1, <1>2, <2>1
    <3>2. i \in Range(futures_queue') <=> i \in Range(futures_queue)
      BY <1>6, <3>1
    <3> QED BY <1>1, <1>4, <3>1, <3>2 DEF FutureInv, Pending
  <2>2. CASE i = n
    <3>1. i \in Range(futures_queue') <=> new.state = "pending"
      BY <1>5, <1>6, <2>2
    <3>2. new.mqs \in Seq(Ranks) /\ Len(<< >>) = 0 /\ new.state \in {"pending", "exception"}
      <4>1. new \in Wrappers
        BY <1>2, <1>3, DataCreate DEF new, DataInv
      <4> QED BY <1>2, <4>1 DEF Wrappers
    <3>3. Len(new.mqs) >= 0 /\ Len(new.responses) = 0
      BY <1>2, <3>2
    <3> QED BY <1>1, <1>2, <1>4, <2>2, <3>1, <3>2, <3>3 DEF Pending, new
  <2> QED BY <1>2, <1>3, <2>1, <2>2
<1>9. ASSUME NEW i \in DOMAIN future', NEW j \in DOMAIN future', i < j, Pending(i)'
      PROVE  future'[j].state \in {"pending", "exception"}
  <2>1. CASE j = n
    BY <1>2, <2>1 DEF new
  <2>2. CASE j \in 1 .. n - 1
    <3>1. i \in 1 .. n - 1
      BY <1>1, <1>2, <1>9, <2>2
    <3> QED BY <1>1, <1>2, <1>9, <2>2, <3>1 DEF FutureInv, Pending
  <2> QED BY <1>2, <1>3, <2>1, <2>2
<1> QED BY <1>4, <1>6, <1>7, <1>8, <1>9 DEF FutureInv

\* result takes the oldest future of the queue.
LEMMA FutureResult ==
  ASSUME DataInv, FutureInv, result
  PROVE  FutureInv'
<1>1. /\ main.pc = "result" /\ UNCHANGED future /\ main \in MainStates
      /\ main.current = 0 /\ main.target \in DOMAIN future
      /\ futures_queue \in Seq(Nat) /\ \A i \in DOMAIN future : i # 0
  BY DEF result, Take, DataInv, FutureInv
<1>2. CASE ~Pending(main.target)
  <2>1. main' = Ready /\ futures_queue' = futures_queue
    BY <1>2 DEF result, Take, Pending
  <2>2. main'.pc = "ready" /\ main'.current = 0 /\ main'.target = 0
    BY <2>1, ReadyIsState
  <2> QED BY <1>1, <2>1, <2>2 DEF FutureInv, Pending
<1>3. CASE Pending(main.target)
  <2> DEFINE h == Head(futures_queue)
             t == Tail(futures_queue)
  <2>1. main' = [main EXCEPT !.pc = "get_response", !.current = h] /\ futures_queue' = t
    BY <1>3, SMTT(30) DEF result, Take, Pending
  <2>2. main.target \in Range(futures_queue)
    BY <1>1, <1>3 DEF FutureInv
  <2>3. futures_queue # << >> /\ h \in Range(futures_queue)
    BY <1>1, <2>2 DEF Range
  <2>4. \A p, q \in DOMAIN futures_queue : p < q => futures_queue[p] < futures_queue[q]
    BY DEF FutureInv
  <2>5. /\ h \in Nat /\ Range(futures_queue) = Range(t) \cup {h}
        /\ \A p \in DOMAIN t : h < t[p]
        /\ \A p, q \in DOMAIN t : p < q => t[p] < t[q]
    BY <1>1, <2>3, <2>4, QueueTail, SMTT(30)
  <2>6. Range(futures_queue) \subseteq DOMAIN future
    BY DEF FutureInv, Range
  <2>7. /\ main'.pc = "get_response" /\ main'.current = h /\ main'.target = main.target
    BY <1>1, <2>1 DEF MainStates
  <2> HIDE DEF h, t
  <2>8. \A p \in DOMAIN t : t[p] \in DOMAIN future
    BY <2>5, <2>6, SMTT(30) DEF Range
  <2>9. \A i \in DOMAIN future :
          /\ Pending(i) <=> (i = h \/ i \in Range(t))
          /\ Pending(i) => future[i].responses = << >>
          /\ Len(future[i].responses) <= Len(future[i].mqs)
          /\ future[i].state = "result" => Len(future[i].responses) = Len(future[i].mqs)
          /\ \A j \in DOMAIN future :
               i < j /\ Pending(i) => future[j].state \in {"pending", "exception"}
    BY <1>1, <2>5 DEF FutureInv
  <2>10. main.target # 0 /\ h \in DOMAIN future
    BY <1>1, <2>5, <2>6, SMTT(30)
  <2> QED BY <1>1, <2>1, <2>5, <2>7, <2>8, <2>9, <2>10 DEF FutureInv, Pending
<1> QED BY <1>2, <1>3

\* get_response settles the oldest pending future, so no pending one is before it.
LEMMA FutureResolve ==
  ASSUME DataInv, FutureInv, main.pc = "get_response", UNCHANGED futures_queue,
         NEW state \in {"result", "exception"}, Resolve(state),
         state = "result" => Len(Reading.responses) = Len(Reading.mqs)
  PROVE  FutureInv'
<1> DEFINE k == main.current
<1>1. /\ k \in DOMAIN future /\ k # 0 /\ DOMAIN future \subseteq Nat
      /\ main'.pc = "result" /\ main'.current = 0 /\ main'.target = main.target
      /\ future'[k].state = state /\ DOMAIN future' = DOMAIN future
      /\ \A i \in DOMAIN future :
              /\ i # k => future'[i] = future[i]
              /\ future'[i].mqs = future[i].mqs /\ future'[i].responses = future[i].responses
  <2>1. /\ k \in DOMAIN future /\ k # 0 /\ DOMAIN future \subseteq Nat /\ state \in FutureStates
        /\ future \in Seq(Wrappers)
    BY ReadingFacts DEF FutureStates
  <2>2. future' \in Seq(Wrappers) /\ Len(future') = Len(future)
    BY <2>1, ResolveFacts, SMTT(30)
  <2> QED BY <2>1, <2>2, ResolveFacts
<1>2. /\ main.target # 0 /\ main.target \in DOMAIN future
      /\ \A p \in DOMAIN futures_queue :
           /\ futures_queue[p] \in DOMAIN future /\ k < futures_queue[p]
           /\ \A q \in DOMAIN futures_queue : p < q => futures_queue[p] < futures_queue[q]
      /\ \A i \in DOMAIN future :
           /\ Pending(i) <=> (i = k \/ i \in Range(futures_queue))
           /\ i # k /\ Pending(i) => future[i].responses = << >>
           /\ Len(future[i].responses) <= Len(future[i].mqs)
           /\ future[i].state = "result" => Len(future[i].responses) = Len(future[i].mqs)
           /\ \A j \in DOMAIN future :
                i < j /\ Pending(i) => future[j].state \in {"pending", "exception"}
  BY DEF FutureInv
<1>3. state = "result" => Len(future[k].responses) = Len(future[k].mqs)
  BY SMTT(30) DEF Reading
<1> HIDE DEF k
<1>4. k \notin Range(futures_queue)
  BY <1>1, <1>2, SMTT(30) DEF Range
<1>5. \A i \in DOMAIN future :
        /\ Pending(i)' <=> (i # k /\ Pending(i))
        /\ Pending(i)' <=> i \in Range(futures_queue)
        /\ Pending(i)' => i > k
  <2>1. \A i \in DOMAIN future : Pending(i)' <=> (i # k /\ Pending(i))
    BY <1>1 DEF Pending
  <2>2. \A i \in Range(futures_queue) : i > k
    BY <1>1, <1>2, SMTT(30) DEF Range
  <2> QED BY <1>2, <1>4, <2>1, <2>2
<1>6. ASSUME NEW i \in DOMAIN future
      PROVE  /\ Pending(i)' => future'[i].responses = << >>
             /\ Len(future'[i].responses) <= Len(future'[i].mqs)
             /\ future'[i].state = "result" => Len(future'[i].responses) = Len(future'[i].mqs)
  BY <1>1, <1>2, <1>3, <1>5, SMTT(30)
<1>7. ASSUME NEW i \in DOMAIN future, NEW j \in DOMAIN future, i < j, Pending(i)'
      PROVE  future'[j].state \in {"pending", "exception"}
  <2>1. j # k /\ Pending(i)
    BY <1>1, <1>5, <1>7, SMTT(30)
  <2> QED BY <1>1, <1>2, <1>7, <2>1, SMTT(30)
<1>8. \A p \in DOMAIN futures_queue : main'.current < futures_queue[p]
  BY <1>1, <1>2, SMTT(30)
<1>9. \A i \in DOMAIN future : i # main'.current
  BY <1>1, <1>2, <1>5 DEF DataInv
<1> QED BY <1>1, <1>2, <1>5, <1>6, <1>7, <1>8, <1>9, SMTT(30) DEF FutureInv

LEMMA FutureReading ==
  ASSUME DataInv, FutureInv, get_response_done \/ get_response_reply \/ get_response_raises
  PROVE  FutureInv'
<1>1. CASE get_response_done
  BY <1>1, FutureResolve DEF get_response_done
<1>2. CASE get_response_raises
  BY <1>2, FutureResolve DEF get_response_raises
<1>3. CASE get_response_reply
  <2> DEFINE k == main.current
             x == Head(response_mq[NextMq])
  <2>1. /\ main.pc = "get_response" /\ UNCHANGED futures_queue
        /\ Len(Reading.responses) < Len(Reading.mqs)
    BY <1>3, ReplyFacts
  <2>2. CASE Resolve("exception")
    BY <2>1, <2>2, FutureResolve, SMTT(30)
  <2>3. CASE ~Resolve("exception")
    <3>1. /\ UNCHANGED <<main, abandoned>> /\ future' \in Seq(Wrappers)
          /\ Len(future') = Len(future)
          /\ \A i \in DOMAIN future :
               /\ i # k => future'[i] = future[i]
               /\ future'[i].mqs = future[i].mqs /\ future'[i].state = future[i].state
          /\ future'[k].responses = Append(future[k].responses, x.call)
      BY <1>3, <2>3, ReplyFacts
    <3>2. /\ future \in Seq(Wrappers) /\ k \in DOMAIN future /\ future[k].responses \in Seq(Calls)
          /\ Pending(k) /\ future[k].mqs \in Seq(Ranks)
      BY <2>1, ReadingFacts DEF Reading, Wrappers
    <3>3. DOMAIN future' = DOMAIN future
      BY <3>1, <3>2
    <3>4. Len(future'[k].responses) <= Len(future'[k].mqs)
      <4>1. Len(future'[k].responses) = Len(future[k].responses) + 1
        BY <3>1, <3>2
      <4>2. Len(future[k].responses) < Len(future[k].mqs)
        BY <2>1 DEF Reading
      <4> QED BY <3>1, <3>2, <4>1, <4>2
    <3> HIDE DEF x
    <3>5. \A i \in DOMAIN future : Pending(i)' <=> Pending(i)
      BY <3>1 DEF Pending
    <3>6. ASSUME NEW i \in DOMAIN future
          PROVE  /\ i # k /\ Pending(i)' => future'[i].responses = << >>
                 /\ Len(future'[i].responses) <= Len(future'[i].mqs)
                 /\ future'[i].state = "result" =>
                      Len(future'[i].responses) = Len(future'[i].mqs)
      <4>1. CASE i = k
        BY <3>1, <3>2, <3>4, <4>1, SMTT(30) DEF Pending
      <4>2. CASE i # k
        BY <3>1, <3>5, <4>2, SMTT(30) DEF FutureInv
      <4> QED BY <4>1, <4>2
    <3>7. \A i, j \in DOMAIN future :
            i < j /\ Pending(i)' => future'[j].state \in {"pending", "exception"}
      BY <3>1, <3>5, SMTT(30) DEF FutureInv
    <3> QED BY <2>1, <3>1, <3>3, <3>5, <3>6, <3>7, SMTT(30) DEF FutureInv
  <2> QED BY <2>2, <2>3, SMTT(30)
<1> QED BY <1>1, <1>2, <1>3

-----------------------------------------------------------------------------
(* The steps and the output threads *)

LEMMA ThreadQuiet ==
  ASSUME ThreadInv, UNCHANGED <<use_async_scheduling, worker, async_output_queue, output_thread>>
  PROVE  ThreadInv'
BY DEF ThreadInv

LEMMA ThreadSteps ==
  ASSUME DataInv, ThreadInv, NEW w \in Ranks,
         worker_dequeue(w) \/ worker_execute(w) \/ async_output_busy_loop(w)
  PROVE  ThreadInv'
<1>1. CASE worker_dequeue(w)
  <2>1. /\ worker'[w].pc # "dead" /\ worker[w].pc # "dead"
        /\ \A v \in Ranks : v # w => worker'[v] = worker[v]
    BY <1>1, DataDequeue
  <2>2. UNCHANGED <<use_async_scheduling, async_output_queue, output_thread>>
    BY <1>1, SMTT(30) DEF worker_dequeue, rpcVars
  <2> QED BY <2>1, <2>2, SMTT(30) DEF ThreadInv
<1>2. CASE worker_execute(w)
  <2>1. /\ worker[w].pc # "dead" /\ worker'[w] = [pc |-> "idle", next |-> worker[w].next + 1]
        /\ \A v \in Ranks : v # w => worker'[v] = worker[v]
        /\ UNCHANGED <<rpcVars, output_thread>>
        /\ ~use_async_scheduling => async_output_queue' = async_output_queue
    BY <1>2, ExecuteFacts, SMTT(30)
  <2>2. worker'[w].pc # "dead"
    BY <2>1
  <2>3. UNCHANGED <<use_async_scheduling, output_thread>>
    BY <2>1, SMTT(30) DEF rpcVars
  <2> QED BY <2>1, <2>2, <2>3, SMTT(30) DEF ThreadInv
<1>3. CASE async_output_busy_loop(w)
  <2>1. /\ async_output_queue[w] # << >>
        /\ UNCHANGED <<use_async_scheduling, worker>>
        /\ \/ output_thread' = output_thread
           \/ output_thread' = [output_thread EXCEPT ![w] = "ended"]
    BY <1>3, SMTT(30) DEF async_output_busy_loop, rpcVars
  <2>2. use_async_scheduling
    BY <2>1, SMTT(30) DEF ThreadInv
  <2>3. output_thread \in [Ranks -> {"running", "ended"}]
    BY SMTT(30) DEF DataInv
  <2> QED BY <2>1, <2>2, <2>3 DEF ThreadInv
<1> QED BY <1>1, <1>2, <1>3, SMTT(30)

LEMMA ThreadEnding ==
  ASSUME DataInv, ThreadInv, NEW ranks \in SUBSET Ranks, Ending(ranks)
  PROVE  ThreadInv'
<1>1. End(ranks) /\ UNCHANGED use_async_scheduling
  BY SMTT(30) DEF Ending, rpcVars
<1>2. /\ \A w \in ranks : /\ worker'[w].pc = "dead"
                          /\ async_output_queue'[w] = << >> /\ output_thread'[w] = "ended"
      /\ \A w \in Ranks \ ranks : /\ worker'[w] = worker[w]
                                  /\ async_output_queue'[w] = async_output_queue[w]
                                  /\ output_thread'[w] = output_thread[w]
  BY <1>1, EndFacts
<1> QED BY <1>1, <1>2 DEF ThreadInv

-----------------------------------------------------------------------------
(* The steps and the replies *)

\* A call asks each worker for at most one reply.
LEMMA AskedFacts ==
  ASSUME DataInv, NEW i \in DOMAIN calls
  PROVE  /\ Asked(i) \in Seq(Ranks)
         /\ \A a, b \in DOMAIN Asked(i) : Asked(i)[a] = Asked(i)[b] => a = b
         /\ \A w \in Ranks : i \in AskedOf(w) <=> \E a \in DOMAIN Asked(i) : Asked(i)[a] = w
<1> DEFINE r == calls[i].output_rank
           all == [k \in 1 .. world_size |-> k - 1]
<1>1. r \in {output_rank, ALL}
  <2>1. calls[i] \in CallRecords
    BY DEF DataInv
  <2> QED BY <2>1 DEF CallRecords
<1>2. /\ all \in Seq(Ranks) /\ DOMAIN all = 1 .. world_size
      /\ \A a, b \in DOMAIN all : all[a] = all[b] => a = b
      /\ \A w \in Ranks : w + 1 \in DOMAIN all /\ all[w + 1] = w
  BY RankFacts DEF Ranks
<1>3. /\ <<output_rank>> \in Seq(Ranks) /\ DOMAIN <<output_rank>> = {1}
      /\ <<output_rank>>[1] = output_rank
  BY RankFacts
<1>4. \A w \in Ranks : i \in AskedOf(w) <=> r = ALL \/ r = w
  BY DEF AskedOf
<1> HIDE DEF all
<1>5. CASE r = ALL
  <2>1. Asked(i) = all
    BY <1>5 DEF Asked, all
  <2> QED BY <1>2, <1>4, <1>5, <2>1
<1>6. CASE r = output_rank
  <2>1. Asked(i) = <<output_rank>> /\ r # ALL
    BY <1>6, RankFacts DEF Asked
  <2>2. \A a \in DOMAIN Asked(i) : a = 1
    BY <1>3, <2>1, SMTT(30)
  <2> QED BY <1>3, <1>4, <1>6, <2>1, <2>2
<1> QED BY <1>1, <1>5, <1>6

LEMMA MqFacts ==
  ASSUME DataInv, NEW w \in Ranks
  PROVE  /\ response_mq[w] \in Seq(Replies) /\ async_output_queue[w] \in Seq(Replies)
         /\ worker[w].next \in Nat /\ AskedOf(w) \in SUBSET Nat
         /\ OwedTo(w) \in SUBSET AskedOf(w)
BY SMTT(30) DEF DataInv, AskedOf, OwedTo

\* Steps that leave the calls, the futures and the queues alone.
LEMMA ReplyQuiet ==
  ASSUME ReplyInv, UNCHANGED <<calls, future, abandoned, workerVars>>, mqs_dropped => mqs_dropped'
  PROVE  ReplyInv'
<1>1. UNCHANGED <<worker, async_output_queue, output_thread, response_mq>>
  BY DEF workerVars
<1>2. /\ \A i : Asked(i)' = Asked(i)
      /\ \A i, k : OwnReply(i, k)' <=> OwnReply(i, k)
      /\ \A w : AskedOf(w)' = AskedOf(w) /\ OwedTo(w)' = OwedTo(w)
  BY SMTT(30) DEF Asked, OwnReply, AskedOf, OwedTo, Pending, HasRead
<1>3. \A w \in Ranks : MqInv(w)' <=> MqInv(w)
  BY <1>1, <1>2, SMTT(30) DEF MqInv
<1> QED BY <1>2, <1>3 DEF ReplyInv

\* Steps of the workers.
LEMMA ReplyWorkers ==
  ASSUME ReplyInv, UNCHANGED <<calls, future, abandoned, mqs_dropped>>,
         \A w \in Ranks : MqInv(w) =>
           MqOK(response_mq'[w], async_output_queue'[w], output_thread'[w], worker'[w].pc,
                worker'[w].next, AskedOf(w), OwedTo(w))
  PROVE  ReplyInv'
<1>1. /\ \A i : Asked(i)' = Asked(i)
      /\ \A i, k : OwnReply(i, k)' <=> OwnReply(i, k)
      /\ \A w : AskedOf(w)' = AskedOf(w) /\ OwedTo(w)' = OwedTo(w)
  BY SMTT(30) DEF Asked, OwnReply, AskedOf, OwedTo, Pending, HasRead
<1>2. \A w \in Ranks : MqInv(w) => MqInv(w)'
  BY <1>1, SMTT(30) DEF MqInv
<1> QED BY <1>1, <1>2, SMTT(30) DEF ReplyInv

LEMMA ReplyDequeue ==
  ASSUME DataInv, ReplyInv, NEW w \in Ranks, worker_dequeue(w)
  PROVE  ReplyInv'
<1>1. /\ UNCHANGED <<calls, future, abandoned, mqs_dropped, async_output_queue, output_thread,
                     response_mq>>
  BY DEF worker_dequeue, rpcVars, futureVars, closeVars
<1>2. /\ worker'[w].next = worker[w].next /\ worker[w].pc # "dead"
      /\ \A v \in Ranks : v # w => worker'[v] = worker[v]
  BY DataDequeue, SMTT(30)
<1>3. ASSUME NEW v \in Ranks, MqInv(v)
      PROVE  MqOK(response_mq'[v], async_output_queue'[v], output_thread'[v], worker'[v].pc,
                  worker'[v].next, AskedOf(v), OwedTo(v))
  <2>1. CASE v = w
    BY <1>1, <1>2, <1>3, <2>1, SMTT(30) DEF MqInv, MqOK
  <2>2. CASE v # w
    BY <1>1, <1>2, <1>3, <2>2, SMTT(30) DEF MqInv
  <2> QED BY <2>1, <2>2, SMTT(30)
<1> QED BY <1>1, <1>3, ReplyWorkers

LEMMA ReplyExecute ==
  ASSUME DataInv, ThreadInv, ReplyInv, NEW w \in Ranks, worker_execute(w)
  PROVE  ReplyInv'
<1> DEFINE m == worker[w].next
           sent == response_mq[w]
           coming == async_output_queue[w]
           thread == output_thread[w]
<1>1. /\ worker[w].pc = "running" /\ worker'[w].pc = "idle" /\ worker'[w].next = m + 1
      /\ \A v \in Ranks : v # w => worker'[v] = worker[v]
      /\ UNCHANGED output_thread
  <2>1. /\ worker[w].pc = "running" /\ worker'[w] = [pc |-> "idle", next |-> m + 1]
        /\ \A v \in Ranks : v # w => worker'[v] = worker[v]
        /\ UNCHANGED output_thread
    BY ExecuteFacts, SMTT(30)
  <2> QED BY <2>1, SMTT(30)
<1>2. UNCHANGED <<calls, future, abandoned, mqs_dropped>>
  BY ExecuteFacts, ZenonT(30) DEF rpcVars, futureVars, closeVars
<1>3. /\ sent \in Seq(Replies) /\ coming \in Seq(Replies) /\ m \in Nat
      /\ AskedOf(w) \in SUBSET Nat /\ OwedTo(w) \in SUBSET AskedOf(w)
      /\ thread \in {"running", "ended"}
      /\ response_mq \in [Ranks -> Seq(Replies)]
      /\ async_output_queue \in [Ranks -> Seq(Replies)]
  BY MqFacts, ZenonT(30) DEF DataInv
<1>4. ~use_async_scheduling => coming = << >> /\ thread = "running"
  BY <1>1, <1>3, SMTT(30) DEF ThreadInv
<1>5. ASSUME MqInv(w)
      PROVE  MqOK(response_mq'[w], async_output_queue'[w], thread, "idle", m + 1,
                  AskedOf(w), OwedTo(w))
  <2>1. MqOK(sent, coming, thread, "running", m, AskedOf(w), OwedTo(w))
    BY <1>1, <1>5, SMTT(30) DEF MqInv
  <2>2. CASE m \notin AskedOf(w) /\ UNCHANGED <<async_output_queue, response_mq>>
    BY <1>3, <2>1, <2>2, MqSilent, ZenonT(30)
  <2>3. ASSUME m \in AskedOf(w), NEW x \in Replies, x.call = m, use_async_scheduling,
               async_output_queue' = [async_output_queue EXCEPT ![w] = Append(@, x)],
               response_mq' = response_mq
        PROVE  MqOK(response_mq'[w], async_output_queue'[w], thread, "idle", m + 1,
                    AskedOf(w), OwedTo(w))
    <3>1. async_output_queue'[w] = Append(coming, x) /\ response_mq'[w] = sent
      BY <1>3, <2>3, SMTT(30)
    <3> HIDE DEF m, sent, coming, thread
    <3>2. CASE thread = "running"
      BY <1>3, <2>1, <2>3, <3>1, <3>2, MqQueue, ZenonT(30)
    <3>3. CASE thread = "ended"
      BY <1>3, <2>1, <3>1, <3>3, MqUnheard, ZenonT(30)
    <3> QED BY <1>3, <3>2, <3>3, SMTT(30)
  <2>4. ASSUME m \in AskedOf(w), NEW x \in Replies, x.call = m, ~use_async_scheduling,
               response_mq' = [response_mq EXCEPT ![w] = Append(@, x)],
               async_output_queue' = async_output_queue
        PROVE  MqOK(response_mq'[w], async_output_queue'[w], thread, "idle", m + 1,
                    AskedOf(w), OwedTo(w))
    <3>1. response_mq'[w] = Append(sent, x) /\ async_output_queue'[w] = coming
      BY <1>3, <2>4
    <3> HIDE DEF m, sent, coming, thread
    <3>2. coming = << >> /\ thread = "running"
      BY <1>4, <2>4, SMTT(30)
    <3> QED BY <1>3, <2>1, <2>4, <3>1, <3>2, MqSend, ZenonT(30)
  <2> QED BY <2>2, <2>3, <2>4, ExecuteFacts, ZenonT(30)
<1>6. \A v \in Ranks : v # w => /\ response_mq'[v] = response_mq[v]
                                /\ async_output_queue'[v] = async_output_queue[v]
  <2>1. \/ UNCHANGED <<async_output_queue, response_mq>>
        \/ \E x \in Replies :
             \/ /\ async_output_queue' = [async_output_queue EXCEPT ![w] = Append(@, x)]
                /\ response_mq' = response_mq
             \/ /\ response_mq' = [response_mq EXCEPT ![w] = Append(@, x)]
                /\ async_output_queue' = async_output_queue
    BY ExecuteFacts, ZenonT(30)
  <2> QED BY <1>3, <2>1
<1>7. ASSUME NEW v \in Ranks, MqInv(v)
      PROVE  MqOK(response_mq'[v], async_output_queue'[v], output_thread'[v], worker'[v].pc,
                  worker'[v].next, AskedOf(v), OwedTo(v))
  <2>1. CASE v = w
    BY <1>1, <1>5, <1>7, <2>1, SMTT(30)
  <2>2. CASE v # w
    BY <1>1, <1>6, <1>7, <2>2 DEF MqInv
  <2> QED BY <2>1, <2>2, SMTT(30)
<1> QED BY <1>2, <1>7, ReplyWorkers, SMTT(30)

LEMMA ReplyOutput ==
  ASSUME DataInv, ReplyInv, NEW w \in Ranks, async_output_busy_loop(w)
  PROVE  ReplyInv'
<1> DEFINE sent == response_mq[w]
           coming == async_output_queue[w]
<1>1. /\ output_thread[w] = "running" /\ coming # << >>
      /\ async_output_queue' = [async_output_queue EXCEPT ![w] = Tail(coming)]
      /\ \/ response_mq' = [response_mq EXCEPT ![w] = Append(sent, Head(coming))]
            /\ output_thread' = output_thread
         \/ output_thread' = [output_thread EXCEPT ![w] = "ended"] /\ response_mq' = response_mq
      /\ UNCHANGED <<calls, future, abandoned, mqs_dropped, worker>>
  BY SMTT(30) DEF async_output_busy_loop, rpcVars, futureVars, closeVars
<1>2. /\ sent \in Seq(Replies) /\ coming \in Seq(Replies) /\ worker[w].next \in Nat
      /\ AskedOf(w) \in SUBSET Nat /\ OwedTo(w) \in SUBSET AskedOf(w)
      /\ response_mq \in [Ranks -> Seq(Replies)]
      /\ async_output_queue \in [Ranks -> Seq(Replies)]
      /\ output_thread \in [Ranks -> {"running", "ended"}]
  BY MqFacts, SMTT(30) DEF DataInv
<1> HIDE DEF sent, coming
<1>3. /\ async_output_queue'[w] = Tail(coming)
      /\ \A v \in Ranks : v # w => /\ response_mq'[v] = response_mq[v]
                                   /\ async_output_queue'[v] = async_output_queue[v]
                                   /\ output_thread'[v] = output_thread[v]
      /\ \/ response_mq'[w] = Append(sent, Head(coming)) /\ output_thread'[w] = "running"
         \/ output_thread'[w] = "ended" /\ response_mq'[w] = sent
  BY <1>1, <1>2, SMTT(30) DEF sent
<1>4. ASSUME NEW v \in Ranks, MqInv(v)
      PROVE  MqOK(response_mq'[v], async_output_queue'[v], output_thread'[v], worker'[v].pc,
                  worker'[v].next, AskedOf(v), OwedTo(v))
  <2>1. CASE v = w
    <3>1. MqOK(sent, coming, "running", worker[w].pc, worker[w].next, AskedOf(w), OwedTo(w))
      BY <1>1, <1>4, <2>1 DEF MqInv, sent, coming
    <3>2. MqOK(Append(sent, Head(coming)), Tail(coming), "running", worker[w].pc,
               worker[w].next, AskedOf(w), OwedTo(w))
      BY <1>1, <1>2, <3>1, MqForward, ZenonT(30)
    <3>3. MqOK(sent, Tail(coming), "ended", worker[w].pc, worker[w].next, AskedOf(w), OwedTo(w))
      BY <3>1, MqEnds
    <3> QED BY <1>1, <1>3, <2>1, <3>2, <3>3, ZenonT(30)
  <2>2. CASE v # w
    BY <1>1, <1>3, <1>4, <2>2, SMTT(30) DEF MqInv
  <2> QED BY <2>1, <2>2, ZenonT(30)
<1> QED BY <1>1, <1>4, ReplyWorkers

LEMMA ReplyEnding ==
  ASSUME DataInv, ReplyInv, NEW ranks \in SUBSET Ranks, Ending(ranks)
  PROVE  ReplyInv'
<1>1. End(ranks) /\ UNCHANGED <<calls, future, abandoned, mqs_dropped>>
  BY SMTT(30) DEF Ending, rpcVars, futureVars
<1>2. /\ response_mq' = response_mq
      /\ \A w \in ranks : worker'[w].pc = "dead" /\ output_thread'[w] = "ended"
      /\ \A w \in Ranks \ ranks : /\ worker'[w] = worker[w]
                                  /\ async_output_queue'[w] = async_output_queue[w]
                                  /\ output_thread'[w] = output_thread[w]
  BY <1>1, EndFacts, SMTT(30)
<1>3. ASSUME NEW v \in Ranks, MqInv(v)
      PROVE  MqOK(response_mq'[v], async_output_queue'[v], output_thread'[v], worker'[v].pc,
                  worker'[v].next, AskedOf(v), OwedTo(v))
  <2>1. CASE v \in ranks
    <3>1. MqOK(response_mq[v], async_output_queue'[v], "ended", "dead", worker'[v].next,
               AskedOf(v), OwedTo(v))
      BY <1>3, MqEnds, SMTT(30) DEF MqInv
    <3> QED BY <1>2, <2>1, <3>1, SMTT(30)
  <2>2. CASE v \notin ranks
    BY <1>2, <1>3, <2>2 DEF MqInv
  <2> QED BY <2>1, <2>2, SMTT(30)
<1> QED BY <1>1, <1>3, ReplyWorkers

\* A call in the broadcast is owed to by every worker it asks.
LEMMA ReplyBroadcast ==
  ASSUME DataInv, FutureInv, ReplyInv, broadcast
  PROVE  ReplyInv'
<1>1. UNCHANGED <<future, abandoned, workerVars, mqs_dropped>> /\ main.pc = "enqueue"
  BY SMTT(30) DEF broadcast, futureVars, closeVars
<1>2. CASE mqs_dropped
  BY <1>1, <1>2, SMTT(30) DEF ReplyInv
<1>3. CASE ~mqs_dropped
  <2> DEFINE n == Len(calls) + 1
             New(w) == IF main.kind \in {ALL, w} THEN {n} ELSE {}
  <2>1. /\ Len(calls) \in Nat /\ DOMAIN calls = 1 .. n - 1 /\ DOMAIN future = 1 .. n - 1
        /\ n \in Nat
    BY <1>1 DEF DataInv
  <2>2. /\ DOMAIN calls' = 1 .. n /\ \A i \in 1 .. n - 1 : calls'[i] = calls[i]
        /\ calls'[n].output_rank = main.kind
    <3>1. /\ Len(calls') = n /\ calls' \in Seq(CallRecords)
          /\ \A i \in 1 .. Len(calls) : calls'[i] = calls[i]
          /\ calls'[n].output_rank = main.kind
      BY <1>3, DataBroadcast DEF DataInv
    <3> QED BY <2>1, <3>1
  <2> HIDE DEF n
  <2>3. /\ \A i \in 1 .. n : i \in 1 .. n - 1 \/ i = n
        /\ 1 .. n - 1 \subseteq 1 .. n /\ n \in 1 .. n /\ n \notin 1 .. n - 1
        /\ \A i \in 1 .. n - 1 : i < n
    BY <2>1, SMTT(30) DEF n
  <2>4. ASSUME NEW w
        PROVE  AskedOf(w)' = AskedOf(w) \cup New(w) /\ OwedTo(w)' = OwedTo(w) \cup New(w)
    <3>1. AskedOf(w)' = AskedOf(w) \cup New(w)
      BY <2>1, <2>2, <2>3 DEF AskedOf
    <3>2. \A c : (c \in DOMAIN future => Pending(c) /\ ~HasRead(c, w))' <=>
                 (c \in DOMAIN future => Pending(c) /\ ~HasRead(c, w))
      BY <1>1 DEF Pending, HasRead
    <3>3. \A c \in New(w) : c \notin DOMAIN future
      BY <2>1, <2>3, SMTT(30)
    <3> HIDE DEF New
    <3> QED BY <3>1, <3>2, <3>3 DEF OwedTo
  <2>5. ASSUME NEW w \in Ranks, MqInv(w)
        PROVE  MqInv(w)'
    <3>1. MqOK(response_mq[w], async_output_queue[w], output_thread[w], worker[w].pc,
               worker[w].next, AskedOf(w) \cup New(w), OwedTo(w) \cup New(w))
      <4>0. worker[w].next \in 1 .. Len(calls) + 1
        BY DEF DataInv
      <4>1. worker[w].next <= n
        BY <2>1, <4>0 DEF n
      <4>2. \A c \in AskedOf(w) : c < n
        BY <2>1, <2>3 DEF AskedOf
      <4>3. New(w) \in SUBSET {n}
        OBVIOUS
      <4> HIDE DEF New
      <4> QED BY <2>1, <2>5, <4>1, <4>2, <4>3, MqFacts, MqNewCall, ZenonT(30) DEF MqInv
    <3> QED BY <1>1, <2>4, <3>1, ZenonT(30) DEF MqInv, workerVars
  <2>6. \A i \in DOMAIN future : Asked(i)' = Asked(i)
    BY <2>1, <2>2 DEF Asked
  <2>7. \A i, k : OwnReply(i, k)' <=> OwnReply(i, k)
    BY <1>1 DEF OwnReply
  <2> QED BY <1>1, <1>3, <2>5, <2>6, <2>7, SMTT(30) DEF ReplyInv
<1> QED BY <1>2, <1>3

\* The new future reads the queues of the workers its call asks.
LEMMA ReplyCreate ==
  ASSUME DataInv, FutureInv, ReplyInv, create_future
  PROVE  ReplyInv'
<1>1. UNCHANGED <<calls, abandoned, workerVars, mqs_dropped>> /\ main.pc = "create_future"
  BY SMTT(30) DEF create_future, rpcVars, closeVars
<1>2. CASE mqs_dropped
  BY <1>1, <1>2, SMTT(30) DEF ReplyInv
<1>3. CASE ~mqs_dropped
  <2> DEFINE n == Len(calls)
             new == future'[n]
  <2>1. /\ n \in Nat /\ n # 0 /\ DOMAIN calls = 1 .. n /\ DOMAIN future = 1 .. n - 1
        /\ n = Len(future) + 1
    BY <1>1 DEF DataInv
  <2>2. /\ DOMAIN future' = 1 .. n /\ \A i \in 1 .. n - 1 : future'[i] = future[i]
        /\ new.state = "pending" /\ new.responses = << >>
        /\ new.mqs = Response_mqs(calls[n].output_rank)
    <3>1. future' \in Seq(Wrappers) /\ Len(future') = n
      BY DataCreate DEF DataInv
    <3>2. \A i \in 1 .. Len(future) : future'[i] = future[i]
      BY DataCreate
    <3>3. LET f == future'[Len(future) + 1] IN
          f.state = "pending" /\ f.responses = << >> /\ f.mqs = Response_mqs(calls[n].output_rank)
      BY <1>3, DataCreate
    <3> QED BY <2>1, <3>1, <3>2, <3>3
  <2>3. new.mqs = Asked(n)
    <3>1. calls[n] \in CallRecords
      BY <2>1 DEF DataInv
    <3>2. calls[n].output_rank \in {output_rank, ALL}
      BY <3>1 DEF CallRecords
    <3> QED BY <1>3, <2>2, <3>2, SMTT(30) DEF Response_mqs, Asked
  <2> HIDE DEF n, new
  <2>4. /\ \A i \in 1 .. n : i \in 1 .. n - 1 \/ i = n
        /\ 1 .. n - 1 \subseteq 1 .. n /\ n \in 1 .. n /\ n \notin 1 .. n - 1
    BY <2>1, SMTT(30)
  <2>5. ASSUME NEW w
        PROVE  AskedOf(w)' = AskedOf(w) /\ OwedTo(w)' = OwedTo(w)
    <3>1. AskedOf(w)' = AskedOf(w)
      BY <1>1 DEF AskedOf
    <3>2. \A c \in 1 .. n - 1 : (Pending(c)' <=> Pending(c)) /\ (HasRead(c, w)' <=> HasRead(c, w))
      BY <2>2 DEF Pending, HasRead
    <3>3. \A c : c = n => Pending(c)' /\ ~HasRead(c, w)'
      BY <2>2 DEF Pending, HasRead, new
    <3>4. AskedOf(w) \subseteq 1 .. n
      BY <2>1, SMTT(30) DEF AskedOf
    <3>5. \A c \in AskedOf(w) :
            (c \in DOMAIN future => Pending(c) /\ ~HasRead(c, w))' <=>
            (c \in DOMAIN future => Pending(c) /\ ~HasRead(c, w))
      BY <2>1, <2>2, <2>4, <3>2, <3>3, <3>4, SMTT(30)
    <3> QED BY <3>1, <3>5 DEF OwedTo
  <2>6. \A w \in Ranks : MqInv(w)' <=> MqInv(w)
    BY <1>1, <2>5 DEF MqInv, workerVars
  <2>7. \A i : Asked(i)' = Asked(i)
    BY <1>1, SMTT(30) DEF Asked
  <2>8. ASSUME NEW i \in DOMAIN future'
        PROVE  /\ future'[i].mqs = Asked(i)'
               /\ \A k \in DOMAIN future'[i].responses :
                    future'[i].mqs[k] \in abandoned' \/ OwnReply(i, k)'
    <3>1. CASE i = n
      BY <2>2, <2>3, <2>7, <3>1, SMTT(30) DEF new
    <3>2. CASE i \in 1 .. n - 1
      <4>1. i \in DOMAIN future /\ future'[i] = future[i]
        BY <2>1, <2>2, <3>2
      <4> QED BY <1>1, <1>3, <2>7, <4>1, SMTT(30) DEF ReplyInv, OwnReply
    <3> QED BY <2>2, <2>4, <3>1, <3>2, SMTT(30)
  <2> QED BY <1>1, <1>3, <2>6, <2>8, SMTT(30) DEF ReplyInv
<1> QED BY <1>2, <1>3

\* The future being read is the oldest pending one: no call before it is owed to.
LEMMA OldestOwed ==
  ASSUME DataInv, FutureInv, main.pc = "get_response", NEW w \in Ranks
  PROVE  /\ \A c \in OwedTo(w) : main.current <= c /\ Pending(c) /\ ~HasRead(c, w)
         /\ OwedTo(w) \subseteq DOMAIN future
<1>1. /\ DOMAIN calls = DOMAIN future /\ DOMAIN future \subseteq Nat
      /\ main.current \in Nat
  BY ReadingFacts, SMTT(30) DEF DataInv
<1>2. \A c \in OwedTo(w) : c \in DOMAIN future /\ Pending(c) /\ ~HasRead(c, w)
  BY <1>1 DEF OwedTo, AskedOf
<1>3. \A c \in DOMAIN future : Pending(c) => c = main.current \/ c \in Range(futures_queue)
  BY SMTT(30) DEF FutureInv
<1>4. \A c \in Range(futures_queue) : main.current < c
  BY DEF FutureInv, Range
<1> QED BY <1>1, <1>2, <1>3, <1>4, SMTT(30)

\* Whose reply the future being read still waits for.
LEMMA StillUnread ==
  ASSUME DataInv, FutureInv, ReplyInv, ~mqs_dropped, main.pc = "get_response",
         NEW w \in Ranks, main.current \in OwedTo(w)
  PROVE  /\ w \in Unread(1)
         /\ \/ w \in Unread(2)
            \/ Len(Reading.responses) < Len(Reading.mqs) /\ w = NextMq
<1> DEFINE k == main.current
           n == Len(Reading.responses)
<1>1. /\ k \in DOMAIN future /\ k \in DOMAIN calls /\ n \in Nat
      /\ Reading.mqs \in Seq(Ranks) /\ Reading.responses \in Seq(Calls)
  <2>1. /\ k \in DOMAIN future /\ DOMAIN future = 1 .. Len(calls) /\ n \in Nat
        /\ Reading \in Wrappers
    BY ReadingFacts, SMTT(30)
  <2>2. DOMAIN calls = 1 .. Len(calls)
    BY DEF DataInv
  <2>3. Reading.mqs \in Seq(Ranks) /\ Reading.responses \in Seq(Calls)
    BY <2>1, SMTT(30) DEF Wrappers
  <2> QED BY <2>1, <2>2, <2>3
<1>2. Reading.mqs = Asked(k)
  BY <1>1, SMTT(30) DEF ReplyInv, Reading
<1>3. PICK a \in DOMAIN Reading.mqs : Reading.mqs[a] = w
  BY <1>1, <1>2, AskedFacts, SMTT(30) DEF OwedTo
<1>4. a \notin DOMAIN Reading.responses
  BY <1>3, OldestOwed, SMTT(30) DEF HasRead, Reading
<1>5. a \in n + 1 .. Len(Reading.mqs)
  BY <1>1, <1>3, <1>4
<1>6. a = n + 1 \/ a \in n + 2 .. Len(Reading.mqs)
  BY <1>1, <1>5
<1>7. a = n + 1 => n < Len(Reading.mqs)
  BY <1>1, <1>5, SMTT(30)
<1> QED BY <1>3, <1>5, <1>6, <1>7 DEF Unread, NextMq

\* What get_response changes in the futures, when the futures it leaves alone keep
\* what they hold: only the future being read may stop being owed to.
LEMMA OwedAfterReading ==
  ASSUME DataInv, FutureInv, main.pc = "get_response", NEW w \in Ranks,
         UNCHANGED calls, DOMAIN future' = DOMAIN future,
         \A i \in DOMAIN future : i # main.current => future'[i] = future[i]
  PROVE  /\ AskedOf(w)' = AskedOf(w)
         /\ \A c : c # main.current => (c \in OwedTo(w)' <=> c \in OwedTo(w))
<1>1. AskedOf(w)' = AskedOf(w)
  BY DEF AskedOf
<1>2. \A c \in DOMAIN future : c # main.current =>
        (Pending(c)' <=> Pending(c)) /\ (HasRead(c, w)' <=> HasRead(c, w))
  BY SMTT(30) DEF Pending, HasRead
<1> QED BY <1>1, <1>2 DEF OwedTo

\* get_response settles the future without taking a reply.
LEMMA ReplySettle ==
  ASSUME DataInv, FutureInv, ReplyInv, main.pc = "get_response",
         NEW state \in {"result", "exception"}, Resolve(state),
         UNCHANGED <<calls, workerVars, mqs_dropped>>, abandoned \subseteq abandoned',
         \A w \in Ranks : w \in Unread(1) => w \in abandoned'
  PROVE  ReplyInv'
<1> SUFFICES ASSUME ~mqs_dropped PROVE ReplyInv'
  BY SMTT(30) DEF ReplyInv
<1> DEFINE k == main.current
<1>1. /\ DOMAIN future' = DOMAIN future /\ k \in DOMAIN future
      /\ future'[k].state = state
      /\ \A i \in DOMAIN future :
              /\ i # k => future'[i] = future[i]
              /\ future'[i].mqs = future[i].mqs /\ future'[i].responses = future[i].responses
  <2>1. state \in FutureStates
    BY SMTT(30) DEF FutureStates
  <2>2. future' \in Seq(Wrappers) /\ Len(future') = Len(future) /\ future \in Seq(Wrappers)
    BY <2>1, ResolveFacts, ReadingFacts
  <2>3. DOMAIN future' = DOMAIN future
    BY <2>2
  <2> QED BY <2>1, <2>3, ResolveFacts, ReadingFacts
<1>2. ASSUME NEW w \in Ranks, w \notin abandoned'
      PROVE  AskedOf(w)' = AskedOf(w) /\ OwedTo(w)' = OwedTo(w)
  <2>1. /\ AskedOf(w)' = AskedOf(w)
        /\ \A c : c # k => (c \in OwedTo(w)' <=> c \in OwedTo(w))
    BY <1>1, OwedAfterReading
  <2>2. k \notin OwedTo(w)
    BY <1>2, StillUnread, SMTT(30)
  <2>3. \A c : c = k => c \notin OwedTo(w)'
    BY <1>1, SMTT(30) DEF OwedTo, Pending
  <2> QED BY <2>1, <2>2, <2>3, SMTT(30)
<1>3. ASSUME NEW w \in Ranks, w \notin abandoned'
      PROVE  MqInv(w)'
  <2>1. MqInv(w)
    BY <1>3, SMTT(30) DEF ReplyInv
  <2> QED BY <1>2, <1>3, <2>1, SMTT(30) DEF MqInv, workerVars
<1>4. ASSUME NEW i \in DOMAIN future
      PROVE  /\ future'[i].mqs = Asked(i)'
             /\ \A a \in DOMAIN future'[i].responses :
                  future'[i].mqs[a] \in abandoned' \/ OwnReply(i, a)'
  <2>1. Asked(i)' = Asked(i)
    BY SMTT(30) DEF Asked
  <2> QED BY <1>1, <2>1, SMTT(30) DEF ReplyInv, OwnReply
<1> QED BY <1>1, <1>3, <1>4, SMTT(30) DEF ReplyInv

\* The oldest reply of the queue read next answers the call being read.
LEMMA ReplyIsOwn ==
  ASSUME DataInv, FutureInv, ReplyInv, ~mqs_dropped, main.pc = "get_response",
         Len(Reading.responses) < Len(Reading.mqs), response_mq[NextMq] # << >>,
         NextMq \notin abandoned
  PROVE  /\ Head(response_mq[NextMq]).call = main.current
         /\ MqOK(Tail(response_mq[NextMq]), async_output_queue[NextMq], output_thread[NextMq],
                 worker[NextMq].pc, worker[NextMq].next, AskedOf(NextMq),
                 OwedTo(NextMq) \ {main.current})
<1> DEFINE k == main.current
           n == Len(Reading.responses)
           w == NextMq
<1>1. /\ k \in DOMAIN future /\ k \in DOMAIN calls /\ n \in Nat /\ w \in Ranks
      /\ n + 1 \in DOMAIN Reading.mqs /\ Reading.responses \in Seq(Calls) /\ Pending(k)
  <2>1. /\ k \in DOMAIN future /\ DOMAIN future = 1 .. Len(calls) /\ n \in Nat
        /\ Reading \in Wrappers /\ w \in Ranks /\ n + 1 \in DOMAIN Reading.mqs /\ Pending(k)
    BY ReadingFacts, SMTT(30)
  <2>2. DOMAIN calls = 1 .. Len(calls)
    BY DEF DataInv
  <2>3. Reading.responses \in Seq(Calls)
    BY <2>1, SMTT(30) DEF Wrappers
  <2> QED BY <2>1, <2>2, <2>3
<1>2. Reading.mqs = Asked(k) /\ Reading.mqs[n + 1] = w
  BY <1>1, SMTT(30) DEF ReplyInv, Reading, NextMq
<1>3. k \in AskedOf(w)
  BY <1>1, <1>2, AskedFacts, SMTT(30)
<1>4. ~HasRead(k, w)
  <2> SUFFICES ASSUME NEW a \in DOMAIN Reading.responses, Reading.mqs[a] = w PROVE FALSE
    BY DEF HasRead, Reading
  <2>1. a \in DOMAIN Reading.mqs /\ a # n + 1
    <3>1. a \in 1 .. n /\ Reading.mqs \in Seq(Ranks)
      BY <1>1, <1>2, AskedFacts, SMTT(30)
    <3> QED BY <1>1, <3>1, SMTT(30)
  <2> QED BY <1>1, <1>2, <2>1, AskedFacts
<1>5. k \in OwedTo(w)
  BY <1>1, <1>3, <1>4 DEF OwedTo
<1>6. \A c \in OwedTo(w) : k <= c
  BY <1>1, OldestOwed, SMTT(30)
<1>7. MqInv(w)
  BY <1>1, SMTT(30) DEF ReplyInv
<1> HIDE DEF k, w
<1>8. /\ Head(response_mq[w]).call = k
      /\ MqOK(Tail(response_mq[w]), async_output_queue[w], output_thread[w], worker[w].pc,
              worker[w].next, AskedOf(w), OwedTo(w) \ {k})
  <2>1. response_mq[w] # << >>
    BY DEF w
  <2>2. /\ response_mq[w] \in Seq(Replies) /\ async_output_queue[w] \in Seq(Replies)
        /\ worker[w].next \in Nat /\ AskedOf(w) \in SUBSET Nat
        /\ OwedTo(w) \in SUBSET AskedOf(w)
    BY <1>1, MqFacts, SMTT(30)
  <2>3. MqOK(response_mq[w], async_output_queue[w], output_thread[w], worker[w].pc,
             worker[w].next, AskedOf(w), OwedTo(w))
    BY <1>7, SMTT(30) DEF MqInv
  <2> DEFINE sent == response_mq[w]
             coming == async_output_queue[w]
             thread == output_thread[w]
             pc == worker[w].pc
             next == worker[w].next
             asked == AskedOf(w)
             owed == OwedTo(w)
  <2>4. /\ sent \in Seq(Replies) /\ coming \in Seq(Replies) /\ next \in Nat
        /\ asked \in SUBSET Nat /\ owed \in SUBSET asked /\ sent # << >>
        /\ MqOK(sent, coming, thread, pc, next, asked, owed)
        /\ k \in owed /\ \A c \in owed : k <= c
    BY <1>5, <1>6, <2>1, <2>2, <2>3, SMTT(30)
  <2> HIDE DEF sent, coming, thread, pc, next, asked, owed
  <2>5. Head(sent).call = k /\ MqOK(Tail(sent), coming, thread, pc, next, asked, owed \ {k})
    BY <2>4, MqRead, ZenonT(30)
  <2> QED BY <2>5 DEF sent, coming, thread, pc, next, asked, owed
<1> QED BY <1>8 DEF k, w

LEMMA ReplyTaken ==
  ASSUME DataInv, FutureInv, ReplyInv, get_response_reply
  PROVE  ReplyInv'
<1> DEFINE k == main.current
           n == Len(Reading.responses)
           q == NextMq
           x == Head(response_mq[q])
<1>1. /\ main.pc = "get_response" /\ n < Len(Reading.mqs) /\ response_mq[q] # << >>
      /\ response_mq' = [response_mq EXCEPT ![q] = Tail(response_mq[q])]
      /\ UNCHANGED <<calls, worker, async_output_queue, output_thread, mqs_dropped>>
  BY ReplyFacts, SMTT(30) DEF rpcVars, closeVars
<1> SUFFICES ASSUME ~mqs_dropped PROVE ReplyInv'
  BY <1>1, SMTT(30) DEF ReplyInv
<1>2. /\ k \in DOMAIN future /\ q \in Ranks /\ n \in Nat /\ future \in Seq(Wrappers)
      /\ Reading \in Wrappers /\ Pending(k)
  BY <1>1, ReadingFacts, SMTT(30)
<1>3. q \notin abandoned =>
        /\ x.call = k
        /\ MqOK(Tail(response_mq[q]), async_output_queue[q], output_thread[q], worker[q].pc,
                worker[q].next, AskedOf(q), OwedTo(q) \ {k})
  BY <1>1, ReplyIsOwn
<1>4. Reading.responses \in Seq(Calls)
  BY <1>2 DEF Wrappers
<1>5. /\ DOMAIN future' = DOMAIN future /\ abandoned \subseteq abandoned'
      /\ \A i \in DOMAIN future : /\ i # k => future'[i] = future[i]
                                  /\ future'[i].mqs = future[i].mqs
  <2>1. CASE Resolve("exception") /\ abandoned' = abandoned \cup Unread(2)
    <3>1. /\ future' \in Seq(Wrappers) /\ Len(future') = Len(future)
          /\ \A i \in DOMAIN future : /\ i # k => future'[i] = future[i]
                                      /\ future'[i].mqs = future[i].mqs
      BY <1>1, <2>1, ResolveFacts DEF FutureStates
    <3>2. DOMAIN future' = DOMAIN future
      BY <1>2, <3>1
    <3> QED BY <2>1, <3>1, <3>2, SMTT(30)
  <2>2. CASE ~(Resolve("exception") /\ abandoned' = abandoned \cup Unread(2))
    <3>1. /\ future' \in Seq(Wrappers) /\ Len(future') = Len(future) /\ abandoned' = abandoned
          /\ \A i \in DOMAIN future : /\ i # k => future'[i] = future[i]
                                      /\ future'[i].mqs = future[i].mqs
      BY <2>2, ReplyFacts
    <3>2. DOMAIN future' = DOMAIN future
      BY <1>2, <3>1
    <3> QED BY <3>1, <3>2, SMTT(30)
  <2> QED BY <2>1, <2>2, SMTT(30)
<1>6. ASSUME NEW w \in Ranks, w \notin abandoned'
      PROVE  OwedTo(w)' = IF w = q THEN OwedTo(w) \ {k} ELSE OwedTo(w)
  <2>1. /\ AskedOf(w)' = AskedOf(w)
        /\ \A c : c # k => (c \in OwedTo(w)' <=> c \in OwedTo(w))
    BY <1>1, <1>5, OwedAfterReading
  <2>2. CASE Resolve("exception") /\ abandoned' = abandoned \cup Unread(2)
    <3>1. future'[k].state = "exception"
      BY <1>1, <2>2, ResolveFacts, SMTT(30) DEF FutureStates
    <3>2. \A c : c = k => c \notin OwedTo(w)'
      BY <1>2, <1>5, <3>1 DEF OwedTo, Pending
    <3>3. w # q => k \notin OwedTo(w)
      BY <1>1, <1>6, <2>2, StillUnread
    <3> QED BY <2>1, <3>2, <3>3, SMTT(30)
  <2>3. CASE ~(Resolve("exception") /\ abandoned' = abandoned \cup Unread(2))
    <3>1. /\ future'[k].state = future[k].state
          /\ future'[k].responses = Append(future[k].responses, x.call)
          /\ future'[k].mqs = future[k].mqs
      BY <1>2, <2>3, ReplyFacts, SMTT(30)
    <3>2. DOMAIN future'[k].responses = DOMAIN future[k].responses \cup {n + 1}
      BY <1>4, <3>1, SMTT(30) DEF Reading
    <3>3. future[k].mqs[n + 1] = q
      BY DEF NextMq, Reading
    <3>4. \A c : c = k => /\ HasRead(c, w)' <=> (HasRead(c, w) \/ w = q)
                          /\ Pending(c)' <=> Pending(c)
      BY <3>1, <3>2, <3>3, ZenonT(30) DEF HasRead, Pending
    <3>5. \A c : c = k => (c \in OwedTo(w)' <=> c \in OwedTo(w) /\ w # q)
      BY <1>2, <1>5, <2>1, <3>4 DEF OwedTo
    <3> QED BY <2>1, <3>5, SMTT(30)
  <2> QED BY <2>2, <2>3, SMTT(30)
<1>7. ASSUME NEW w \in Ranks, w \notin abandoned'
      PROVE  MqInv(w)'
  <2>1. /\ AskedOf(w)' = AskedOf(w) /\ MqInv(w) /\ w \notin abandoned
    BY <1>1, <1>5, <1>7, SMTT(30) DEF AskedOf, ReplyInv
  <2>2. CASE w = q
    <3>1. response_mq'[w] = Tail(response_mq[q])
      BY <1>1, <1>2, <2>2, ZenonT(30) DEF DataInv
    <3>2. OwedTo(w)' = OwedTo(q) \ {k}
      BY <1>6, <1>7, <2>2, SMTT(30)
    <3> QED BY <1>1, <1>3, <2>1, <2>2, <3>1, <3>2, SMTT(30) DEF MqInv
  <2>3. CASE w # q
    <3>1. response_mq'[w] = response_mq[w]
      BY <1>1, <1>2, <2>3 DEF DataInv
    <3>2. OwedTo(w)' = OwedTo(w)
      BY <1>6, <1>7, <2>3, SMTT(30)
    <3> QED BY <1>1, <2>1, <3>1, <3>2, SMTT(30) DEF MqInv
  <2> QED BY <2>2, <2>3, SMTT(30)
<1>8. ASSUME NEW i \in DOMAIN future
      PROVE  /\ future'[i].mqs = Asked(i)'
             /\ \A a \in DOMAIN future'[i].responses :
                  future'[i].mqs[a] \in abandoned' \/ OwnReply(i, a)'
  <2>1. Asked(i)' = Asked(i) /\ future'[i].mqs = future[i].mqs /\ future[i].mqs = Asked(i)
    <3>1. Asked(i)' = Asked(i)
      BY <1>1 DEF Asked
    <3>2. future'[i].mqs = future[i].mqs
      BY <1>5
    <3>3. future[i].mqs = Asked(i)
      BY SMTT(30) DEF ReplyInv
    <3> QED BY <3>1, <3>2, <3>3, ZenonT(30)
  <2>2. CASE future'[i].responses = future[i].responses
    BY <1>5, <2>1, <2>2, SMTT(30) DEF ReplyInv, OwnReply
  <2>3. CASE future'[i].responses # future[i].responses
    <3>1. i = k /\ future'[k].responses = Append(future[k].responses, x.call)
      <4>1. i = k
        BY <1>5, <2>3, SMTT(30)
      <4>2. ~Resolve("exception")
        BY <1>1, <2>3, ResolveFacts, SMTT(30) DEF FutureStates
      <4> QED BY <4>1, <4>2, ReplyFacts
    <3>2. \A a \in DOMAIN future'[k].responses :
            \/ a \in DOMAIN future[k].responses /\ future'[k].responses[a] = future[k].responses[a]
            \/ a = n + 1 /\ future'[k].responses[a] = x.call
      BY <1>4, <3>1 DEF Reading
    <3>3. future[k].mqs[n + 1] = q
      BY SMTT(30) DEF NextMq, Reading
    <3>4. \A a \in DOMAIN future[k].responses :
            future[k].mqs[a] \in abandoned \/ future[k].responses[a] = k
      BY <1>2, SMTT(30) DEF ReplyInv, OwnReply
    <3>5. q \in abandoned \/ x.call = k
      BY <1>3, SMTT(30)
    <3> HIDE DEF x, q, n, k
    <3>6. ASSUME NEW a \in DOMAIN future'[i].responses
          PROVE  future'[i].mqs[a] \in abandoned' \/ future'[i].responses[a] = i
      BY <1>5, <2>1, <3>1, <3>2, <3>3, <3>4, <3>5
    <3> QED BY <2>1, <3>6, SMTT(30) DEF OwnReply
  <2> QED BY <2>2, <2>3, SMTT(30)
<1> QED BY <1>5, <1>7, <1>8, SMTT(30) DEF ReplyInv

LEMMA ReplyReading ==
  ASSUME DataInv, FutureInv, ReplyInv,
         get_response_done \/ get_response_reply \/ get_response_raises
  PROVE  ReplyInv'
<1>1. CASE get_response_done
  <2>1. /\ main.pc = "get_response" /\ Resolve("result")
        /\ Len(Reading.responses) = Len(Reading.mqs)
        /\ UNCHANGED <<calls, workerVars, mqs_dropped, abandoned>>
    BY <1>1 DEF get_response_done, rpcVars, closeVars
  <2>2. Len(Reading.responses) \in Nat
    BY <2>1, ReadingFacts
  <2>3. Unread(1) = {}
    BY <2>1, <2>2 DEF Unread
  <2> QED BY <2>1, <2>3, ReplySettle
<1>2. CASE get_response_raises
  <2>1. /\ main.pc = "get_response" /\ Resolve("exception")
        /\ abandoned' = abandoned \cup Unread(1)
        /\ UNCHANGED <<calls, workerVars, mqs_dropped>>
    BY <1>2 DEF get_response_raises, rpcVars, closeVars
  <2> QED BY <2>1, ReplySettle, SMTT(30)
<1>3. CASE get_response_reply
  BY <1>3, ReplyTaken
<1> QED BY <1>1, <1>2, <1>3

-----------------------------------------------------------------------------
(* The invariant, and what follows from it *)

LEMMA NextIInv ==
  ASSUME IInv, [Next]_vars
  PROVE  IInv'
<1> USE DEF IInv
<1>1. ASSUME Quiet, DataInv', mqs_dropped => mqs_dropped'
      PROVE  IInv'
  <2>1. UNCHANGED <<main, futureVars>> /\ UNCHANGED <<calls, future, abandoned, workerVars>>
        /\ UNCHANGED <<use_async_scheduling, worker, async_output_queue, output_thread>>
    BY <1>1 DEF Quiet, rpcVars, futureVars, workerVars
  <2> QED BY <1>1, <2>1, FutureQuiet, ThreadQuiet, ReplyQuiet
<1>2. ASSUME NEW ranks \in SUBSET Ranks, Ending(ranks), DataInv'
      PROVE  IInv'
  <2>1. UNCHANGED <<main, futureVars>>
    BY <1>2 DEF Ending
  <2> QED BY <1>2, <2>1, FutureQuiet, ThreadEnding, ReplyEnding
<1>3. CASE \/ \E t \in Threads : shutdown_begin(t) \/ shutdown_cancel(t) \/ shutdown_drop(t)
           \/ engine_stops \/ monitor_workers \/ invoke_failure_callback
           \/ register_failure_callback
  BY <1>1, <1>3, QuietSteps
<1>4. CASE \/ \E t \in Threads : shutdown_terminate(t)
           \/ \E w \in Ranks : worker_dies(w)
  BY <1>2, <1>4, EndingSteps
<1>5. CASE collective_rpc \/ ask_result \/ result
  <2>1. /\ UNCHANGED <<calls, future, abandoned, workerVars, mqs_dropped>>
        /\ UNCHANGED <<use_async_scheduling, worker, async_output_queue, output_thread>>
    BY <1>5, ZenonT(30) DEF collective_rpc, ask_result, result, Take, rpcVars, futureVars, workerVars,
                closeVars
  <2>2. FutureInv'
    BY <1>5, FutureCalling, FutureResult
  <2>3. ThreadInv' /\ ReplyInv'
    BY <2>1, ThreadQuiet, ReplyQuiet
  <2> QED BY <1>5, <2>2, <2>3, DataMain, SMTT(30)
<1>6. CASE broadcast
  <2>1. UNCHANGED <<use_async_scheduling, worker, async_output_queue, output_thread>>
    BY <1>6 DEF broadcast, workerVars
  <2> QED BY <1>6, <2>1, DataBroadcast, FutureCalling, ThreadQuiet, ReplyBroadcast
<1>7. CASE create_future
  <2>1. UNCHANGED <<use_async_scheduling, worker, async_output_queue, output_thread>>
    BY <1>7 DEF create_future, rpcVars, workerVars
  <2> QED BY <1>7, <2>1, DataCreate, FutureCreate, ThreadQuiet, ReplyCreate
<1>8. CASE get_response_done \/ get_response_reply \/ get_response_raises
  <2>1. UNCHANGED <<use_async_scheduling, worker, async_output_queue, output_thread>>
    BY <1>8 DEF get_response_done, get_response_reply, get_response_raises, rpcVars, workerVars
  <2>2. DataInv'
    BY <1>8, DataDone, DataReply, DataRaises, SMTT(30)
  <2> QED BY <1>8, <2>1, <2>2, FutureReading, ThreadQuiet, ReplyReading
<1>9. ASSUME NEW w \in Ranks,
             worker_dequeue(w) \/ worker_execute(w) \/ async_output_busy_loop(w)
      PROVE  IInv'
  <2>1. UNCHANGED <<main, futureVars>>
    BY <1>9, ExecuteFacts, ZenonT(30) DEF worker_dequeue, async_output_busy_loop
  <2>2. DataInv'
    BY <1>9, DataDequeue, DataExecute, DataOutput
  <2>3. ReplyInv'
    BY <1>9, ReplyDequeue, ReplyExecute, ReplyOutput
  <2> QED BY <1>9, <2>1, <2>2, <2>3, FutureQuiet, ThreadSteps
<1>10. CASE UNCHANGED vars
  <2>1. Quiet /\ UNCHANGED <<is_failed, shutting_down, closer, mq_cancelled, mqs_dropped>>
    BY <1>10, SMTT(30) DEF vars, Quiet, failVars, closeVars
  <2>2. DataInv'
    BY <2>1, DataQuiet, SMTT(30) DEF DataInv
  <2> QED BY <1>1, <2>1, <2>2
<1>11. {"main", "monitor"} = Threads
  BY DEF Threads
<1> HIDE DEF IInv
<1> QED
  <2>1. CASE MainStep
    BY <1>3, <1>4, <1>5, <1>6, <1>7, <1>8, <1>11, <2>1, SMTT(30) DEF MainStep, Shutdown
  <2>2. CASE MonitorStep
    BY <1>3, <1>4, <1>11, <2>2 DEF MonitorStep, Shutdown
  <2>3. CASE \E w \in Ranks : \/ WorkerStep(w) \/ async_output_busy_loop(w) \/ worker_dies(w)
    BY <1>4, <1>9, <2>3 DEF WorkerStep
  <2>4. CASE collective_rpc \/ ask_result \/ engine_stops
    BY <1>3, <1>5, <2>4
  <2> QED BY <1>10, <2>1, <2>2, <2>3, <2>4 DEF Next

LEMMA IInvAlways == Spec => []IInv
BY InitIInv, NextIInv, PTL DEF Spec

\* The calls, the futures and the queues have the shapes collective_rpc and
\* get_response rely on; a future is pending exactly while it is in futures_queue
\* or being read.
THEOREM ExecutorTypes == Spec => []TypeOK
<1>1. IInv => TypeOK
  <2> SUFFICES ASSUME DataInv, FutureInv PROVE TypeOK
    BY SMTT(30) DEF IInv
  <2>1. /\ calls \in Seq(CallRecords) /\ main \in MainStates /\ future \in Seq(Wrappers)
        /\ main.target \in {0} \cup DOMAIN future /\ main.current \in {0} \cup DOMAIN future
        /\ DOMAIN future \in {1 .. Len(calls), 1 .. Len(calls) - 1}
    <3>1. /\ calls \in Seq(CallRecords) /\ main \in MainStates /\ future \in Seq(Wrappers)
          /\ Len(future) = Len(calls) - 1 \/ Len(future) = Len(calls)
      BY SMTT(30) DEF DataInv
    <3>2. main.target \in {0} \cup DOMAIN future /\ main.current \in {0} \cup DOMAIN future
      BY DEF FutureInv
    <3>3. DOMAIN future = 1 .. Len(future)
      BY <3>1
    <3> QED BY <3>1, <3>2, <3>3, SMTT(30)
  <2>2. main.pc \in {"ready", "enqueue", "create_future", "result", "get_response"}
    BY <2>1, SMTT(30) DEF MainStates
  <2>3. ASSUME NEW i \in DOMAIN future
        PROVE  /\ future[i].state \in FutureStates
               /\ future[i].mqs \in Seq(Ranks) /\ future[i].responses \in Seq(Calls)
               /\ future[i].state = "pending" <=> i = main.current \/ i \in Range(futures_queue)
    <3>1. future[i] \in Wrappers
      BY <2>1, SMTT(30)
    <3>2. future[i].state = "pending" <=> i = main.current \/ i \in Range(futures_queue)
      BY DEF FutureInv, Pending
    <3> QED BY <3>1, <3>2 DEF Wrappers
  <2>4. ASSUME NEW w \in Ranks
        PROVE  /\ worker[w].pc \in {"idle", "running", "dead"}
               /\ worker[w].next \in 1 .. Len(calls) + 1
               /\ async_output_queue[w] \in Seq(Replies) /\ response_mq[w] \in Seq(Replies)
               /\ output_thread[w] \in {"running", "ended"}
    <3>1. worker[w] \in Workers /\ worker[w].next \in 1 .. Len(calls) + 1
          /\ async_output_queue[w] \in Seq(Replies) /\ response_mq[w] \in Seq(Replies)
          /\ output_thread[w] \in {"running", "ended"}
      BY SMTT(30) DEF DataInv
    <3> QED BY <3>1, SMTT(30) DEF Workers
  <2>5. /\ use_async_scheduling \in BOOLEAN /\ abandoned \subseteq Ranks
        /\ closer \in [Threads -> {"out", "begin", "terminate", "cancel", "drop",
                                   "done", "left"}]
    BY SMTT(30) DEF DataInv
  <2> QED BY <2>1, <2>2, <2>3, <2>4, <2>5, ZenonT(30) DEF TypeOK, CallRecords
<1> QED BY <1>1, IInvAlways, PTL

\* FutureWrapper.result drains the futures ahead of it: whatever the callers ask
\* for, in whatever order, no call returns before an earlier one is settled.
THEOREM FuturesAlwaysSettleInOrder == Spec => []FuturesSettleInOrder
<1>1. IInv => FuturesSettleInOrder
  BY SMTT(30) DEF IInv, FutureInv, FuturesSettleInOrder, Pending
<1> QED BY <1>1, IInvAlways, PTL

\* Replies carry no call identifier, yet a call that returns holds one reply of
\* each worker it asked, and each is the reply to itself, unless an earlier caller
\* gave up on that worker or a shutdown has taken the queues away.
THEOREM RepliesAlwaysMatchCalls == Spec => []RepliesMatchCalls
<1>1. IInv => RepliesMatchCalls
  <2> SUFFICES ASSUME DataInv, FutureInv, ReplyInv, NEW i \in DOMAIN future,
                      future[i].state = "result", ~mqs_dropped
               PROVE  /\ future[i].mqs = Asked(i)
                      /\ \A k \in DOMAIN Asked(i) : Asked(i)[k] \in abandoned \/ OwnReply(i, k)
    BY SMTT(30) DEF IInv, RepliesMatchCalls
  <2>1. future[i].mqs = Asked(i) /\ Len(future[i].responses) = Len(future[i].mqs)
    BY SMTT(30) DEF FutureInv, ReplyInv
  <2>2. future[i].responses \in Seq(Calls) /\ future[i].mqs \in Seq(Ranks)
    <3>1. future[i] \in Wrappers
      BY SMTT(30) DEF DataInv
    <3> QED BY <3>1, SMTT(30) DEF Wrappers
  <2>3. DOMAIN future[i].responses = DOMAIN Asked(i)
    BY <2>1, <2>2
  <2> QED BY <2>1, <2>3, SMTT(30) DEF ReplyInv
<1> QED BY <1>1, IInvAlways, PTL
=============================================================================

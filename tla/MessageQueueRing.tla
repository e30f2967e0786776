--------------------------- MODULE MessageQueueRing --------------------------
(***************************************************************************)
(* Type correctness and mutual exclusion of the broadcast queue, for every *)
(* number of readers, chunks and messages, and what the writer's steps do  *)
(* to the messages that are under way.                                     *)
(*                                                                         *)
(* TypeInv adds to TypeOK what the hand-shake and the roles guarantee.     *)
(* RingOK says what keeps the writer and the readers apart: while the      *)
(* writer is inside its chunk the written flag is clear, no read flag is   *)
(* left when it is set, and what a reader has seen of its flags still      *)
(* holds when it enters the chunk.                                         *)
(*                                                                         *)
(* Counted(m) says that m chunks have been marked as written and that      *)
(* every local reader in step agrees: the chunks it finds unread are those *)
(* of the messages it has not consumed, they hold these messages, and its  *)
(* socket holds the payloads of those that overflow, in order.  The        *)
(* writer's mark takes m to m + 1, every other step preserves it.          *)
(***************************************************************************)
EXTENDS MessageQueue, Integers, TLAPS

\* The writer is between enqueue's call and its return.
Enqueuing == {"acquire", "header", "body", "reset", "mark", "send_local", "notify",
              "send_remote"}

\* The messages sent are 1, 2, 3, ...; inside enqueue there is one.
SentOK ==
  /\ Len(sent) <= MaxMessages
  /\ \A i \in 1 .. Len(sent) : sent[i] = i
  /\ writer.pc \in Enqueuing => Len(sent) >= 1
  /\ writer.pc \in {"wait_local", "wait_remote"} => sent = << >>

\* The writer has sent READY to reader r and is alive.
PastHandshake(r) ==
  writer.pc \in {"ready"} \cup Enqueuing
    \/ (r \in LocalReaders /\ writer.pc = "wait_remote")

\* READY comes first in a starting reader's socket and only there; a reader
\* that the writer has passed is subscribed, so nothing sent to it is lost.
HandshakeOf(r) ==
  /\ \A i \in 1 .. Len(socket[r]) :
       IF i = 1 /\ reader[r].pc = "starting" THEN socket[r][i] = READY
       ELSE socket[r][i] \in Messages
  /\ PastHandshake(r) =>
       r \in subscribed /\ (reader[r].pc = "starting" => socket[r] # << >>)
  /\ writer.pc \in {"wait_local", "wait_remote"} /\ ~PastHandshake(r) =>
       socket[r] = << >> /\ reader[r].pc = "starting"

\* The hand-shake of every reader.
HandshakeOK == \A r \in Readers : HandshakeOf(r)

\* Only local readers look at the ring buffer.
RolesOK ==
  \A r \in Readers :
    reader[r].pc \in ReaderPcs \ {"starting", "ready"} => r \in LocalReaders

\* The inductive invariant behind TypeOK.
TypeInv == TypeOK /\ SentOK /\ HandshakeOK /\ RolesOK

\* What the handle fixes.
LEMMA Layout ==
  ASSUME handle \in Handles
  PROVE  LocalReaders \subseteq Readers /\ max_chunks \in Nat \ {0}
BY QueueAssumption DEF LocalReaders, max_chunks

\* The marks in headers and sockets are not messages.
LEMMA Numbers ==
  /\ OVERFLOW \notin Messages \cup {NONE} /\ READY \notin Messages \cup {NONE, OVERFLOW}
  /\ NONE \notin Messages /\ Messages \subseteq Nat
BY QueueAssumption DEF OVERFLOW, READY, NONE, Messages

\* The invariant holds when the queue is created.
LEMMA TypeInvInit == Init => TypeInv
<1> SUFFICES ASSUME Init PROVE TypeInv
  OBVIOUS
<1>1. handle \in Handles /\ LocalReaders \subseteq Readers /\ max_chunks \in Nat \ {0}
  BY Layout DEF Init
<1>2. TypeOK
  BY <1>1, QueueAssumption DEF Init, TypeOK, Chunks, WriterPcs, ReaderPcs, NONE, ReaderStates, WriterStates
<1>3. SentOK /\ HandshakeOK /\ RolesOK
  BY QueueAssumption DEF Init, SentOK, HandshakeOK, HandshakeOf, RolesOK, PastHandshake, Enqueuing, ReaderPcs
<1> QED BY <1>2, <1>3 DEF TypeInv

\* A function changed at one argument.
Put(f, i, x) == [f EXCEPT ![i] = x]

\* Changing a function at one argument keeps its type.
LEMMA PutType == ASSUME NEW D, NEW C, NEW f \in [D -> C], NEW i \in D, NEW x \in C PROVE Put(f, i, x) \in [D -> C]
BY DEF Put

\* A change of a reader's position keeps its type.
LEMMA ReaderPc ==
  ASSUME NEW rd \in [Readers -> ReaderStates], NEW r \in Readers, NEW pc \in ReaderPcs
  PROVE  [rd EXCEPT ![r].pc = pc] \in [Readers -> ReaderStates]
<1> DEFINE x == rd[r]
<1>1. x \in ReaderStates
  OBVIOUS
<1> HIDE DEF x
<1>2. [x EXCEPT !.pc = pc] \in ReaderStates
  BY <1>1 DEF ReaderStates
<1> QED BY <1>2, PutType DEF x, Put

\* check_flags keeps a reader's type.
LEMMA ReaderFlag ==
  ASSUME NEW rd \in [Readers -> ReaderStates], NEW r \in Readers, NEW pc \in ReaderPcs, NEW b \in BOOLEAN
  PROVE  [rd EXCEPT ![r].read_flag = b, ![r].pc = pc] \in [Readers -> ReaderStates]
<1> DEFINE x == rd[r]
<1>1. x \in ReaderStates
  OBVIOUS
<1> HIDE DEF x
<1>2. [x EXCEPT !.read_flag = b, !.pc = pc] \in ReaderStates
  BY <1>1, Zenon DEF ReaderStates
<1> QED BY <1>2, PutType DEF x, Put

\* read_header and read_body keep a reader's type.
LEMMA ReaderHeader ==
  ASSUME NEW rd \in [Readers -> ReaderStates], NEW r \in Readers, NEW pc \in ReaderPcs, NEW h \in Messages \cup {NONE, OVERFLOW}
  PROVE  [rd EXCEPT ![r].header = h, ![r].pc = pc] \in [Readers -> ReaderStates]
<1> DEFINE x == rd[r]
<1>1. x \in ReaderStates
  OBVIOUS
<1> HIDE DEF x
<1>2. [x EXCEPT !.header = h, !.pc = pc] \in ReaderStates
  BY <1>1, Zenon DEF ReaderStates
<1> QED BY <1>2, PutType DEF x, Put

\* mark_read keeps a reader's type.
LEMMA ReaderMoves ==
  ASSUME NEW rd \in [Readers -> ReaderStates], NEW r \in Readers, NEW pc \in ReaderPcs, NEW i \in 0 .. max_chunks - 1
  PROVE  [rd EXCEPT ![r].current_idx = i, ![r].idle = FALSE, ![r].header = NONE, ![r].pc = pc] \in [Readers -> ReaderStates]
<1> DEFINE x == rd[r]
<1>1. x \in ReaderStates
  OBVIOUS
<1> HIDE DEF x
<1>2. [x EXCEPT !.current_idx = i, !.idle = FALSE, !.header = NONE, !.pc = pc] \in ReaderStates
  BY <1>1, Zenon DEF ReaderStates
<1> QED BY <1>2, PutType DEF x, Put

\* recv_timeout keeps a reader's type.
LEMMA ReaderLeaves ==
  ASSUME NEW rd \in [Readers -> ReaderStates], NEW r \in Readers, NEW pc \in ReaderPcs
  PROVE  [rd EXCEPT ![r].pc = pc, ![r].in_step = FALSE] \in [Readers -> ReaderStates]
<1> DEFINE x == rd[r]
<1>1. x \in ReaderStates
  OBVIOUS
<1> HIDE DEF x
<1>2. [x EXCEPT !.pc = pc, !.in_step = FALSE] \in ReaderStates
  BY <1>1, Zenon DEF ReaderStates
<1> QED BY <1>2, PutType DEF x, Put

\* busy_period_ends keeps a reader's type.
LEMMA ReaderIdles ==
  ASSUME NEW rd \in [Readers -> ReaderStates], NEW r \in Readers
  PROVE  [rd EXCEPT ![r].idle = TRUE] \in [Readers -> ReaderStates]
<1> DEFINE x == rd[r]
<1>1. x \in ReaderStates
  OBVIOUS
<1> HIDE DEF x
<1>2. [x EXCEPT !.idle = TRUE] \in ReaderStates
  BY <1>1, Zenon DEF ReaderStates
<1> QED BY <1>2, PutType DEF x, Put

\* shutdown keeps a reader's type.
LEMMA ReaderCloses ==
  ASSUME NEW rd \in [Readers -> ReaderStates], NEW r \in Readers
  PROVE  [rd EXCEPT ![r].shutting_down = TRUE] \in [Readers -> ReaderStates]
<1> DEFINE x == rd[r]
<1>1. x \in ReaderStates
  OBVIOUS
<1> HIDE DEF x
<1>2. [x EXCEPT !.shutting_down = TRUE] \in ReaderStates
  BY <1>1, Zenon DEF ReaderStates
<1> QED BY <1>2, PutType DEF x, Put

\* A write to one field of one chunk keeps the ring's type.
LEMMA RingEdits ==
  ASSUME NEW D, NEW rg \in [D -> Chunks], NEW c \in D
  PROVE  /\ \A b \in BOOLEAN : [rg EXCEPT ![c].written = b] \in [D -> Chunks]
         /\ \A s \in SUBSET LocalReaders : [rg EXCEPT ![c].read = s] \in [D -> Chunks]
         /\ \A h \in Messages \cup {NONE, OVERFLOW} :
              [rg EXCEPT ![c].header = h] \in [D -> Chunks]
         /\ \A d \in Messages \cup {NONE} : [rg EXCEPT ![c].body = d] \in [D -> Chunks]
<1> DEFINE x == rg[c]
<1>1. x \in Chunks
  OBVIOUS
<1> HIDE DEF x
<1>2. /\ \A b \in BOOLEAN : [x EXCEPT !.written = b] \in Chunks
      /\ \A s \in SUBSET LocalReaders : [x EXCEPT !.read = s] \in Chunks
      /\ \A h \in Messages \cup {NONE, OVERFLOW} : [x EXCEPT !.header = h] \in Chunks
      /\ \A d \in Messages \cup {NONE} : [x EXCEPT !.body = d] \in Chunks
  BY <1>1 DEF Chunks
<1> QED BY <1>2, PutType DEF x, Put

\* The writer's assignments keep its type.
LEMMA WriterEdits ==
  ASSUME NEW w \in WriterStates, NEW pc \in WriterPcs
  PROVE  /\ [w EXCEPT !.pc = pc] \in WriterStates
         /\ \A b \in BOOLEAN : [w EXCEPT !.pc = pc, !.overflow = b] \in WriterStates
         /\ \A i \in 0 .. max_chunks - 1 : [w EXCEPT !.current_idx = i, !.pc = pc] \in WriterStates
BY Zenon DEF WriterStates

\* Appending to a sequence.
LEMMA AppendFacts ==
  ASSUME NEW S, NEW s \in Seq(S), NEW x \in S
  PROVE  /\ Append(s, x) \in Seq(S) /\ Append(s, x) # << >>
         /\ Len(Append(s, x)) = Len(s) + 1 /\ Append(s, x)[Len(s) + 1] = x
         /\ \A i \in 1 .. Len(s) : Append(s, x)[i] = s[i]
OBVIOUS

\* Taking the head off a sequence.
LEMMA HeadFacts ==
  ASSUME NEW S, NEW s \in Seq(S), s # << >>
  PROVE  /\ Len(s) \in Nat \ {0} /\ Head(s) = s[1]
         /\ Tail(s) \in Seq(S) /\ Len(Tail(s)) = Len(s) - 1
         /\ \A i \in 1 .. Len(Tail(s)) : Tail(s)[i] = s[i + 1]
<1>1. Len(s) \in Nat \ {0} /\ Head(s) = s[1] /\ Len(Tail(s)) = Len(s) - 1
  OBVIOUS
<1>2. Tail(s) \in Seq(S)
  OBVIOUS
<1>3. \A i \in 1 .. Len(Tail(s)) : Tail(s)[i] = s[i + 1]
  OBVIOUS
<1> QED BY <1>1, <1>2, <1>3

\* A message sent after READY.
LEMMA HandshakeAppend ==
  ASSUME NEW q, NEW m \in Messages, HandshakeOf(q), PastHandshake(q), PastHandshake(q)',
         socket[q] \in Seq(Messages \cup {READY}), socket'[q] = Append(socket[q], m),
         reader' = reader, subscribed' = subscribed
  PROVE  HandshakeOf(q)'
<1>1. /\ Len(socket'[q]) = Len(socket[q]) + 1 /\ socket'[q] # << >> /\ Len(socket[q]) \in Nat
      /\ \A i \in 1 .. Len(socket[q]) : socket'[q][i] = socket[q][i]
      /\ socket'[q][Len(socket[q]) + 1] = m
  BY AppendFacts
<1>2. reader[q].pc = "starting" => Len(socket[q]) # 0
  BY DEF HandshakeOf
<1> QED BY <1>1, <1>2 DEF HandshakeOf

\* READY itself is sent.
LEMMA HandshakeReady ==
  ASSUME NEW q \in subscribed, HandshakeOf(q), ~PastHandshake(q),
         writer.pc \in {"wait_local", "wait_remote"},
         socket'[q] = Append(socket[q], READY), reader' = reader, subscribed' = subscribed,
         PastHandshake(q)'
  PROVE  HandshakeOf(q)'
<1>1. socket[q] = << >> /\ reader[q].pc = "starting"
  BY DEF HandshakeOf
<1>2. /\ Len(socket'[q]) = 1 /\ socket'[q][1] = READY /\ socket'[q] # << >>
  BY <1>1
<1> QED BY <1>1, <1>2 DEF HandshakeOf

\* A reader takes a message off its socket.
LEMMA HandshakeTail ==
  ASSUME NEW q, HandshakeOf(q), socket[q] \in Seq(Messages \cup {READY}), socket[q] # << >>,
         socket'[q] = Tail(socket[q]), reader'[q].pc # "starting",
         writer' = writer, subscribed' = subscribed, LocalReaders' = LocalReaders
  PROVE  HandshakeOf(q)'
<1>1. /\ Len(socket[q]) \in Nat /\ Len(socket'[q]) = Len(socket[q]) - 1
      /\ \A i \in 1 .. Len(socket'[q]) : socket'[q][i] = socket[q][i + 1]
  BY HeadFacts
<1>2. \A i \in 1 .. Len(socket'[q]) : socket'[q][i] \in Messages
  <2> TAKE i \in 1 .. Len(socket'[q])
  <2>1. i + 1 \in 1 .. Len(socket[q]) /\ i + 1 # 1
    BY <1>1
  <2> QED BY <1>1, <2>1 DEF HandshakeOf
<1>3. PastHandshake(q)' <=> PastHandshake(q)
  BY DEF PastHandshake
<1> QED BY <1>2, <1>3 DEF HandshakeOf

\* The layout, and that the next index stays in the ring.
LEMMA LayoutFacts ==
  ASSUME TypeInv
  PROVE  /\ handle \in Handles /\ LocalReaders \subseteq Readers /\ max_chunks \in Nat \ {0}
         /\ \A i \in 0 .. max_chunks - 1 : Next_idx(i) \in 0 .. max_chunks - 1
BY Layout DEF TypeInv, TypeOK, Next_idx

\* wait_until_ready_local preserves the invariant behind TypeOK.
LEMMA Type_wait_until_ready_local ==
  ASSUME TypeInv, wait_until_ready_local
  PROVE  TypeInv'
<1> USE Numbers
<1>LAY. /\ handle \in Handles /\ LocalReaders \subseteq Readers /\ max_chunks \in Nat \ {0}
      /\ \A i \in 0 .. max_chunks - 1 : Next_idx(i) \in 0 .. max_chunks - 1
  BY LayoutFacts
<1> USE <1>LAY DEF wait_until_ready_local, publish, sockets
<1>0. /\ handle' = handle /\ LocalReaders' = LocalReaders /\ max_chunks' = max_chunks
      /\ Chunks' = Chunks /\ WriterStates' = WriterStates /\ ReaderStates' = ReaderStates
  BY DEF LocalReaders, max_chunks, Chunks, WriterStates, ReaderStates
<1>1. TypeOK'
  <2>1. socket' \in [Readers -> Seq(Messages \cup {READY})]
    BY DEF TypeInv, TypeOK, SentOK, Enqueuing, Messages
  <2>2. writer' \in WriterStates
    BY WriterEdits, Zenon DEF TypeInv, TypeOK, WriterPcs
  <2> QED BY <1>0, <2>1, <2>2 DEF TypeInv, TypeOK
<1>2. SentOK'
  BY DEF TypeInv, TypeOK, SentOK, Enqueuing, WriterStates
<1>3. HandshakeOK'
  <2> SUFFICES ASSUME NEW q \in Readers PROVE HandshakeOf(q)'
    BY DEF HandshakeOK
  <2>1. HandshakeOf(q) /\ socket[q] \in Seq(Messages \cup {READY})
    BY DEF TypeInv, TypeOK, HandshakeOK
  <2>2. READY \in Messages \cup {READY} /\ (READY # READY => READY \in Messages)
    BY DEF TypeInv, TypeOK, SentOK, Enqueuing, Messages
  <2>3. CASE q \in LocalReaders \cap subscribed
    <3>1. socket'[q] = Append(socket[q], READY)
      BY <2>3
    <3>2. writer.pc \in {"wait_local", "wait_remote"} /\ ~PastHandshake(q)
      BY <2>3 DEF PastHandshake, Enqueuing, RemoteReaders
    <3>3. PastHandshake(q)'
      BY <1>0, <2>3 DEF TypeInv, TypeOK, WriterStates, PastHandshake, RemoteReaders
    <3> QED BY <2>1, <2>3, <3>1, <3>2, <3>3, HandshakeReady, Zenon
  <2>4. CASE q \notin LocalReaders \cap subscribed
    <3>1. socket'[q] = socket[q]
      BY <2>4
    <3> QED BY <1>0, <2>1, <2>4, <3>1 DEF HandshakeOf, PastHandshake, Enqueuing, RemoteReaders
  <2> QED BY <2>3, <2>4
<1>4. RolesOK'
  BY <1>0 DEF TypeInv, RolesOK
<1> QED BY <1>1, <1>2, <1>3, <1>4 DEF TypeInv

\* wait_until_ready_remote preserves the invariant behind TypeOK.
LEMMA Type_wait_until_ready_remote ==
  ASSUME TypeInv, wait_until_ready_remote
  PROVE  TypeInv'
<1> USE Numbers
<1>LAY. /\ handle \in Handles /\ LocalReaders \subseteq Readers /\ max_chunks \in Nat \ {0}
      /\ \A i \in 0 .. max_chunks - 1 : Next_idx(i) \in 0 .. max_chunks - 1
  BY LayoutFacts
<1> USE <1>LAY DEF wait_until_ready_remote, publish, sockets
<1>0. /\ handle' = handle /\ LocalReaders' = LocalReaders /\ max_chunks' = max_chunks
      /\ Chunks' = Chunks /\ WriterStates' = WriterStates /\ ReaderStates' = ReaderStates
  BY DEF LocalReaders, max_chunks, Chunks, WriterStates, ReaderStates
<1>1. TypeOK'
  <2>1. socket' \in [Readers -> Seq(Messages \cup {READY})]
    BY DEF TypeInv, TypeOK, SentOK, Enqueuing, Messages
  <2>2. writer' \in WriterStates
    BY WriterEdits, Zenon DEF TypeInv, TypeOK, WriterPcs
  <2> QED BY <1>0, <2>1, <2>2 DEF TypeInv, TypeOK
<1>2. SentOK'
  BY DEF TypeInv, TypeOK, SentOK, Enqueuing, WriterStates
<1>3. HandshakeOK'
  <2> SUFFICES ASSUME NEW q \in Readers PROVE HandshakeOf(q)'
    BY DEF HandshakeOK
  <2>1. HandshakeOf(q) /\ socket[q] \in Seq(Messages \cup {READY})
    BY DEF TypeInv, TypeOK, HandshakeOK
  <2>2. READY \in Messages \cup {READY} /\ (READY # READY => READY \in Messages)
    BY DEF TypeInv, TypeOK, SentOK, Enqueuing, Messages
  <2>3. CASE q \in RemoteReaders \cap subscribed
    <3>1. socket'[q] = Append(socket[q], READY)
      BY <2>3
    <3>2. writer.pc \in {"wait_local", "wait_remote"} /\ ~PastHandshake(q)
      BY <2>3 DEF PastHandshake, Enqueuing, RemoteReaders
    <3>3. PastHandshake(q)'
      BY <1>0, <2>3 DEF TypeInv, TypeOK, WriterStates, PastHandshake, RemoteReaders
    <3> QED BY <2>1, <2>3, <3>1, <3>2, <3>3, HandshakeReady, Zenon
  <2>4. CASE q \notin RemoteReaders \cap subscribed
    <3>1. socket'[q] = socket[q]
      BY <2>4
    <3> QED BY <1>0, <2>1, <2>4, <3>1 DEF HandshakeOf, PastHandshake, Enqueuing, RemoteReaders
  <2> QED BY <2>3, <2>4
<1>4. RolesOK'
  BY <1>0 DEF TypeInv, RolesOK
<1> QED BY <1>1, <1>2, <1>3, <1>4 DEF TypeInv

\* enqueue preserves the invariant behind TypeOK.
LEMMA Type_enqueue ==
  ASSUME TypeInv, enqueue
  PROVE  TypeInv'
<1> USE Numbers
<1>LAY. /\ handle \in Handles /\ LocalReaders \subseteq Readers /\ max_chunks \in Nat \ {0}
      /\ \A i \in 0 .. max_chunks - 1 : Next_idx(i) \in 0 .. max_chunks - 1
  BY LayoutFacts
<1> USE <1>LAY DEF enqueue, sockets
<1>0. /\ handle' = handle /\ LocalReaders' = LocalReaders /\ max_chunks' = max_chunks
      /\ Chunks' = Chunks /\ WriterStates' = WriterStates /\ ReaderStates' = ReaderStates
  BY DEF LocalReaders, max_chunks, Chunks, WriterStates, ReaderStates
<1>1. TypeOK'
  <2>1. writer' \in WriterStates
    BY WriterEdits, Zenon DEF TypeInv, TypeOK, WriterPcs
  <2>2. Len(sent) + 1 \in Messages
    BY QueueAssumption DEF TypeInv, TypeOK, Messages
  <2>3. sent' \in Seq(Messages)
    BY <2>2 DEF TypeInv, TypeOK
  <2> QED BY <1>0, <2>1, <2>3 DEF TypeInv, TypeOK
<1>2. SentOK'
  <2>1. /\ Len(sent') = Len(sent) + 1 /\ sent'[Len(sent) + 1] = Len(sent) + 1
        /\ \A i \in 1 .. Len(sent) : sent'[i] = sent[i]
    BY DEF TypeInv, TypeOK
  <2>2. writer'.pc = "acquire"
    BY DEF TypeInv, TypeOK, WriterStates
  <2> QED BY <2>1, <2>2, QueueAssumption DEF TypeInv, TypeOK, SentOK, Enqueuing
<1>3. HandshakeOK'
  BY <1>0 DEF TypeInv, TypeOK, SentOK, HandshakeOK, HandshakeOf, PastHandshake, Enqueuing, RemoteReaders, Messages, WriterStates
<1>4. RolesOK'
  BY <1>0 DEF TypeInv, RolesOK
<1> QED BY <1>1, <1>2, <1>3, <1>4 DEF TypeInv

\* acquire_write preserves the invariant behind TypeOK.
LEMMA Type_acquire_write ==
  ASSUME TypeInv, acquire_write
  PROVE  TypeInv'
<1> USE Numbers
<1>LAY. /\ handle \in Handles /\ LocalReaders \subseteq Readers /\ max_chunks \in Nat \ {0}
      /\ \A i \in 0 .. max_chunks - 1 : Next_idx(i) \in 0 .. max_chunks - 1
  BY LayoutFacts
<1> USE <1>LAY DEF acquire_write, Acquire, sockets
<1>0. /\ handle' = handle /\ LocalReaders' = LocalReaders /\ max_chunks' = max_chunks
      /\ Chunks' = Chunks /\ WriterStates' = WriterStates /\ ReaderStates' = ReaderStates
  BY DEF LocalReaders, max_chunks, Chunks, WriterStates, ReaderStates
<1>1. TypeOK'
  <2>1. writer.current_idx \in 0 .. max_chunks - 1 /\ ring \in [0 .. max_chunks - 1 -> Chunks]
    BY DEF TypeInv, TypeOK, WriterStates, ReaderStates
  <2>2. ring' \in [0 .. max_chunks - 1 -> Chunks]
    BY <2>1, RingEdits, Zenon
  <2>3. writer' \in WriterStates
    BY WriterEdits, Zenon DEF TypeInv, TypeOK, WriterPcs
  <2> QED BY <1>0, <2>1, <2>2, <2>3 DEF TypeInv, TypeOK
<1>2. SentOK'
  BY DEF TypeInv, TypeOK, SentOK, Enqueuing, WriterStates
<1>3. HandshakeOK'
  BY <1>0 DEF TypeInv, TypeOK, SentOK, HandshakeOK, HandshakeOf, PastHandshake, Enqueuing, RemoteReaders, Messages, WriterStates
<1>4. RolesOK'
  BY <1>0 DEF TypeInv, RolesOK
<1> QED BY <1>1, <1>2, <1>3, <1>4 DEF TypeInv

\* write_header preserves the invariant behind TypeOK.
LEMMA Type_write_header ==
  ASSUME TypeInv, write_header
  PROVE  TypeInv'
<1> USE Numbers
<1>LAY. /\ handle \in Handles /\ LocalReaders \subseteq Readers /\ max_chunks \in Nat \ {0}
      /\ \A i \in 0 .. max_chunks - 1 : Next_idx(i) \in 0 .. max_chunks - 1
  BY LayoutFacts
<1> USE <1>LAY DEF write_header, sockets
<1>0. /\ handle' = handle /\ LocalReaders' = LocalReaders /\ max_chunks' = max_chunks
      /\ Chunks' = Chunks /\ WriterStates' = WriterStates /\ ReaderStates' = ReaderStates
  BY DEF LocalReaders, max_chunks, Chunks, WriterStates, ReaderStates
<1>1. TypeOK'
  <2>1. writer.current_idx \in 0 .. max_chunks - 1 /\ ring \in [0 .. max_chunks - 1 -> Chunks]
    BY DEF TypeInv, TypeOK, WriterStates, ReaderStates
  <2>2. (IF writer.overflow THEN OVERFLOW ELSE Len(sent)) \in Messages \cup {NONE, OVERFLOW}
    BY <2>1 DEF TypeInv, TypeOK, SentOK, Enqueuing, Messages, RolesOK, ReaderPcs, Chunks
  <2>3. ring' \in [0 .. max_chunks - 1 -> Chunks]
    BY <2>1, <2>2, RingEdits
  <2>4. writer' \in WriterStates
    BY WriterEdits, Zenon DEF TypeInv, TypeOK, WriterPcs
  <2> QED BY <1>0, <2>1, <2>2, <2>3, <2>4 DEF TypeInv, TypeOK
<1>2. SentOK'
  BY DEF TypeInv, TypeOK, SentOK, Enqueuing, WriterStates
<1>3. HandshakeOK'
  BY <1>0 DEF TypeInv, TypeOK, SentOK, HandshakeOK, HandshakeOf, PastHandshake, Enqueuing, RemoteReaders, Messages, WriterStates
<1>4. RolesOK'
  BY <1>0 DEF TypeInv, RolesOK
<1> QED BY <1>1, <1>2, <1>3, <1>4 DEF TypeInv

\* write_body preserves the invariant behind TypeOK.
LEMMA Type_write_body ==
  ASSUME TypeInv, write_body
  PROVE  TypeInv'
<1> USE Numbers
<1>LAY. /\ handle \in Handles /\ LocalReaders \subseteq Readers /\ max_chunks \in Nat \ {0}
      /\ \A i \in 0 .. max_chunks - 1 : Next_idx(i) \in 0 .. max_chunks - 1
  BY LayoutFacts
<1> USE <1>LAY DEF write_body, sockets
<1>0. /\ handle' = handle /\ LocalReaders' = LocalReaders /\ max_chunks' = max_chunks
      /\ Chunks' = Chunks /\ WriterStates' = WriterStates /\ ReaderStates' = ReaderStates
  BY DEF LocalReaders, max_chunks, Chunks, WriterStates, ReaderStates
<1>1. TypeOK'
  <2>1. writer.current_idx \in 0 .. max_chunks - 1 /\ ring \in [0 .. max_chunks - 1 -> Chunks]
    BY DEF TypeInv, TypeOK, WriterStates, ReaderStates
  <2>2. Len(sent) \in Messages \cup {NONE}
    BY <2>1 DEF TypeInv, TypeOK, SentOK, Enqueuing, Messages, RolesOK, ReaderPcs, Chunks
  <2>3. ring' \in [0 .. max_chunks - 1 -> Chunks]
    BY <2>1, <2>2, RingEdits
  <2>4. writer' \in WriterStates
    BY WriterEdits, Zenon DEF TypeInv, TypeOK, WriterPcs
  <2> QED BY <1>0, <2>1, <2>2, <2>3, <2>4 DEF TypeInv, TypeOK
<1>2. SentOK'
  BY DEF TypeInv, TypeOK, SentOK, Enqueuing, WriterStates
<1>3. HandshakeOK'
  BY <1>0 DEF TypeInv, TypeOK, SentOK, HandshakeOK, HandshakeOf, PastHandshake, Enqueuing, RemoteReaders, Messages, WriterStates
<1>4. RolesOK'
  BY <1>0 DEF TypeInv, RolesOK
<1> QED BY <1>1, <1>2, <1>3, <1>4 DEF TypeInv

\* reset_read_flags preserves the invariant behind TypeOK.
LEMMA Type_reset_read_flags ==
  ASSUME TypeInv, reset_read_flags
  PROVE  TypeInv'
<1> USE Numbers
<1>LAY. /\ handle \in Handles /\ LocalReaders \subseteq Readers /\ max_chunks \in Nat \ {0}
      /\ \A i \in 0 .. max_chunks - 1 : Next_idx(i) \in 0 .. max_chunks - 1
  BY LayoutFacts
<1> USE <1>LAY DEF reset_read_flags, sockets
<1>0. /\ handle' = handle /\ LocalReaders' = LocalReaders /\ max_chunks' = max_chunks
      /\ Chunks' = Chunks /\ WriterStates' = WriterStates /\ ReaderStates' = ReaderStates
  BY DEF LocalReaders, max_chunks, Chunks, WriterStates, ReaderStates
<1>1. TypeOK'
  <2>1. writer.current_idx \in 0 .. max_chunks - 1 /\ ring \in [0 .. max_chunks - 1 -> Chunks]
    BY DEF TypeInv, TypeOK, WriterStates, ReaderStates
  <2>2. /\ (IF ring[writer.current_idx].read = {} THEN {}
             ELSE ring[writer.current_idx].read \ {Min(ring[writer.current_idx].read)})
               \in SUBSET LocalReaders
    BY <2>1 DEF Chunks
  <2>3. ring' \in [0 .. max_chunks - 1 -> Chunks]
    <3> DEFINE left == IF ring[writer.current_idx].read = {} THEN {}
                       ELSE ring[writer.current_idx].read \ {Min(ring[writer.current_idx].read)}
    <3>1. left \in SUBSET LocalReaders /\ ring' = [ring EXCEPT ![writer.current_idx].read = left]
      BY <2>2
    <3>2. \A s \in SUBSET LocalReaders :
            [ring EXCEPT ![writer.current_idx].read = s] \in [0 .. max_chunks - 1 -> Chunks]
      BY <2>1, RingEdits, Zenon
    <3> HIDE DEF left
    <3> QED BY <3>1, <3>2, Zenon
  <2>4. writer' \in WriterStates
    BY WriterEdits, Zenon DEF TypeInv, TypeOK, WriterPcs
  <2> QED BY <1>0, <2>1, <2>2, <2>3, <2>4 DEF TypeInv, TypeOK
<1>2. SentOK'
  BY DEF TypeInv, TypeOK, SentOK, Enqueuing, WriterStates
<1>3. HandshakeOK'
  BY <1>0 DEF TypeInv, TypeOK, SentOK, HandshakeOK, HandshakeOf, PastHandshake, Enqueuing, RemoteReaders, Messages, WriterStates
<1>4. RolesOK'
  BY <1>0 DEF TypeInv, RolesOK
<1> QED BY <1>1, <1>2, <1>3, <1>4 DEF TypeInv

\* mark_written preserves the invariant behind TypeOK.
LEMMA Type_mark_written ==
  ASSUME TypeInv, mark_written
  PROVE  TypeInv'
<1> USE Numbers
<1>LAY. /\ handle \in Handles /\ LocalReaders \subseteq Readers /\ max_chunks \in Nat \ {0}
      /\ \A i \in 0 .. max_chunks - 1 : Next_idx(i) \in 0 .. max_chunks - 1
  BY LayoutFacts
<1> USE <1>LAY DEF mark_written, MarkWritten, sockets
<1>0. /\ handle' = handle /\ LocalReaders' = LocalReaders /\ max_chunks' = max_chunks
      /\ Chunks' = Chunks /\ WriterStates' = WriterStates /\ ReaderStates' = ReaderStates
  BY DEF LocalReaders, max_chunks, Chunks, WriterStates, ReaderStates
<1>1. TypeOK'
  <2>1. writer.current_idx \in 0 .. max_chunks - 1 /\ ring \in [0 .. max_chunks - 1 -> Chunks]
    BY DEF TypeInv, TypeOK, WriterStates, ReaderStates
  <2>2. ring' \in [0 .. max_chunks - 1 -> Chunks]
    BY <2>1, RingEdits, Zenon
  <2>3. writer' \in WriterStates
    <3>1. Next_idx(writer.current_idx) \in 0 .. max_chunks - 1
      BY <2>1
    <3> QED BY <3>1, WriterEdits, Zenon DEF TypeInv, TypeOK, WriterPcs
  <2> QED BY <1>0, <2>1, <2>2, <2>3 DEF TypeInv, TypeOK
<1>2. SentOK'
  BY DEF TypeInv, TypeOK, SentOK, Enqueuing, WriterStates
<1>3. HandshakeOK'
  BY <1>0 DEF TypeInv, TypeOK, SentOK, HandshakeOK, HandshakeOf, PastHandshake, Enqueuing, RemoteReaders, Messages, WriterStates
<1>4. RolesOK'
  BY <1>0 DEF TypeInv, RolesOK
<1> QED BY <1>1, <1>2, <1>3, <1>4 DEF TypeInv

\* send_overflow preserves the invariant behind TypeOK.
LEMMA Type_send_overflow ==
  ASSUME TypeInv, send_overflow
  PROVE  TypeInv'
<1> USE Numbers
<1>LAY. /\ handle \in Handles /\ LocalReaders \subseteq Readers /\ max_chunks \in Nat \ {0}
      /\ \A i \in 0 .. max_chunks - 1 : Next_idx(i) \in 0 .. max_chunks - 1
  BY LayoutFacts
<1> USE <1>LAY DEF send_overflow, publish, sockets
<1>0. /\ handle' = handle /\ LocalReaders' = LocalReaders /\ max_chunks' = max_chunks
      /\ Chunks' = Chunks /\ WriterStates' = WriterStates /\ ReaderStates' = ReaderStates
  BY DEF LocalReaders, max_chunks, Chunks, WriterStates, ReaderStates
<1>1. TypeOK'
  <2>1. socket' \in [Readers -> Seq(Messages \cup {READY})]
    BY DEF TypeInv, TypeOK, SentOK, Enqueuing, Messages
  <2>2. writer' \in WriterStates
    BY WriterEdits, Zenon DEF TypeInv, TypeOK, WriterPcs
  <2> QED BY <1>0, <2>1, <2>2 DEF TypeInv, TypeOK
<1>2. SentOK'
  BY DEF TypeInv, TypeOK, SentOK, Enqueuing, WriterStates
<1>3. HandshakeOK'
  <2> SUFFICES ASSUME NEW q \in Readers PROVE HandshakeOf(q)'
    BY DEF HandshakeOK
  <2>1. HandshakeOf(q) /\ socket[q] \in Seq(Messages \cup {READY})
    BY DEF TypeInv, TypeOK, HandshakeOK
  <2>2. Len(sent) \in Messages \cup {READY} /\ (Len(sent) # READY => Len(sent) \in Messages)
    BY DEF TypeInv, TypeOK, SentOK, Enqueuing, Messages
  <2>3. CASE q \in LocalReaders \cap subscribed
    <3>1. socket'[q] = Append(socket[q], Len(sent))
      BY <2>3
    <3>2. Len(sent) \in Messages /\ PastHandshake(q) /\ PastHandshake(q)'
      <4>1. Len(sent) \in Messages
        BY DEF TypeInv, TypeOK, SentOK, Enqueuing, Messages
      <4>2. writer'.pc \in {"ready"} \cup Enqueuing /\ writer.pc \in Enqueuing
        BY DEF TypeInv, TypeOK, WriterStates, Enqueuing
      <4> QED BY <4>1, <4>2 DEF PastHandshake
    <3> QED BY <2>1, <3>1, <3>2, HandshakeAppend, Zenon
  <2>4. CASE q \notin LocalReaders \cap subscribed
    <3>1. socket'[q] = socket[q]
      BY <2>4
    <3> QED BY <1>0, <2>1, <2>4, <3>1 DEF HandshakeOf, PastHandshake, Enqueuing, RemoteReaders
  <2> QED BY <2>3, <2>4
<1>4. RolesOK'
  BY <1>0 DEF TypeInv, RolesOK
<1> QED BY <1>1, <1>2, <1>3, <1>4 DEF TypeInv

\* notify preserves the invariant behind TypeOK.
LEMMA Type_notify ==
  ASSUME TypeInv, notify
  PROVE  TypeInv'
<1> USE Numbers
<1>LAY. /\ handle \in Handles /\ LocalReaders \subseteq Readers /\ max_chunks \in Nat \ {0}
      /\ \A i \in 0 .. max_chunks - 1 : Next_idx(i) \in 0 .. max_chunks - 1
  BY LayoutFacts
<1> USE <1>LAY DEF notify, Notify, sockets
<1>0. /\ handle' = handle /\ LocalReaders' = LocalReaders /\ max_chunks' = max_chunks
      /\ Chunks' = Chunks /\ WriterStates' = WriterStates /\ ReaderStates' = ReaderStates
  BY DEF LocalReaders, max_chunks, Chunks, WriterStates, ReaderStates
<1>1. TypeOK'
  <2>1. writer' \in WriterStates
    BY WriterEdits, Zenon DEF TypeInv, TypeOK, WriterPcs
  <2> QED BY <1>0, <2>1 DEF TypeInv, TypeOK
<1>2. SentOK'
  BY DEF TypeInv, TypeOK, SentOK, Enqueuing, WriterStates
<1>3. HandshakeOK'
  BY <1>0 DEF TypeInv, TypeOK, SentOK, HandshakeOK, HandshakeOf, PastHandshake, Enqueuing, RemoteReaders, Messages, WriterStates
<1>4. RolesOK'
  BY <1>0 DEF TypeInv, RolesOK
<1> QED BY <1>1, <1>2, <1>3, <1>4 DEF TypeInv

\* send_remote preserves the invariant behind TypeOK.
LEMMA Type_send_remote ==
  ASSUME TypeInv, send_remote
  PROVE  TypeInv'
<1> USE Numbers
<1>LAY. /\ handle \in Handles /\ LocalReaders \subseteq Readers /\ max_chunks \in Nat \ {0}
      /\ \A i \in 0 .. max_chunks - 1 : Next_idx(i) \in 0 .. max_chunks - 1
  BY LayoutFacts
<1> USE <1>LAY DEF send_remote, publish, sockets
<1>0. /\ handle' = handle /\ LocalReaders' = LocalReaders /\ max_chunks' = max_chunks
      /\ Chunks' = Chunks /\ WriterStates' = WriterStates /\ ReaderStates' = ReaderStates
  BY DEF LocalReaders, max_chunks, Chunks, WriterStates, ReaderStates
<1>1. TypeOK'
  <2>1. socket' \in [Readers -> Seq(Messages \cup {READY})]
    BY DEF TypeInv, TypeOK, SentOK, Enqueuing, Messages
  <2>2. writer' \in WriterStates
    BY WriterEdits, Zenon DEF TypeInv, TypeOK, WriterPcs
  <2> QED BY <1>0, <2>1, <2>2 DEF TypeInv, TypeOK
<1>2. SentOK'
  BY DEF TypeInv, TypeOK, SentOK, Enqueuing, WriterStates
<1>3. HandshakeOK'
  <2> SUFFICES ASSUME NEW q \in Readers PROVE HandshakeOf(q)'
    BY DEF HandshakeOK
  <2>1. HandshakeOf(q) /\ socket[q] \in Seq(Messages \cup {READY})
    BY DEF TypeInv, TypeOK, HandshakeOK
  <2>2. Len(sent) \in Messages \cup {READY} /\ (Len(sent) # READY => Len(sent) \in Messages)
    BY DEF TypeInv, TypeOK, SentOK, Enqueuing, Messages
  <2>3. CASE q \in RemoteReaders \cap subscribed
    <3>1. socket'[q] = Append(socket[q], Len(sent))
      BY <2>3
    <3>2. Len(sent) \in Messages /\ PastHandshake(q) /\ PastHandshake(q)'
      <4>1. Len(sent) \in Messages
        BY DEF TypeInv, TypeOK, SentOK, Enqueuing, Messages
      <4>2. writer'.pc \in {"ready"} \cup Enqueuing /\ writer.pc \in Enqueuing
        BY DEF TypeInv, TypeOK, WriterStates, Enqueuing
      <4> QED BY <4>1, <4>2 DEF PastHandshake
    <3> QED BY <2>1, <3>1, <3>2, HandshakeAppend, Zenon
  <2>4. CASE q \notin RemoteReaders \cap subscribed
    <3>1. socket'[q] = socket[q]
      BY <2>4
    <3> QED BY <1>0, <2>1, <2>4, <3>1 DEF HandshakeOf, PastHandshake, Enqueuing, RemoteReaders
  <2> QED BY <2>3, <2>4
<1>4. RolesOK'
  BY <1>0 DEF TypeInv, RolesOK
<1> QED BY <1>1, <1>2, <1>3, <1>4 DEF TypeInv

\* writer_dies preserves the invariant behind TypeOK.
LEMMA Type_writer_dies ==
  ASSUME TypeInv, writer_dies
  PROVE  TypeInv'
<1> USE Numbers
<1>LAY. /\ handle \in Handles /\ LocalReaders \subseteq Readers /\ max_chunks \in Nat \ {0}
      /\ \A i \in 0 .. max_chunks - 1 : Next_idx(i) \in 0 .. max_chunks - 1
  BY LayoutFacts
<1> USE <1>LAY DEF writer_dies, sockets
<1>0. /\ handle' = handle /\ LocalReaders' = LocalReaders /\ max_chunks' = max_chunks
      /\ Chunks' = Chunks /\ WriterStates' = WriterStates /\ ReaderStates' = ReaderStates
  BY DEF LocalReaders, max_chunks, Chunks, WriterStates, ReaderStates
<1>1. TypeOK'
  <2>1. writer' \in WriterStates
    BY WriterEdits, Zenon DEF TypeInv, TypeOK, WriterPcs
  <2> QED BY <1>0, <2>1 DEF TypeInv, TypeOK
<1>2. SentOK'
  BY DEF TypeInv, TypeOK, SentOK, Enqueuing, WriterStates
<1>3. HandshakeOK'
  BY <1>0 DEF TypeInv, TypeOK, SentOK, HandshakeOK, HandshakeOf, PastHandshake, Enqueuing, RemoteReaders, Messages, WriterStates
<1>4. RolesOK'
  BY <1>0 DEF TypeInv, RolesOK
<1> QED BY <1>1, <1>2, <1>3, <1>4 DEF TypeInv

\* wait_until_ready_reader preserves the invariant behind TypeOK.
LEMMA Type_wait_until_ready_reader ==
  ASSUME TypeInv, NEW r \in Readers, wait_until_ready_reader(r)
  PROVE  TypeInv'
<1> USE Numbers
<1>LAY. /\ handle \in Handles /\ LocalReaders \subseteq Readers /\ max_chunks \in Nat \ {0}
      /\ \A i \in 0 .. max_chunks - 1 : Next_idx(i) \in 0 .. max_chunks - 1
  BY LayoutFacts
<1> USE <1>LAY DEF wait_until_ready_reader, Goto, sockets
<1>0. /\ handle' = handle /\ LocalReaders' = LocalReaders /\ max_chunks' = max_chunks
      /\ Chunks' = Chunks /\ WriterStates' = WriterStates /\ ReaderStates' = ReaderStates
  BY DEF LocalReaders, max_chunks, Chunks, WriterStates, ReaderStates
<1>1. TypeOK'
  <2>1. reader' \in [Readers -> ReaderStates]
    <3>1. Head(socket[r]) = READY
      BY HeadFacts, SMTT(30) DEF TypeInv, TypeOK, HandshakeOK, HandshakeOf
    <3> QED BY <3>1, ReaderPc, Zenon DEF TypeInv, TypeOK, ReaderPcs
  <2>2. socket' \in [Readers -> Seq(Messages \cup {READY})]
    BY DEF TypeInv, TypeOK, SentOK, Enqueuing, Messages
  <2> QED BY <1>0, <2>1, <2>2 DEF TypeInv, TypeOK
<1>2. SentOK'
  BY DEF TypeInv, SentOK
<1>3. HandshakeOK'
  <2> SUFFICES ASSUME NEW q \in Readers PROVE HandshakeOf(q)'
    BY DEF HandshakeOK
  <2>1. HandshakeOf(q) /\ socket[q] \in Seq(Messages \cup {READY})
    BY DEF TypeInv, TypeOK, HandshakeOK
  <2>2. CASE q = r
    <3>1. reader'[r].pc # "starting"
      BY DEF TypeInv, TypeOK, ReaderStates
    <3>2. socket'[r] = Tail(socket[r])
      BY DEF TypeInv, TypeOK
    <3> QED BY <1>0, <2>1, <2>2, <3>1, <3>2, HandshakeTail
  <2>3. CASE q # r
    <3>1. socket'[q] = socket[q] /\ reader'[q] = reader[q]
      BY <2>3 DEF TypeInv, TypeOK
    <3> QED BY <1>0, <2>1, <3>1, Zenon DEF HandshakeOf, PastHandshake
  <2> QED BY <2>2, <2>3
<1>4. RolesOK'
  BY <1>0 DEF TypeInv, TypeOK, RolesOK, ReaderPcs, ReaderStates
<1> QED BY <1>1, <1>2, <1>3, <1>4 DEF TypeInv

\* check_flags preserves the invariant behind TypeOK.
LEMMA Type_check_flags ==
  ASSUME TypeInv, NEW r \in Readers, check_flags(r)
  PROVE  TypeInv'
<1> USE Numbers
<1>LAY. /\ handle \in Handles /\ LocalReaders \subseteq Readers /\ max_chunks \in Nat \ {0}
      /\ \A i \in 0 .. max_chunks - 1 : Next_idx(i) \in 0 .. max_chunks - 1
  BY LayoutFacts
<1> USE <1>LAY DEF check_flags, sockets
<1>0. /\ handle' = handle /\ LocalReaders' = LocalReaders /\ max_chunks' = max_chunks
      /\ Chunks' = Chunks /\ WriterStates' = WriterStates /\ ReaderStates' = ReaderStates
  BY DEF LocalReaders, max_chunks, Chunks, WriterStates, ReaderStates
<1>a. /\ reader[r].pc \in {"ready", "written_flag"}
      /\ \E b \in BOOLEAN, pc \in {"written_flag", "wait", "header"} :
           reader' = [reader EXCEPT ![r].read_flag = b, ![r].pc = pc]
  <2>1. CASE reader[r].pc = "ready"
    <3>1. (r \in ring[reader[r].current_idx].read) \in BOOLEAN
      OBVIOUS
    <3> QED BY <2>1, <3>1, Zenon
  <2>2. CASE reader[r].pc = "written_flag"
    BY <2>2, Zenon
  <2> QED BY <2>1, <2>2, Zenon
<1>1. TypeOK'
  <2>1. reader' \in [Readers -> ReaderStates]
    <3>1. \E b \in BOOLEAN, pc \in ReaderPcs :
            reader' = [reader EXCEPT ![r].read_flag = b, ![r].pc = pc]
      BY <1>a, Zenon DEF ReaderPcs
    <3>2. PICK b \in BOOLEAN, pc \in ReaderPcs :
            reader' = [reader EXCEPT ![r].read_flag = b, ![r].pc = pc]
      BY <3>1, Zenon
    <3>3. reader \in [Readers -> ReaderStates]
      BY DEF TypeInv, TypeOK
    <3> QED BY <3>2, <3>3, ReaderFlag, Zenon
  <2> QED BY <1>0, <2>1 DEF TypeInv, TypeOK
<1>2. SentOK'
  BY DEF TypeInv, SentOK
<1>3. HandshakeOK'
  <2>1. \A q \in Readers : reader'[q].pc = "starting" <=> reader[q].pc = "starting"
    <3>1. PICK b \in BOOLEAN, pc \in {"written_flag", "wait", "header"} :
            reader' = [reader EXCEPT ![r].read_flag = b, ![r].pc = pc]
      BY <1>a, Zenon
    <3>2. reader'[r].pc = pc /\ \A q \in Readers \ {r} : reader'[q] = reader[q]
      BY <3>1 DEF TypeInv, TypeOK, ReaderStates
    <3> QED BY <1>a, <3>2, Zenon
  <2> QED BY <1>0, <2>1 DEF TypeInv, TypeOK, HandshakeOK, HandshakeOf, PastHandshake, Enqueuing
<1>4. RolesOK'
  BY <1>0, Zenon DEF TypeInv, TypeOK, RolesOK, ReaderPcs, ReaderStates
<1> QED BY <1>1, <1>2, <1>3, <1>4 DEF TypeInv

\* read_header preserves the invariant behind TypeOK.
LEMMA Type_read_header ==
  ASSUME TypeInv, NEW r \in Readers, read_header(r)
  PROVE  TypeInv'
<1> USE Numbers
<1>LAY. /\ handle \in Handles /\ LocalReaders \subseteq Readers /\ max_chunks \in Nat \ {0}
      /\ \A i \in 0 .. max_chunks - 1 : Next_idx(i) \in 0 .. max_chunks - 1
  BY LayoutFacts
<1> USE <1>LAY DEF read_header, sockets
<1>0. /\ handle' = handle /\ LocalReaders' = LocalReaders /\ max_chunks' = max_chunks
      /\ Chunks' = Chunks /\ WriterStates' = WriterStates /\ ReaderStates' = ReaderStates
  BY DEF LocalReaders, max_chunks, Chunks, WriterStates, ReaderStates
<1>1. TypeOK'
  <2>1. reader' \in [Readers -> ReaderStates]
    <3>1. ring[reader[r].current_idx].header \in Messages \cup {NONE, OVERFLOW}
      BY DEF TypeInv, TypeOK, ReaderStates, Chunks
    <3> QED BY <3>1, ReaderHeader, ZenonT(30) DEF TypeInv, TypeOK, ReaderPcs
  <2> QED BY <1>0, <2>1 DEF TypeInv, TypeOK
<1>2. SentOK'
  BY DEF TypeInv, SentOK
<1>3. HandshakeOK'
  BY <1>0 DEF TypeInv, TypeOK, HandshakeOK, HandshakeOf, PastHandshake, Enqueuing, ReaderStates
<1>4. RolesOK'
  BY <1>0, Zenon DEF TypeInv, TypeOK, RolesOK, ReaderPcs, ReaderStates
<1> QED BY <1>1, <1>2, <1>3, <1>4 DEF TypeInv

\* read_body preserves the invariant behind TypeOK.
LEMMA Type_read_body ==
  ASSUME TypeInv, NEW r \in Readers, read_body(r)
  PROVE  TypeInv'
<1> USE Numbers
<1>LAY. /\ handle \in Handles /\ LocalReaders \subseteq Readers /\ max_chunks \in Nat \ {0}
      /\ \A i \in 0 .. max_chunks - 1 : Next_idx(i) \in 0 .. max_chunks - 1
  BY LayoutFacts
<1> USE <1>LAY DEF read_body, sockets
<1>0. /\ handle' = handle /\ LocalReaders' = LocalReaders /\ max_chunks' = max_chunks
      /\ Chunks' = Chunks /\ WriterStates' = WriterStates /\ ReaderStates' = ReaderStates
  BY DEF LocalReaders, max_chunks, Chunks, WriterStates, ReaderStates
<1>1. TypeOK'
  <2>1. reader' \in [Readers -> ReaderStates]
    <3>1. reader[r].header \in Messages \cup {NONE, OVERFLOW}
      BY DEF TypeInv, TypeOK, ReaderStates
    <3> QED BY <3>1, ReaderHeader, ZenonT(30) DEF TypeInv, TypeOK, ReaderPcs
  <2> QED BY <1>0, <2>1 DEF TypeInv, TypeOK
<1>2. SentOK'
  BY DEF TypeInv, SentOK
<1>3. HandshakeOK'
  BY <1>0 DEF TypeInv, TypeOK, HandshakeOK, HandshakeOf, PastHandshake, Enqueuing, ReaderStates
<1>4. RolesOK'
  BY <1>0 DEF TypeInv, TypeOK, RolesOK, ReaderPcs, ReaderStates
<1> QED BY <1>1, <1>2, <1>3, <1>4 DEF TypeInv

\* mark_read preserves the invariant behind TypeOK.
LEMMA Type_mark_read ==
  ASSUME TypeInv, NEW r \in Readers, mark_read(r)
  PROVE  TypeInv'
<1> USE Numbers
<1>LAY. /\ handle \in Handles /\ LocalReaders \subseteq Readers /\ max_chunks \in Nat \ {0}
      /\ \A i \in 0 .. max_chunks - 1 : Next_idx(i) \in 0 .. max_chunks - 1
  BY LayoutFacts
<1> USE <1>LAY DEF mark_read, sockets
<1>0. /\ handle' = handle /\ LocalReaders' = LocalReaders /\ max_chunks' = max_chunks
      /\ Chunks' = Chunks /\ WriterStates' = WriterStates /\ ReaderStates' = ReaderStates
  BY DEF LocalReaders, max_chunks, Chunks, WriterStates, ReaderStates
<1>1. TypeOK'
  <2>1. reader[r].current_idx \in 0 .. max_chunks - 1 /\ ring \in [0 .. max_chunks - 1 -> Chunks]
    BY DEF TypeInv, TypeOK, WriterStates, ReaderStates
  <2>2. ring[reader[r].current_idx].read \cup {r} \in SUBSET LocalReaders
    BY <2>1, Zenon DEF TypeInv, TypeOK, SentOK, Enqueuing, Messages, RolesOK, ReaderPcs, Chunks
  <2>3. ring' \in [0 .. max_chunks - 1 -> Chunks]
    BY <2>1, <2>2, RingEdits, Zenon
  <2>4. reader' \in [Readers -> ReaderStates]
    <3>1. Next_idx(reader[r].current_idx) \in 0 .. max_chunks - 1
      BY <2>1
    <3>2. \E i \in 0 .. max_chunks - 1, pc \in ReaderPcs :
            reader' = [reader EXCEPT ![r].current_idx = i, ![r].idle = FALSE,
                                     ![r].header = NONE, ![r].pc = pc]
      BY <3>1, Zenon DEF ReaderPcs
    <3>3. PICK i \in 0 .. max_chunks - 1, pc \in ReaderPcs :
            reader' = [reader EXCEPT ![r].current_idx = i, ![r].idle = FALSE,
                                     ![r].header = NONE, ![r].pc = pc]
      BY <3>2, Zenon
    <3>4. reader \in [Readers -> ReaderStates]
      BY DEF TypeInv, TypeOK
    <3> HIDE DEF mark_read
    <3> QED BY <3>3, <3>4, ReaderMoves, Zenon
  <2>5. received' \in [Readers -> Seq(Messages \cup {NONE})]
    <3>1. reader[r].header \in Messages \cup {NONE, OVERFLOW}
      BY DEF TypeInv, TypeOK, ReaderStates
    <3>2. \A m \in Messages \cup {NONE} :
            [received EXCEPT ![r] = Append(@, m)] \in [Readers -> Seq(Messages \cup {NONE})]
      BY DEF TypeInv, TypeOK
    <3> QED BY <3>1, <3>2 DEF TypeInv, TypeOK
  <2> QED BY <1>0, <2>1, <2>2, <2>3, <2>4, <2>5, SMTT(30) DEF TypeInv, TypeOK
<1>2. SentOK'
  BY DEF TypeInv, SentOK
<1>3. HandshakeOK'
  BY <1>0, SMTT(30) DEF TypeInv, TypeOK, HandshakeOK, HandshakeOf, PastHandshake, Enqueuing, ReaderStates
<1>4. RolesOK'
  BY <1>0 DEF TypeInv, TypeOK, RolesOK, ReaderPcs, ReaderStates
<1> QED BY <1>1, <1>2, <1>3, <1>4 DEF TypeInv

\* recv preserves the invariant behind TypeOK.
LEMMA Type_recv ==
  ASSUME TypeInv, NEW r \in Readers, recv(r)
  PROVE  TypeInv'
<1> USE Numbers
<1>LAY. /\ handle \in Handles /\ LocalReaders \subseteq Readers /\ max_chunks \in Nat \ {0}
      /\ \A i \in 0 .. max_chunks - 1 : Next_idx(i) \in 0 .. max_chunks - 1
  BY LayoutFacts
<1> USE <1>LAY DEF recv, InRecv, return, Goto, sockets
<1>0. /\ handle' = handle /\ LocalReaders' = LocalReaders /\ max_chunks' = max_chunks
      /\ Chunks' = Chunks /\ WriterStates' = WriterStates /\ ReaderStates' = ReaderStates
  BY DEF LocalReaders, max_chunks, Chunks, WriterStates, ReaderStates
<1>1. TypeOK'
  <2>1. reader' \in [Readers -> ReaderStates]
    BY ReaderPc, Zenon DEF TypeInv, TypeOK, ReaderPcs
  <2>2. socket' \in [Readers -> Seq(Messages \cup {READY})]
    BY DEF TypeInv, TypeOK, SentOK, Enqueuing, Messages
  <2>3. received' \in [Readers -> Seq(Messages \cup {NONE})]
    <3>1. Head(socket[r]) \in Messages
      <4>1. HandshakeOf(r) /\ reader[r].pc # "starting"
        BY DEF TypeInv, HandshakeOK
      <4>2. socket[r] \in Seq(Messages \cup {READY}) /\ socket[r] # << >>
        BY DEF TypeInv, TypeOK
      <4>3. Len(socket[r]) \in Nat \ {0} /\ Head(socket[r]) = socket[r][1]
        BY <4>2, HeadFacts
      <4> QED BY <4>1, <4>3 DEF HandshakeOf
    <3>2. \A m \in Messages \cup {NONE} :
            [received EXCEPT ![r] = Append(@, m)] \in [Readers -> Seq(Messages \cup {NONE})]
      BY DEF TypeInv, TypeOK
    <3> QED BY <3>1, <3>2 DEF TypeInv, TypeOK
  <2> QED BY <1>0, <2>1, <2>2, <2>3 DEF TypeInv, TypeOK
<1>2. SentOK'
  BY DEF TypeInv, SentOK
<1>3. HandshakeOK'
  <2> SUFFICES ASSUME NEW q \in Readers PROVE HandshakeOf(q)'
    BY DEF HandshakeOK
  <2>1. HandshakeOf(q) /\ socket[q] \in Seq(Messages \cup {READY})
    BY DEF TypeInv, TypeOK, HandshakeOK
  <2>2. CASE q = r
    <3>1. reader'[r].pc # "starting"
      BY DEF TypeInv, TypeOK, ReaderStates
    <3>2. socket'[r] = Tail(socket[r])
      BY DEF TypeInv, TypeOK
    <3> QED BY <1>0, <2>1, <2>2, <3>1, <3>2, HandshakeTail, SMTT(30)
  <2>3. CASE q # r
    <3>1. socket'[q] = socket[q] /\ reader'[q] = reader[q]
      BY <2>3 DEF TypeInv, TypeOK
    <3> QED BY <1>0, <2>1, <3>1, SMTT(30) DEF HandshakeOf, PastHandshake
  <2> QED BY <2>2, <2>3
<1>4. RolesOK'
  BY <1>0 DEF TypeInv, TypeOK, RolesOK, ReaderPcs, ReaderStates
<1> QED BY <1>1, <1>2, <1>3, <1>4 DEF TypeInv

\* recv_timeout preserves the invariant behind TypeOK.
LEMMA Type_recv_timeout ==
  ASSUME TypeInv, NEW r \in Readers, recv_timeout(r)
  PROVE  TypeInv'
<1> USE Numbers
<1>LAY. /\ handle \in Handles /\ LocalReaders \subseteq Readers /\ max_chunks \in Nat \ {0}
      /\ \A i \in 0 .. max_chunks - 1 : Next_idx(i) \in 0 .. max_chunks - 1
  BY LayoutFacts
<1> USE <1>LAY DEF recv_timeout, InRecv, sockets
<1>0. /\ handle' = handle /\ LocalReaders' = LocalReaders /\ max_chunks' = max_chunks
      /\ Chunks' = Chunks /\ WriterStates' = WriterStates /\ ReaderStates' = ReaderStates
  BY DEF LocalReaders, max_chunks, Chunks, WriterStates, ReaderStates
<1>1. TypeOK'
  <2>1. reader' \in [Readers -> ReaderStates]
    BY ReaderLeaves, Zenon DEF TypeInv, TypeOK, ReaderPcs
  <2> QED BY <1>0, <2>1 DEF TypeInv, TypeOK
<1>2. SentOK'
  BY DEF TypeInv, SentOK
<1>3. HandshakeOK'
  BY <1>0 DEF TypeInv, TypeOK, HandshakeOK, HandshakeOf, PastHandshake, Enqueuing, ReaderStates
<1>4. RolesOK'
  BY <1>0 DEF TypeInv, TypeOK, RolesOK, ReaderPcs, ReaderStates
<1> QED BY <1>1, <1>2, <1>3, <1>4 DEF TypeInv

\* read_timeout preserves the invariant behind TypeOK.
LEMMA Type_read_timeout ==
  ASSUME TypeInv, NEW r \in Readers, read_timeout(r)
  PROVE  TypeInv'
<1> USE Numbers
<1>LAY. /\ handle \in Handles /\ LocalReaders \subseteq Readers /\ max_chunks \in Nat \ {0}
      /\ \A i \in 0 .. max_chunks - 1 : Next_idx(i) \in 0 .. max_chunks - 1
  BY LayoutFacts
<1> USE <1>LAY DEF read_timeout, Goto, sockets
<1>0. /\ handle' = handle /\ LocalReaders' = LocalReaders /\ max_chunks' = max_chunks
      /\ Chunks' = Chunks /\ WriterStates' = WriterStates /\ ReaderStates' = ReaderStates
  BY DEF LocalReaders, max_chunks, Chunks, WriterStates, ReaderStates
<1>1. TypeOK'
  <2>1. reader' \in [Readers -> ReaderStates]
    BY ReaderPc, Zenon DEF TypeInv, TypeOK, ReaderPcs
  <2> QED BY <1>0, <2>1 DEF TypeInv, TypeOK
<1>2. SentOK'
  BY DEF TypeInv, SentOK
<1>3. HandshakeOK'
  BY <1>0 DEF TypeInv, TypeOK, HandshakeOK, HandshakeOf, PastHandshake, Enqueuing, ReaderStates
<1>4. RolesOK'
  BY <1>0 DEF TypeInv, TypeOK, RolesOK, ReaderPcs, ReaderStates
<1> QED BY <1>1, <1>2, <1>3, <1>4 DEF TypeInv

\* wait_busy preserves the invariant behind TypeOK.
LEMMA Type_wait_busy ==
  ASSUME TypeInv, NEW r \in Readers, wait_busy(r)
  PROVE  TypeInv'
<1> USE Numbers
<1>LAY. /\ handle \in Handles /\ LocalReaders \subseteq Readers /\ max_chunks \in Nat \ {0}
      /\ \A i \in 0 .. max_chunks - 1 : Next_idx(i) \in 0 .. max_chunks - 1
  BY LayoutFacts
<1> USE <1>LAY DEF wait_busy, AfterWait, Goto, sockets
<1>0. /\ handle' = handle /\ LocalReaders' = LocalReaders /\ max_chunks' = max_chunks
      /\ Chunks' = Chunks /\ WriterStates' = WriterStates /\ ReaderStates' = ReaderStates
  BY DEF LocalReaders, max_chunks, Chunks, WriterStates, ReaderStates
<1>1. TypeOK'
  <2>1. reader' \in [Readers -> ReaderStates]
    BY ReaderPc, Zenon DEF TypeInv, TypeOK, ReaderPcs
  <2> QED BY <1>0, <2>1 DEF TypeInv, TypeOK
<1>2. SentOK'
  BY DEF TypeInv, SentOK
<1>3. HandshakeOK'
  BY <1>0 DEF TypeInv, TypeOK, HandshakeOK, HandshakeOf, PastHandshake, Enqueuing, ReaderStates
<1>4. RolesOK'
  BY <1>0 DEF TypeInv, TypeOK, RolesOK, ReaderPcs, ReaderStates
<1> QED BY <1>1, <1>2, <1>3, <1>4 DEF TypeInv

\* wait_idle preserves the invariant behind TypeOK.
LEMMA Type_wait_idle ==
  ASSUME TypeInv, NEW r \in Readers, wait_idle(r)
  PROVE  TypeInv'
<1> USE Numbers
<1>LAY. /\ handle \in Handles /\ LocalReaders \subseteq Readers /\ max_chunks \in Nat \ {0}
      /\ \A i \in 0 .. max_chunks - 1 : Next_idx(i) \in 0 .. max_chunks - 1
  BY LayoutFacts
<1> USE <1>LAY DEF wait_idle, AfterWait, Goto, sockets
<1>0. /\ handle' = handle /\ LocalReaders' = LocalReaders /\ max_chunks' = max_chunks
      /\ Chunks' = Chunks /\ WriterStates' = WriterStates /\ ReaderStates' = ReaderStates
  BY DEF LocalReaders, max_chunks, Chunks, WriterStates, ReaderStates
<1>1. TypeOK'
  <2>1. reader' \in [Readers -> ReaderStates]
    BY ReaderPc, Zenon DEF TypeInv, TypeOK, ReaderPcs
  <2> QED BY <1>0, <2>1 DEF TypeInv, TypeOK
<1>2. SentOK'
  BY DEF TypeInv, SentOK
<1>3. HandshakeOK'
  BY <1>0 DEF TypeInv, TypeOK, HandshakeOK, HandshakeOf, PastHandshake, Enqueuing, ReaderStates
<1>4. RolesOK'
  BY <1>0 DEF TypeInv, TypeOK, RolesOK, ReaderPcs, ReaderStates
<1> QED BY <1>1, <1>2, <1>3, <1>4 DEF TypeInv

\* create_from_handle preserves the invariant behind TypeOK.
LEMMA Type_create_from_handle ==
  ASSUME TypeInv, NEW r \in Readers, create_from_handle(r)
  PROVE  TypeInv'
<1> USE Numbers
<1>LAY. /\ handle \in Handles /\ LocalReaders \subseteq Readers /\ max_chunks \in Nat \ {0}
      /\ \A i \in 0 .. max_chunks - 1 : Next_idx(i) \in 0 .. max_chunks - 1
  BY LayoutFacts
<1> USE <1>LAY DEF create_from_handle, sockets
<1>0. /\ handle' = handle /\ LocalReaders' = LocalReaders /\ max_chunks' = max_chunks
      /\ Chunks' = Chunks /\ WriterStates' = WriterStates /\ ReaderStates' = ReaderStates
  BY DEF LocalReaders, max_chunks, Chunks, WriterStates, ReaderStates
<1>1. TypeOK'
  <2> QED BY <1>0, SMTT(30) DEF TypeInv, TypeOK
<1>2. SentOK'
  BY DEF TypeInv, SentOK
<1>3. HandshakeOK'
  BY <1>0, Zenon DEF TypeInv, TypeOK, HandshakeOK, HandshakeOf, PastHandshake, Enqueuing, ReaderStates
<1>4. RolesOK'
  BY <1>0 DEF TypeInv, TypeOK, RolesOK, ReaderPcs, ReaderStates
<1> QED BY <1>1, <1>2, <1>3, <1>4 DEF TypeInv

\* busy_period_ends preserves the invariant behind TypeOK.
LEMMA Type_busy_period_ends ==
  ASSUME TypeInv, NEW r \in Readers, busy_period_ends(r)
  PROVE  TypeInv'
<1> USE Numbers
<1>LAY. /\ handle \in Handles /\ LocalReaders \subseteq Readers /\ max_chunks \in Nat \ {0}
      /\ \A i \in 0 .. max_chunks - 1 : Next_idx(i) \in 0 .. max_chunks - 1
  BY LayoutFacts
<1> USE <1>LAY DEF busy_period_ends, sockets
<1>0. /\ handle' = handle /\ LocalReaders' = LocalReaders /\ max_chunks' = max_chunks
      /\ Chunks' = Chunks /\ WriterStates' = WriterStates /\ ReaderStates' = ReaderStates
  BY DEF LocalReaders, max_chunks, Chunks, WriterStates, ReaderStates
<1>1. TypeOK'
  <2>1. reader' \in [Readers -> ReaderStates]
    BY ReaderIdles, Zenon DEF TypeInv, TypeOK, ReaderPcs
  <2> QED BY <1>0, <2>1 DEF TypeInv, TypeOK
<1>2. SentOK'
  BY DEF TypeInv, SentOK
<1>3. HandshakeOK'
  BY <1>0 DEF TypeInv, TypeOK, HandshakeOK, HandshakeOf, PastHandshake, Enqueuing, ReaderStates
<1>4. RolesOK'
  BY <1>0 DEF TypeInv, TypeOK, RolesOK, ReaderPcs, ReaderStates
<1> QED BY <1>1, <1>2, <1>3, <1>4 DEF TypeInv

\* shutdown preserves the invariant behind TypeOK.
LEMMA Type_shutdown ==
  ASSUME TypeInv, NEW r \in Readers, shutdown(r)
  PROVE  TypeInv'
<1> USE Numbers
<1>LAY. /\ handle \in Handles /\ LocalReaders \subseteq Readers /\ max_chunks \in Nat \ {0}
      /\ \A i \in 0 .. max_chunks - 1 : Next_idx(i) \in 0 .. max_chunks - 1
  BY LayoutFacts
<1> USE <1>LAY DEF shutdown, Close, death_pipe_closed, sockets
<1>0. /\ handle' = handle /\ LocalReaders' = LocalReaders /\ max_chunks' = max_chunks
      /\ Chunks' = Chunks /\ WriterStates' = WriterStates /\ ReaderStates' = ReaderStates
  BY DEF LocalReaders, max_chunks, Chunks, WriterStates, ReaderStates
<1>1. TypeOK'
  <2>1. reader' \in [Readers -> ReaderStates]
    BY ReaderCloses, Zenon DEF TypeInv, TypeOK, ReaderPcs
  <2> QED BY <1>0, <2>1 DEF TypeInv, TypeOK
<1>2. SentOK'
  BY DEF TypeInv, SentOK
<1>3. HandshakeOK'
  BY <1>0 DEF TypeInv, TypeOK, HandshakeOK, HandshakeOf, PastHandshake, Enqueuing, ReaderStates
<1>4. RolesOK'
  BY <1>0 DEF TypeInv, TypeOK, RolesOK, ReaderPcs, ReaderStates
<1> QED BY <1>1, <1>2, <1>3, <1>4 DEF TypeInv

\* Every step preserves the invariant.
LEMMA TypeInvStep == TypeInv /\ [Next]_vars => TypeInv'
<1>1. CASE UNCHANGED vars
  BY <1>1 DEF vars, sockets, TypeInv, TypeOK, SentOK, HandshakeOK, HandshakeOf, RolesOK,
             PastHandshake, LocalReaders, max_chunks, Chunks, WriterStates, ReaderStates
<1> QED
  BY <1>1, Type_wait_until_ready_local, Type_wait_until_ready_remote, Type_enqueue, Type_acquire_write, Type_write_header, Type_write_body, Type_reset_read_flags, Type_mark_written, Type_send_overflow, Type_notify, Type_send_remote, Type_writer_dies, Type_wait_until_ready_reader, Type_check_flags, Type_read_header, Type_read_body, Type_mark_read, Type_recv, Type_recv_timeout, Type_read_timeout, Type_wait_busy, Type_wait_idle, Type_create_from_handle, Type_busy_period_ends, Type_shutdown, SMTT(30) DEF Next, WriterStep, ReaderStep

\* The writer is inside its chunk (after acquire_write, before the mark).
Inside == {"header", "body", "reset", "mark"}

\* The reader is inside its chunk (after acquire_read, before its read flag).
Reading == {"header", "body", "mark"}

\* What reader r knows of its chunk: a read flag it saw clear stays clear, and
\* a chunk it is inside is written and not yet marked by it.
RingOf(r) ==
  LET chunk == ring[reader[r].current_idx] IN
  /\ reader[r].pc = "written_flag" /\ ~reader[r].read_flag => r \notin chunk.read
  /\ reader[r].pc \in Reading => chunk.written /\ r \notin chunk.read

\* The inductive invariant behind mutual exclusion.
RingOK ==
  /\ writer.pc \in Inside => ~ring[writer.current_idx].written
  /\ writer.pc = "mark" => ring[writer.current_idx].read = {}
  /\ \A r \in LocalReaders : RingOf(r)

\* n_local_reader read flags are the flags of all local readers: what acquire_write
\* infers from the count.
CountTells ==
  \A read \in SUBSET LocalReaders : Cardinality(read) >= n_local_reader => read = LocalReaders

\* The invariant holds when the queue is created.
LEMMA RingInit == Init => RingOK
<1> SUFFICES ASSUME Init PROVE RingOK
  OBVIOUS
<1>1. LocalReaders \subseteq Readers
  BY Layout DEF Init
<1>2. \A r \in LocalReaders : reader[r].pc = "starting"
  BY <1>1 DEF Init
<1>3. writer.pc = "wait_local"
  BY DEF Init
<1> QED BY <1>2, <1>3 DEF RingOK, RingOf, Inside, Reading

\* Steps of the writer that leave the ring alone and do not enter a chunk.
WriterAway ==
  /\ UNCHANGED <<handle, ring, reader>>
  /\ writer'.pc \notin Inside

\* Steps of reader r that leave the ring alone and do not enter a chunk.
ReaderAway(r) ==
  /\ UNCHANGED <<handle, ring, writer>>
  /\ \A q \in Readers \ {r} : reader'[q] = reader[q]
  /\ \/ reader'[r].pc \notin Reading \cup {"written_flag"}
     \/ /\ reader'[r].pc = reader[r].pc /\ reader'[r].current_idx = reader[r].current_idx
        /\ reader'[r].read_flag = reader[r].read_flag

\* The writer's steps that do not touch the ring.
LEMMA WriterAwaySteps ==
  ASSUME TypeInv,
         wait_until_ready_local \/ wait_until_ready_remote \/ enqueue \/ send_overflow
           \/ notify \/ send_remote \/ writer_dies
  PROVE  WriterAway
<1>1. writer \in WriterStates
  BY DEF TypeInv, TypeOK
<1>2. CASE wait_until_ready_local
  BY <1>1, <1>2 DEF wait_until_ready_local, WriterAway, Inside, WriterStates
<1>3. CASE wait_until_ready_remote
  BY <1>1, <1>3 DEF wait_until_ready_remote, WriterAway, Inside, WriterStates
<1>4. CASE enqueue
  BY <1>1, <1>4, Zenon DEF enqueue, WriterAway, Inside, WriterStates
<1>5. CASE send_overflow
  BY <1>1, <1>5 DEF send_overflow, WriterAway, Inside, WriterStates
<1>6. CASE notify
  BY <1>1, <1>6 DEF notify, Notify, WriterAway, Inside, WriterStates
<1>7. CASE send_remote
  BY <1>1, <1>7 DEF send_remote, WriterAway, Inside, WriterStates
<1>8. CASE writer_dies
  BY <1>1, <1>8, SMTT(30) DEF writer_dies, WriterAway, Inside, WriterStates
<1> QED BY <1>2, <1>3, <1>4, <1>5, <1>6, <1>7, <1>8

\* The readers' steps that do not touch the ring.
LEMMA ReaderAwaySteps ==
  ASSUME TypeInv, NEW r \in Readers,
         wait_until_ready_reader(r) \/ recv(r) \/ recv_timeout(r) \/ read_timeout(r)
           \/ wait_busy(r) \/ wait_idle(r) \/ create_from_handle(r) \/ busy_period_ends(r)
           \/ shutdown(r)
  PROVE  ReaderAway(r)
<1>1. reader \in [Readers -> ReaderStates]
  BY DEF TypeInv, TypeOK
<1> USE <1>1 DEF Goto, Reading, ReaderStates, ReaderAway, sockets
<1>2. CASE wait_until_ready_reader(r)
  BY <1>2 DEF wait_until_ready_reader
<1>3. CASE recv(r)
  BY <1>3 DEF recv, return
<1>4. CASE recv_timeout(r)
  BY <1>4 DEF recv_timeout
<1>5. CASE read_timeout(r)
  BY <1>5 DEF read_timeout
<1>6. CASE wait_busy(r)
  BY <1>6 DEF wait_busy, AfterWait
<1>7. CASE wait_idle(r)
  BY <1>7 DEF wait_idle, AfterWait
<1>8. CASE create_from_handle(r)
  BY <1>8 DEF create_from_handle
<1>9. CASE busy_period_ends(r)
  BY <1>9 DEF busy_period_ends
<1>10. CASE shutdown(r)
  BY <1>10 DEF shutdown, Close
<1> QED BY <1>2, <1>3, <1>4, <1>5, <1>6, <1>7, <1>8, <1>9, <1>10

\* A step that changes no chunk but c.
OnlyChunk(c) == DOMAIN ring' = DOMAIN ring /\ \A d \in DOMAIN ring \ {c} : ring'[d] = ring[d]

\* What each step of the writer inside the ring does to the flags.
LEMMA WriterViews ==
  ASSUME TypeInv
  PROVE  LET w == writer.current_idx IN
         /\ w \in DOMAIN ring
         /\ acquire_write \/ write_header \/ write_body \/ reset_read_flags \/ mark_written =>
              OnlyChunk(w) /\ reader' = reader /\ handle' = handle
         /\ acquire_write =>
              /\ writer'.pc = "header" /\ writer'.current_idx = w
              /\ ~ring'[w].written /\ ring'[w].read = ring[w].read
         /\ write_header \/ write_body =>
              /\ writer.pc \in {"header", "body"} /\ writer'.pc \in {"body", "reset"}
              /\ writer'.current_idx = w
              /\ ring'[w].written = ring[w].written /\ ring'[w].read = ring[w].read
         /\ reset_read_flags =>
              /\ writer.pc = "reset" /\ writer'.pc \in {"reset", "mark"} /\ writer'.current_idx = w
              /\ ring'[w].written = ring[w].written /\ ring'[w].read \subseteq ring[w].read
              /\ writer'.pc = "mark" => ring'[w].read = {}
         /\ mark_written =>
              /\ writer.pc = "mark" /\ writer'.pc \in {"send_local", "notify"}
              /\ ring'[w].written /\ ring'[w].read = ring[w].read
<1> DEFINE w == writer.current_idx
<1>1. /\ writer \in WriterStates /\ w \in 0 .. max_chunks - 1
      /\ ring \in [0 .. max_chunks - 1 -> Chunks] /\ ring[w] \in Chunks
  BY DEF TypeInv, TypeOK, WriterStates
<1>2. ASSUME acquire_write
      PROVE  /\ OnlyChunk(w) /\ reader' = reader /\ handle' = handle
             /\ writer'.pc = "header" /\ writer'.current_idx = w
             /\ ~ring'[w].written /\ ring'[w].read = ring[w].read
  BY <1>1, <1>2 DEF acquire_write, Acquire, OnlyChunk, WriterStates, Chunks
<1>3. ASSUME write_header
      PROVE  /\ OnlyChunk(w) /\ reader' = reader /\ handle' = handle
             /\ writer.pc = "header" /\ writer'.pc \in {"body", "reset"} /\ writer'.current_idx = w
             /\ ring'[w].written = ring[w].written /\ ring'[w].read = ring[w].read
  BY <1>1, <1>3 DEF write_header, OnlyChunk, WriterStates, Chunks
<1>4. ASSUME write_body
      PROVE  /\ OnlyChunk(w) /\ reader' = reader /\ handle' = handle
             /\ writer.pc = "body" /\ writer'.pc = "reset" /\ writer'.current_idx = w
             /\ ring'[w].written = ring[w].written /\ ring'[w].read = ring[w].read
  BY <1>1, <1>4 DEF write_body, OnlyChunk, WriterStates, Chunks
<1>5. ASSUME reset_read_flags
      PROVE  /\ OnlyChunk(w) /\ reader' = reader /\ handle' = handle
             /\ writer.pc = "reset" /\ writer'.pc \in {"reset", "mark"} /\ writer'.current_idx = w
             /\ ring'[w].written = ring[w].written /\ ring'[w].read \subseteq ring[w].read
             /\ writer'.pc = "mark" => ring'[w].read = {}
  <2> DEFINE left == IF ring[w].read = {} THEN {} ELSE ring[w].read \ {Min(ring[w].read)}
  <2>1. /\ writer.pc = "reset" /\ reader' = reader /\ handle' = handle
        /\ ring' = [ring EXCEPT ![w].read = left]
        /\ writer' = [writer EXCEPT !.pc = IF left = {} THEN "mark" ELSE @]
    BY <1>5 DEF reset_read_flags
  <2>2. left \subseteq ring[w].read
    OBVIOUS
  <2> HIDE DEF left
  <2> QED BY <1>1, <2>1, <2>2 DEF OnlyChunk, WriterStates, Chunks
<1>6. ASSUME mark_written
      PROVE  /\ OnlyChunk(w) /\ reader' = reader /\ handle' = handle
             /\ writer.pc = "mark" /\ writer'.pc \in {"send_local", "notify"}
             /\ ring'[w].written /\ ring'[w].read = ring[w].read
  BY <1>1, <1>6 DEF mark_written, MarkWritten, OnlyChunk, WriterStates, Chunks
<1>7. w \in DOMAIN ring
  BY <1>1, SMTT(30)
<1> QED BY <1>2, <1>3, <1>4, <1>5, <1>6, <1>7

\* What each step of a reader inside the ring does to the flags.
LEMMA ReaderViews ==
  ASSUME TypeInv, NEW r \in Readers
  PROVE  LET i == reader[r].current_idx IN
         /\ i \in DOMAIN ring
         /\ check_flags(r) \/ read_header(r) \/ read_body(r) \/ mark_read(r) =>
              /\ r \in LocalReaders /\ writer' = writer /\ handle' = handle
              /\ \A q \in Readers \ {r} : reader'[q] = reader[q]
         /\ check_flags(r) =>
              /\ ring' = ring /\ reader'[r].current_idx = i
              /\ reader'[r].in_step = reader[r].in_step
              /\ \/ /\ reader[r].pc = "ready" /\ reader'[r].pc = "written_flag"
                    /\ ~reader'[r].read_flag => r \notin ring[i].read
                 \/ /\ reader[r].pc = "written_flag" /\ reader'[r].pc \in {"wait", "header"}
                    /\ reader'[r].pc = "header" => ring[i].written /\ ~reader[r].read_flag
         /\ read_header(r) =>
              /\ ring' = ring /\ reader'[r].current_idx = i
              /\ reader'[r].in_step = reader[r].in_step
              /\ reader[r].pc = "header" /\ reader'[r].pc \in {"mark", "body"}
              /\ reader'[r].header = ring[i].header
              /\ (reader'[r].pc = "mark") <=> (ring[i].header = OVERFLOW)
         /\ read_body(r) =>
              /\ ring' = ring /\ reader'[r].current_idx = i
              /\ reader'[r].in_step = reader[r].in_step
              /\ reader[r].pc = "body" /\ reader'[r].pc = "mark"
              /\ reader'[r].header = IF ring[i].body = reader[r].header THEN reader[r].header ELSE NONE
         /\ mark_read(r) =>
              /\ OnlyChunk(i) /\ reader'[r].current_idx = Next_idx(i)
              /\ ring'[i].written = ring[i].written /\ ring'[i].read = ring[i].read \cup {r}
              /\ ring'[i].header = ring[i].header /\ ring'[i].body = ring[i].body
              /\ reader'[r].in_step = reader[r].in_step
              /\ reader[r].pc = "mark"
              /\ reader'[r].pc = IF reader[r].header # OVERFLOW THEN "ready" ELSE "recv"
<1> DEFINE i == reader[r].current_idx
<1>1. /\ reader \in [Readers -> ReaderStates] /\ i \in 0 .. max_chunks - 1
      /\ ring \in [0 .. max_chunks - 1 -> Chunks] /\ ring[i] \in Chunks
  BY DEF TypeInv, TypeOK, ReaderStates
<1>2. reader[r].pc \in {"header", "body", "mark"} => r \in LocalReaders
  BY DEF TypeInv, RolesOK, ReaderPcs
<1>3. ASSUME check_flags(r)
      PROVE  /\ r \in LocalReaders /\ writer' = writer /\ handle' = handle
             /\ \A q \in Readers \ {r} : reader'[q] = reader[q]
             /\ ring' = ring /\ reader'[r].current_idx = i
             /\ reader'[r].in_step = reader[r].in_step
             /\ \/ /\ reader[r].pc = "ready" /\ reader'[r].pc = "written_flag"
                   /\ ~reader'[r].read_flag => r \notin ring[i].read
                \/ /\ reader[r].pc = "written_flag" /\ reader'[r].pc \in {"wait", "header"}
                   /\ reader'[r].pc = "header" => ring[i].written /\ ~reader[r].read_flag
  <2>1. CASE reader[r].pc = "ready"
    BY <1>1, <1>3, <2>1 DEF check_flags, ReaderStates
  <2>2. CASE reader[r].pc = "written_flag"
    BY <1>1, <1>3, <2>2 DEF check_flags, ReaderStates
  <2> QED BY <1>3, <2>1, <2>2 DEF check_flags
<1>4. ASSUME read_header(r)
      PROVE  /\ r \in LocalReaders /\ writer' = writer /\ handle' = handle
             /\ \A q \in Readers \ {r} : reader'[q] = reader[q]
             /\ ring' = ring /\ reader'[r].current_idx = i
             /\ reader'[r].in_step = reader[r].in_step
             /\ reader[r].pc = "header" /\ reader'[r].pc \in {"mark", "body"}
             /\ reader'[r].header = ring[i].header
             /\ (reader'[r].pc = "mark") <=> (ring[i].header = OVERFLOW)
  BY <1>1, <1>2, <1>4 DEF read_header, ReaderStates
<1>5. ASSUME read_body(r)
      PROVE  /\ r \in LocalReaders /\ writer' = writer /\ handle' = handle
             /\ \A q \in Readers \ {r} : reader'[q] = reader[q]
             /\ ring' = ring /\ reader'[r].current_idx = i
             /\ reader'[r].in_step = reader[r].in_step
             /\ reader[r].pc = "body" /\ reader'[r].pc = "mark"
             /\ reader'[r].header = IF ring[i].body = reader[r].header THEN reader[r].header ELSE NONE
  BY <1>1, <1>2, <1>5 DEF read_body, ReaderStates
<1>6. ASSUME mark_read(r)
      PROVE  /\ r \in LocalReaders /\ writer' = writer /\ handle' = handle
             /\ \A q \in Readers \ {r} : reader'[q] = reader[q]
             /\ OnlyChunk(i) /\ reader'[r].current_idx = Next_idx(i)
             /\ ring'[i].written = ring[i].written /\ ring'[i].read = ring[i].read \cup {r}
             /\ ring'[i].header = ring[i].header /\ ring'[i].body = ring[i].body
             /\ reader'[r].in_step = reader[r].in_step
             /\ reader[r].pc = "mark"
             /\ reader'[r].pc = IF reader[r].header # OVERFLOW THEN "ready" ELSE "recv"
  BY <1>1, <1>2, <1>6 DEF mark_read, ReaderStates, OnlyChunk, Chunks
<1>7. i \in DOMAIN ring
  BY <1>1
<1> QED BY <1>3, <1>4, <1>5, <1>6, <1>7

\* Every step preserves the invariant: the written flag is cleared only when
\* all readers have marked the chunk, and set only when no read flag is left.
LEMMA RingStep == CountTells /\ TypeInv /\ RingOK /\ [Next]_vars => RingOK'
<1> SUFFICES ASSUME CountTells, TypeInv, RingOK, [Next]_vars PROVE RingOK'
  OBVIOUS
<1> DEFINE w == writer.current_idx
<1>1. LocalReaders \subseteq Readers /\ (handle' = handle => LocalReaders' = LocalReaders)
  BY Layout DEF TypeInv, TypeOK, LocalReaders
<1>2. /\ ring[w] \in Chunks
      /\ \A q \in Readers : reader[q].current_idx \in DOMAIN ring /\ ring[reader[q].current_idx] \in Chunks
  BY DEF TypeInv, TypeOK, ReaderStates, WriterStates
<1>3. ASSUME WriterAway PROVE RingOK'
  BY <1>1, <1>3 DEF WriterAway, RingOK, RingOf, Inside
<1>4. ASSUME NEW r \in Readers, ReaderAway(r) PROVE RingOK'
  <2>1. \A q \in LocalReaders : RingOf(q)'
    BY <1>1, <1>4 DEF ReaderAway, RingOK, RingOf, Reading
  <2> QED BY <1>1, <1>4, <2>1 DEF ReaderAway, RingOK
<1>5. CASE acquire_write
  <2>1. \A q \in LocalReaders : reader[q].pc \in Reading => reader[q].current_idx # w
    <3>1. ring[w].written => ring[w].read = LocalReaders
      <4>1. ring[w].written => Cardinality(ring[w].read) >= n_local_reader
        BY <1>5 DEF acquire_write, Acquire, read_count
      <4>2. ring[w].read \in SUBSET LocalReaders
        BY <1>2 DEF Chunks
      <4> QED BY <4>1, <4>2 DEF CountTells
    <3> QED BY <3>1 DEF RingOK, RingOf
  <2>2. \A q \in LocalReaders : RingOf(q)'
    BY <1>1, <1>2, <1>5, <2>1, WriterViews DEF OnlyChunk, RingOK, RingOf
  <2> QED BY <1>1, <1>5, <2>2, WriterViews DEF RingOK
<1>6. CASE write_header \/ write_body
  <2>1. \A q \in LocalReaders : RingOf(q)'
    BY <1>1, <1>2, <1>6, WriterViews DEF OnlyChunk, RingOK, RingOf
  <2> QED BY <1>1, <1>6, <2>1, WriterViews, SMTT(30) DEF RingOK, Inside
<1>7. CASE reset_read_flags
  <2>1. \A q \in LocalReaders : RingOf(q)'
    BY <1>1, <1>2, <1>7, WriterViews DEF OnlyChunk, RingOK, RingOf
  <2> QED BY <1>1, <1>7, <2>1, WriterViews DEF RingOK, Inside
<1>8. CASE mark_written
  <2>1. \A q \in LocalReaders : RingOf(q)'
    BY <1>1, <1>2, <1>8, WriterViews, SMTT(30) DEF OnlyChunk, RingOK, RingOf
  <2> QED BY <1>1, <1>8, <2>1, WriterViews, SMTT(30) DEF RingOK, Inside
<1>9. ASSUME NEW r \in Readers, check_flags(r) \/ read_header(r) \/ read_body(r) PROVE RingOK'
  <2>1. \A q \in LocalReaders \ {r} : RingOf(q)'
    BY <1>1, <1>9, ReaderViews, SMTT(30) DEF RingOK, RingOf
  <2>2. RingOf(r)'
    BY <1>1, <1>9, ReaderViews, SMTT(30) DEF RingOK, RingOf, Reading
  <2> QED BY <1>1, <1>9, <2>1, <2>2, ReaderViews, SMTT(30) DEF RingOK
<1>10. ASSUME NEW r \in Readers, mark_read(r) PROVE RingOK'
  <2> DEFINE i == reader[r].current_idx
  <2>1. ring[i].written /\ i \in DOMAIN ring
    BY <1>1, <1>10, ReaderViews, SMTT(30) DEF RingOK, RingOf, Reading
  <2>2. ring'[i].written /\ ring'[i].read = ring[i].read \cup {r}
    BY <1>10, <2>1, ReaderViews, SMTT(30)
  <2>3. \A q \in LocalReaders \ {r} : RingOf(q)'
    BY <1>1, <1>2, <1>10, <2>2, ReaderViews, SMTT(30) DEF OnlyChunk, RingOK, RingOf
  <2>4. RingOf(r)'
    BY <1>1, <1>10, ReaderViews DEF RingOf, Reading
  <2>5. writer.pc \in Inside => w # i
    BY <2>1, SMTT(30) DEF RingOK
  <2>6. writer.pc \in Inside => ring'[w] = ring[w]
    BY <1>10, <2>5, ReaderViews, WriterViews DEF OnlyChunk
  <2> QED BY <1>1, <1>10, <2>3, <2>4, <2>6, ReaderViews, SMTT(30) DEF RingOK, Inside
<1>11. CASE UNCHANGED vars
  BY <1>11 DEF vars, RingOK, RingOf, LocalReaders
<1> QED
  BY <1>3, <1>4, <1>5, <1>6, <1>7, <1>8, <1>9, <1>10, <1>11, WriterAwaySteps, ReaderAwaySteps
     DEF Next, WriterStep, ReaderStep
-----------------------------------------------------------------------------
(* Delivery: what the writer does to the messages and the chunks *)

\* Division with remainder.
LEMMA ModFacts ==
    ASSUME NEW N \in Nat \ {0}, NEW i \in Nat
    PROVE  i % N \in 0 .. N - 1 /\ i \div N \in Nat /\ i = N * (i \div N) + (i % N)
OBVIOUS

\* The remainder is unique.
LEMMA ModUnique ==
    ASSUME NEW N \in Nat \ {0}, NEW q \in Nat, NEW r \in 0 .. N - 1, NEW i \in Nat, i = N * q + r
    PROVE  i % N = r
<1> DEFINE p == i \div N
<1>1. p \in Nat /\ i % N \in 0 .. N - 1 /\ i = N * p + (i % N)
  BY ModFacts, Zenon
<1> HIDE DEF p
<1>2. ~(p > q)
  <2> SUFFICES ASSUME p > q PROVE FALSE
    OBVIOUS
  <2>0. p - q - 1 \in Nat /\ p = q + 1 + (p - q - 1)
    BY <1>1
  <2>1. PICK d \in Nat : p = q + 1 + d
    BY <2>0
  <2>2. N * p = N * q + N + N * d /\ N * d \in Nat /\ N * q \in Nat
    BY <2>1
  <2> QED BY <1>1, <2>2
<1>3. ~(q > p)
  <2> SUFFICES ASSUME q > p PROVE FALSE
    OBVIOUS
  <2>0. q - p - 1 \in Nat /\ q = p + 1 + (q - p - 1)
    BY <1>1
  <2>1. PICK d \in Nat : q = p + 1 + d
    BY <2>0
  <2>2. N * q = N * p + N + N * d /\ N * d \in Nat /\ N * p \in Nat
    BY <2>1, <1>1
  <2> QED BY <1>1, <2>2
<1>4. p = q
  BY <1>1, <1>2, <1>3
<1>5. N * p \in Nat
  BY <1>1
<1> QED BY <1>1, <1>4, <1>5

\* Stepping the index modulo N follows the message count.
LEMMA ModSucc ==
    ASSUME NEW N \in Nat \ {0}, NEW i \in Nat
    PROVE  ((i % N) + 1) % N = (i + 1) % N
<1> DEFINE q == i \div N  r == i % N
<1>1. q \in Nat /\ r \in 0 .. N - 1 /\ i = N * q + r
  BY ModFacts, Zenon
<1> HIDE DEF q, r
<1>2. CASE r + 1 < N
  <2>1. r + 1 \in 0 .. N - 1 /\ i + 1 \in Nat /\ i + 1 = N * q + (r + 1)
    BY <1>1, <1>2
  <2>2. (i + 1) % N = r + 1
    BY <1>1, <2>1, ModUnique
  <2>3. r + 1 = N * 0 + (r + 1)
    BY <1>1
  <2>4. (r + 1) % N = r + 1
    BY <2>1, <2>3, ModUnique
  <2> QED BY <2>2, <2>4 DEF r
<1>3. CASE r + 1 = N
  <2>1. i + 1 \in Nat /\ i + 1 = N * (q + 1) + 0 /\ 0 \in 0 .. N - 1 /\ q + 1 \in Nat
    BY <1>1, <1>3
  <2>2. (i + 1) % N = 0
    <3>1. \A k \in Nat : i + 1 = N * k + 0 => (i + 1) % N = 0
      BY <2>1, ModUnique
    <3> QED BY <2>1, <3>1, Zenon
  <2>3. N = N * 1 + 0
    OBVIOUS
  <2>4. N % N = 0
    BY <2>1, <2>3, ModUnique
  <2> QED BY <2>2, <2>4, <1>3 DEF r
<1> QED BY <1>1, <1>2, <1>3

\* The index after that of message i is that of the next.
LEMMA NextIdx ==
  ASSUME max_chunks \in Nat \ {0}, NEW i \in Nat
  PROVE  Next_idx(i % max_chunks) = (i + 1) % max_chunks
BY ModSucc, Zenon DEF Next_idx

\* The ring has period N.
LEMMA ModPeriod ==
    ASSUME NEW N \in Nat \ {0}, NEW i \in Nat
    PROVE  (i + N) % N = i % N
<1> DEFINE q == i \div N  r == i % N
<1>1. q \in Nat /\ r \in 0 .. N - 1 /\ i = N * q + r
  BY ModFacts, Zenon
<1> HIDE DEF q, r
<1>2. i + N \in Nat /\ q + 1 \in Nat /\ i + N = N * (q + 1) + r
  BY <1>1
<1>3. (i + N) % N = r
  BY <1>1, <1>2, ModUnique
<1> QED BY <1>3 DEF r

\* Fewer than N messages apart, two messages have different chunks.
LEMMA ModNear ==
    ASSUME NEW N \in Nat \ {0}, NEW i \in Nat, NEW j \in Nat, i < j, j < i + N
    PROVE  i % N # j % N
<1> SUFFICES ASSUME i % N = j % N PROVE FALSE
  OBVIOUS
<1> DEFINE p == i \div N  q == j \div N  r == i % N
<1>1. p \in Nat /\ q \in Nat /\ r \in 0 .. N - 1 /\ i = N * p + r /\ j = N * q + r
  BY ModFacts, Zenon
<1> HIDE DEF p, q, r
<1>2. CASE q <= p
  <2>0. p - q \in Nat /\ p = q + (p - q)
    BY <1>1, <1>2
  <2>1. PICK d \in Nat : p = q + d
    BY <2>0
  <2>2. N * p = N * q + N * d /\ N * d \in Nat /\ N * q \in Nat
    BY <1>1, <2>1
  <2> QED BY <1>1, <2>2
<1>3. CASE q > p
  <2>0. q - p - 1 \in Nat /\ q = p + 1 + (q - p - 1)
    BY <1>1, <1>3
  <2>1. PICK d \in Nat : q = p + 1 + d
    BY <2>0
  <2>2. N * q = N * p + N + N * d /\ N * d \in Nat /\ N * p \in Nat
    BY <1>1, <2>1
  <2> QED BY <1>1, <2>2
<1> QED BY <1>1, <1>2, <1>3

\* The chunks that reader r finds written and not marked by itself.
Unread(r) == {c \in 0 .. max_chunks - 1 : ring[c].written /\ r \notin ring[c].read}

\* The chunks of the messages k + 1 .. m.
Window(N, k, m) == {i % N : i \in k .. m - 1}

\* m chunks have been marked as written: the writer's position and what it has
\* put into its chunk so far.
WriterAt(m) ==
  LET chunk == ring[writer.current_idx] IN
  /\ m <= Len(sent) /\ Len(sent) <= m + 1
  /\ writer.pc # "dead" =>
       /\ m = IF writer.pc \in Unmarked THEN Len(sent) - 1 ELSE Len(sent)
       /\ writer.current_idx = m % max_chunks
  /\ writer.pc = "body" => chunk.header = Len(sent) /\ ~writer.overflow
  /\ writer.pc \in {"reset", "mark"} =>
       IF writer.overflow THEN chunk.header = OVERFLOW
       ELSE chunk.header = Len(sent) /\ chunk.body = Len(sent)
  /\ writer.pc = "send_local" => writer.overflow

\* With m chunks marked, the flags show reader r just the ones it has not
\* consumed.
FlagsAt(r, m) ==
  /\ Consumed(r) <= m /\ m <= Consumed(r) + max_chunks
  /\ reader[r].current_idx = Consumed(r) % max_chunks
  /\ Unread(r) = Window(max_chunks, Consumed(r), m)

\* The chunks reader r has still to read hold their messages.
ContentsAt(r, m) ==
  \A i \in Consumed(r) .. m - 1 :
    LET chunk == ring[i % max_chunks] IN
    \/ chunk.header = OVERFLOW
    \/ chunk.header = i + 1 /\ chunk.body = i + 1

\* What reader r has copied out of its chunk.
HoldsAt(r) ==
  /\ reader[r].pc \in {"body", "mark"} => reader[r].header = ring[reader[r].current_idx].header
  /\ reader[r].pc = "body" => reader[r].header # OVERFLOW

\* The overflowing messages whose payload reader r has still to receive.
Due(r, m) ==
  {d \in Consumed(r) .. m :
     IF d = Consumed(r) THEN reader[r].pc = "recv"
     ELSE ring[(d - 1) % max_chunks].header = OVERFLOW}

\* A starting reader's socket begins with READY.
Base(r) == IF reader[r].pc = "starting" THEN 1 ELSE 0

\* The positions of payloads in reader r's socket.
Items(r) == Base(r) + 1 .. Len(socket[r])

\* Payload d is in reader r's socket.
InSocket(r, d) == \E i \in Items(r) : socket[r][i] = d

\* Reader r's socket holds the due payloads in order, but perhaps the last.
SocketAt(r, m) ==
  /\ \A i, j \in Items(r) : i < j => socket[r][i] < socket[r][j]
  /\ \A i \in Items(r) : socket[r][i] \in Due(r, m)
  /\ \A d \in Due(r, m) : d = m \/ InSocket(r, d)

\* The last payload is sent between send_local and the end of enqueue.
SendAt(r, m) ==
  /\ writer.pc = "send_local" => m \in Due(r, m) /\ ~InSocket(r, m)
  /\ writer.pc \notin {"send_local", "dead"} => (m \in Due(r, m) => InSocket(r, m))

\* Reader r agrees with the writer on m marked chunks.
LocalAt(r, m) ==
  FlagsAt(r, m) /\ ContentsAt(r, m) /\ HoldsAt(r) /\ SocketAt(r, m) /\ SendAt(r, m)

\* Every local reader in step agrees with the writer on m marked chunks.
Counted(m) ==
  WriterAt(m) /\ \A r \in LocalReaders : reader[r].in_step => LocalAt(r, m)

\* A chunk that is free can take one message more.
LEMMA WindowGrows ==
  ASSUME NEW N \in Nat \ {0}, NEW k \in Nat, NEW m \in Nat, k <= m, m <= k + N,
         m % N \notin Window(N, k, m)
  PROVE  m + 1 <= k + N /\ Window(N, k, m + 1) = Window(N, k, m) \cup {m % N}
<1>1. m # k + N
  <2> SUFFICES ASSUME m = k + N PROVE FALSE
    OBVIOUS
  <2>1. m % N = k % N
    BY ModPeriod
  <2>2. k \in k .. m - 1
    OBVIOUS
  <2> QED BY <2>1, <2>2 DEF Window
<1>2. k .. (m + 1) - 1 = (k .. m - 1) \cup {m}
  OBVIOUS
<1> DEFINE R == k .. m - 1
<1>3. Window(N, k, m + 1) = {i % N : i \in R \cup {m}} /\ Window(N, k, m) = {i % N : i \in R}
  BY <1>2, Zenon DEF Window
<1>4. m + 1 <= k + N
  BY <1>1
<1> HIDE DEF R
<1> QED BY <1>3, <1>4

\* The chunk of the oldest message leaves the window.
LEMMA WindowShrinks ==
  ASSUME NEW N \in Nat \ {0}, NEW k \in Nat, NEW m \in Nat, k < m, m <= k + N
  PROVE  Window(N, k + 1, m) = Window(N, k, m) \ {k % N}
<1>1. \A i \in k + 1 .. m - 1 : i % N # k % N
  <2> SUFFICES ASSUME NEW i \in k + 1 .. m - 1 PROVE i % N # k % N
    BY Zenon
  <2>1. i \in Nat /\ k < i /\ i < k + N
    OBVIOUS
  <2> QED BY <2>1, ModNear, SMTT(30)
<1>2. k .. m - 1 = (k + 1 .. m - 1) \cup {k}
  OBVIOUS
<1> DEFINE R == k + 1 .. m - 1
<1>3. Window(N, k + 1, m) = {i % N : i \in R} /\ Window(N, k, m) = {i % N : i \in R \cup {k}}
  BY <1>2, Zenon DEF Window
<1> HIDE DEF R
<1>4. \A i \in R : i % N # k % N
  BY <1>1 DEF R
<1> QED BY <1>3, <1>4

\* A window with a chunk in it is not empty.
LEMMA WindowMember ==
  ASSUME NEW N \in Nat \ {0}, NEW k \in Nat, NEW m \in Nat, NEW c \in Window(N, k, m)
  PROVE  k < m /\ c \in 0 .. N - 1
<1>1. PICK i \in k .. m - 1 : c = i % N
  BY DEF Window
<1> QED BY <1>1, ModFacts

\* No message, no chunk.
LEMMA WindowEmpty == \A N, k : k \in Nat => Window(N, k, k) = {}
BY DEF Window

\* The counts are numbers.
LEMMA CountTypes ==
  ASSUME TypeInv, NEW r \in Readers
  PROVE  /\ max_chunks \in Nat \ {0} /\ Consumed(r) \in Nat
         /\ Len(received[r]) \in Nat /\ Len(sent) \in Nat /\ Len(socket[r]) \in Nat
         /\ ring \in [0 .. max_chunks - 1 -> Chunks]
<1>1. Len(received[r]) \in Nat /\ Len(sent) \in Nat /\ Len(socket[r]) \in Nat
  BY DEF TypeInv, TypeOK
<1> QED BY <1>1, Layout DEF TypeInv, TypeOK, Consumed

\* A step that leaves alone what reader r has still to read.
Still(r) ==
  /\ handle' = handle
  /\ reader'[r].current_idx = reader[r].current_idx
  /\ Consumed(r)' = Consumed(r)
  /\ (reader'[r].pc = "recv") <=> (reader[r].pc = "recv")
  /\ Unread(r)' = Unread(r)
  /\ \A c \in Unread(r) : ring'[c].header = ring[c].header /\ ring'[c].body = ring[c].body

\* Such a step preserves the reader's view of flags, contents and payloads.
LEMMA StillReader ==
  ASSUME TypeInv, NEW r \in Readers, NEW m \in Nat, Still(r), FlagsAt(r, m), ContentsAt(r, m)
  PROVE  FlagsAt(r, m)' /\ ContentsAt(r, m)' /\ Due(r, m)' = Due(r, m)
<1> DEFINE k == Consumed(r)
<1>1. k \in Nat /\ max_chunks' = max_chunks /\ max_chunks \in Nat \ {0}
  BY CountTypes DEF Still, max_chunks
<1>2. Consumed(r)' = k
  BY DEF Still
<1>3. FlagsAt(r, m)'
  BY <1>1, <1>2 DEF Still, FlagsAt
<1>4. \A i \in k .. m - 1 : i % max_chunks \in Unread(r)
  BY DEF FlagsAt, Window
<1>5. \A i \in k .. m - 1 : /\ ring'[i % max_chunks].header = ring[i % max_chunks].header
                            /\ ring'[i % max_chunks].body = ring[i % max_chunks].body
  BY <1>4 DEF Still
<1>6. ContentsAt(r, m)'
  BY <1>1, <1>2, <1>5 DEF ContentsAt
<1>7. \A d \in k .. m : d # k =>
        ring'[(d - 1) % max_chunks].header = ring[(d - 1) % max_chunks].header
  <2> SUFFICES ASSUME NEW d \in k .. m, d # k
               PROVE  ring'[(d - 1) % max_chunks].header = ring[(d - 1) % max_chunks].header
    OBVIOUS
  <2>1. d - 1 \in k .. m - 1
    BY <1>1
  <2> QED BY <1>5, <2>1
<1>8. Due(r, m)' = Due(r, m)
  <2>1. Due(r, m)' = {d \in k .. m : IF d = k THEN reader'[r].pc = "recv"
                                     ELSE ring'[(d - 1) % max_chunks].header = OVERFLOW}
    BY <1>1, <1>2 DEF Due
  <2> QED BY <1>7, <2>1 DEF Due, Still
<1> QED BY <1>3, <1>6, <1>8

\* The socket's order does not change with it.
LEMMA StillSocket ==
  ASSUME NEW r, NEW m, SocketAt(r, m), Due(r, m)' = Due(r, m), socket'[r] = socket[r],
         (reader'[r].pc = "starting") <=> (reader[r].pc = "starting")
  PROVE  SocketAt(r, m)' /\ (InSocket(r, m)' <=> InSocket(r, m))
<1>1. Items(r)' = Items(r)
  BY DEF Items, Base
<1>2. \A d : InSocket(r, d)' <=> InSocket(r, d)
  BY <1>1 DEF InSocket
<1> QED BY <1>1, <1>2 DEF SocketAt

\* The last payload's state does not change with it.
LEMMA StillSend ==
  ASSUME NEW r, NEW m, SendAt(r, m), Due(r, m)' = Due(r, m), InSocket(r, m)' <=> InSocket(r, m),
         \/ writer'.pc = "dead"
         \/ writer'.pc = writer.pc
         \/ {writer.pc, writer'.pc} \cap {"send_local", "dead"} = {}
  PROVE  SendAt(r, m)'
BY Zenon DEF SendAt

\* What each step of the writer inside the ring writes.
LEMMA WriterData ==
  ASSUME TypeInv
  PROVE  LET w == writer.current_idx IN
         /\ acquire_write \/ write_header \/ write_body \/ reset_read_flags \/ mark_written =>
              UNCHANGED <<socket, sent, received>> /\ writer'.overflow = writer.overflow
         /\ acquire_write => writer.pc = "acquire"
         /\ write_header =>
              /\ writer.pc = "header" /\ writer'.pc = IF writer.overflow THEN "reset" ELSE "body"
              /\ ring'[w].header = IF writer.overflow THEN OVERFLOW ELSE Len(sent)
         /\ write_body =>
              /\ writer.pc = "body" /\ writer'.pc = "reset"
              /\ ring'[w].header = ring[w].header /\ ring'[w].body = Len(sent)
         /\ reset_read_flags \/ mark_written =>
              ring'[w].header = ring[w].header /\ ring'[w].body = ring[w].body
         /\ mark_written =>
              /\ writer'.current_idx = Next_idx(w)
              /\ writer'.pc = IF writer.overflow THEN "send_local" ELSE "notify"
<1> DEFINE w == writer.current_idx
<1>1. /\ writer \in WriterStates /\ w \in 0 .. max_chunks - 1
      /\ ring \in [0 .. max_chunks - 1 -> Chunks] /\ ring[w] \in Chunks
  BY DEF TypeInv, TypeOK, WriterStates
<1> USE <1>1 DEF WriterStates, Chunks, sockets
<1>2. ASSUME acquire_write
      PROVE  /\ UNCHANGED <<socket, sent, received>> /\ writer'.overflow = writer.overflow
             /\ writer.pc = "acquire"
  BY <1>2 DEF acquire_write, Acquire
<1>3. ASSUME write_header
      PROVE  /\ UNCHANGED <<socket, sent, received>> /\ writer'.overflow = writer.overflow
             /\ writer.pc = "header" /\ writer'.pc = IF writer.overflow THEN "reset" ELSE "body"
             /\ ring'[w].header = IF writer.overflow THEN OVERFLOW ELSE Len(sent)
  BY <1>3 DEF write_header
<1>4. ASSUME write_body
      PROVE  /\ UNCHANGED <<socket, sent, received>> /\ writer'.overflow = writer.overflow
             /\ writer.pc = "body" /\ writer'.pc = "reset"
             /\ ring'[w].header = ring[w].header /\ ring'[w].body = Len(sent)
  BY <1>4 DEF write_body
<1>5. ASSUME reset_read_flags
      PROVE  /\ UNCHANGED <<socket, sent, received>> /\ writer'.overflow = writer.overflow
             /\ ring'[w].header = ring[w].header /\ ring'[w].body = ring[w].body
  BY <1>5 DEF reset_read_flags
<1>6. ASSUME mark_written
      PROVE  /\ UNCHANGED <<socket, sent, received>> /\ writer'.overflow = writer.overflow
             /\ ring'[w].header = ring[w].header /\ ring'[w].body = ring[w].body
             /\ writer'.current_idx = Next_idx(w)
             /\ writer'.pc = IF writer.overflow THEN "send_local" ELSE "notify"
  BY <1>6 DEF mark_written, MarkWritten
<1> QED BY <1>2, <1>3, <1>4, <1>5, <1>6

\* The writer's steps inside its chunk, but the mark.
InsideStep == acquire_write \/ write_header \/ write_body \/ reset_read_flags

\* The writer's chunk is none that a reader has still to read.
LEMMA InsideStill ==
  ASSUME CountTells, TypeInv, RingOK, RingOK', InsideStep, NEW r \in LocalReaders
  PROVE  Still(r) /\ writer.current_idx \notin Unread(r) /\ reader' = reader /\ socket' = socket
<1> DEFINE w == writer.current_idx
<1>1. /\ OnlyChunk(w) /\ reader' = reader /\ handle' = handle /\ w \in DOMAIN ring
      /\ UNCHANGED <<socket, sent, received>> /\ writer'.current_idx = w
      /\ writer'.pc \in Inside
  BY WriterViews, WriterData DEF InsideStep, Inside
<1>2. max_chunks' = max_chunks /\ DOMAIN ring = 0 .. max_chunks - 1
  BY <1>1 DEF max_chunks, TypeInv, TypeOK
<1>3. ~ring'[w].written
  BY <1>1 DEF RingOK
<1>4. ~(ring[w].written /\ r \notin ring[w].read)
  <2>1. CASE acquire_write
    <3>1. ring[w].written => Cardinality(ring[w].read) >= n_local_reader
      BY <2>1 DEF acquire_write, Acquire, read_count
    <3>2. ring[w].read \in SUBSET LocalReaders
      BY <1>1 DEF TypeInv, TypeOK, Chunks
    <3> QED BY <3>1, <3>2 DEF CountTells
  <2>2. CASE write_header \/ write_body \/ reset_read_flags
    <3>1. writer.pc \in Inside
      BY <2>2, WriterViews DEF Inside
    <3> QED BY <3>1 DEF RingOK
  <2> QED BY <2>1, <2>2 DEF InsideStep
<1>5. Unread(r)' = {c \in DOMAIN ring : ring'[c].written /\ r \notin ring'[c].read}
  BY <1>2 DEF Unread
<1>6. Unread(r) = {c \in DOMAIN ring : ring[c].written /\ r \notin ring[c].read}
  BY <1>2 DEF Unread
<1>7. Unread(r)' = Unread(r) /\ w \notin Unread(r)
  BY <1>1, <1>3, <1>4, <1>5, <1>6 DEF OnlyChunk
<1>8. \A c \in Unread(r) : ring'[c].header = ring[c].header /\ ring'[c].body = ring[c].body
  BY <1>1, <1>6, <1>7 DEF OnlyChunk
<1>9. Consumed(r)' = Consumed(r)
  BY <1>1 DEF Consumed
<1> QED BY <1>1, <1>7, <1>8, <1>9 DEF Still

\* What a reader copied stays what its chunk holds.
LEMMA HoldsStill ==
  ASSUME TypeInv, RingOK, NEW r \in LocalReaders, NEW m \in Nat, FlagsAt(r, m), HoldsAt(r), Still(r),
         reader'[r].pc = reader[r].pc, reader'[r].header = reader[r].header
  PROVE  HoldsAt(r)'
<1>1. reader[r].pc \in Reading => reader[r].current_idx \in Unread(r)
  <2>1. r \in Readers
    BY Layout DEF TypeInv, TypeOK
  <2>2. reader[r].current_idx \in 0 .. max_chunks - 1
    BY <2>1 DEF TypeInv, TypeOK, ReaderStates
  <2> QED BY <2>2 DEF RingOK, RingOf, Unread
<1> QED BY <1>1 DEF HoldsAt, Still, Reading

\* The writer's steps inside its chunk disturb no reader.
LEMMA CountedInside ==
  ASSUME CountTells, TypeInv, RingOK, RingOK', InsideStep, NEW m \in Nat, Counted(m)
  PROVE  Counted(m)'
<1> DEFINE w == writer.current_idx
<1>1. ASSUME NEW r \in LocalReaders, reader[r].in_step
      PROVE  LocalAt(r, m)'
  <2>1. Still(r) /\ reader' = reader /\ socket' = socket /\ LocalAt(r, m) /\ r \in Readers
    BY <1>1, InsideStill, Layout DEF Counted, TypeInv, TypeOK
  <2>2. FlagsAt(r, m)' /\ ContentsAt(r, m)' /\ Due(r, m)' = Due(r, m)
    BY <2>1, StillReader DEF LocalAt
  <2>3. HoldsAt(r)'
    BY <2>1, HoldsStill DEF LocalAt
  <2>4. SocketAt(r, m)' /\ (InSocket(r, m)' <=> InSocket(r, m))
    BY <2>1, <2>2, StillSocket DEF LocalAt
  <2>5. {writer.pc, writer'.pc} \cap {"send_local", "dead"} = {}
    BY WriterViews, WriterData DEF InsideStep
  <2> QED BY <2>1, <2>2, <2>3, <2>4, <2>5, StillSend DEF LocalAt
<1>2. WriterAt(m)'
  <2>1. UNCHANGED <<sent, handle>> /\ writer'.current_idx = w /\ max_chunks' = max_chunks
        /\ writer'.overflow = writer.overflow
    BY WriterViews, WriterData, SMTT(30) DEF InsideStep, max_chunks
  <2>2. CASE acquire_write
    BY <2>1, <2>2, WriterViews, WriterData, SMTT(30) DEF Counted, WriterAt, Unmarked
  <2>3. CASE write_header
    BY <2>1, <2>3, WriterViews, WriterData DEF Counted, WriterAt, Unmarked
  <2>4. CASE write_body
    BY <2>1, <2>4, WriterViews, WriterData DEF Counted, WriterAt, Unmarked
  <2>5. CASE reset_read_flags
    BY <2>1, <2>5, WriterViews, WriterData DEF Counted, WriterAt, Unmarked
  <2> QED BY <2>2, <2>3, <2>4, <2>5 DEF InsideStep
<1>3. reader' = reader /\ LocalReaders' = LocalReaders
  BY WriterViews DEF InsideStep, LocalReaders
<1> QED BY <1>1, <1>2, <1>3 DEF Counted

\* The written flag adds one message for every reader.
LEMMA CountedMark ==
  ASSUME TypeInv, RingOK, mark_written, NEW m \in Nat, Counted(m)
  PROVE  Counted(m + 1)'
<1> DEFINE w == writer.current_idx
           N == max_chunks
<1>1. /\ OnlyChunk(w) /\ reader' = reader /\ handle' = handle /\ w \in DOMAIN ring
      /\ UNCHANGED <<socket, sent, received>>
      /\ writer.pc = "mark" /\ writer'.pc = IF writer.overflow THEN "send_local" ELSE "notify"
      /\ writer'.current_idx = Next_idx(w) /\ writer'.overflow = writer.overflow
      /\ ring'[w].written /\ ring'[w].read = ring[w].read
      /\ ring'[w].header = ring[w].header /\ ring'[w].body = ring[w].body
  BY WriterViews, WriterData, SMTT(30)
<1>2. /\ N' = N /\ N \in Nat \ {0} /\ DOMAIN ring = 0 .. N - 1 /\ LocalReaders' = LocalReaders
      /\ Len(sent) \in Nat /\ LocalReaders \subseteq Readers
  BY <1>1, Layout DEF max_chunks, LocalReaders, TypeInv, TypeOK
<1>3. /\ m + 1 = Len(sent) /\ w = m % N
      /\ IF writer.overflow THEN ring[w].header = OVERFLOW
         ELSE ring[w].header = m + 1 /\ ring[w].body = m + 1
  BY <1>1, <1>2 DEF Counted, WriterAt, Unmarked
<1>4. m + 1 # OVERFLOW
  BY <1>2, <1>3, QueueAssumption DEF TypeInv, SentOK, OVERFLOW
<1>5. ~ring[w].written /\ ring[w].read = {}
  BY <1>1 DEF RingOK, Inside
<1>6. WriterAt(m + 1)'
  <2>1. writer'.current_idx = (m + 1) % N
    BY <1>1, <1>2, <1>3, NextIdx
  <2> QED BY <1>1, <1>2, <1>3, <2>1 DEF WriterAt, Unmarked
<1>7. ASSUME NEW r \in LocalReaders, reader[r].in_step
      PROVE  LocalAt(r, m + 1)'
  <2> DEFINE k == Consumed(r)
  <2>1. LocalAt(r, m) /\ r \in Readers /\ k \in Nat /\ Consumed(r)' = k
    BY <1>1, <1>2, <1>7, CountTypes, Zenon DEF Counted, Consumed
  <2>2. k <= m /\ m <= k + N /\ Unread(r) = Window(N, k, m) /\ reader[r].current_idx = k % N
    BY <2>1 DEF LocalAt, FlagsAt
  <2>3. w \notin Window(N, k, m)
    BY <1>5, <2>2 DEF Unread
  <2>4. m + 1 <= k + N /\ Window(N, k, m + 1) = Window(N, k, m) \cup {w}
    <3>1. m % N \notin Window(N, k, m)
      BY <1>3, <2>3
    <3> HIDE DEF k, N
    <3>2. m + 1 <= k + N /\ Window(N, k, m + 1) = Window(N, k, m) \cup {m % N}
      BY <1>2, <2>1, <2>2, <3>1, WindowGrows
    <3> QED BY <1>3, <3>2
  <2>5. Unread(r)' = Unread(r) \cup {w}
    <3>1. Unread(r)' = {c \in DOMAIN ring : ring'[c].written /\ r \notin ring'[c].read}
      BY <1>2 DEF Unread
    <3>2. Unread(r) = {c \in DOMAIN ring : ring[c].written /\ r \notin ring[c].read}
      BY <1>2 DEF Unread
    <3> QED BY <1>1, <1>5, <3>1, <3>2 DEF OnlyChunk
  <2>6. FlagsAt(r, m + 1)'
    BY <1>1, <1>2, <2>1, <2>2, <2>4, <2>5 DEF FlagsAt
  <2>7. \A c \in DOMAIN ring : ring'[c].header = ring[c].header /\ ring'[c].body = ring[c].body
    BY <1>1 DEF OnlyChunk
  <2>8. \A i \in Nat : i % N \in DOMAIN ring
    BY <1>2, ModFacts
  <2>9. ContentsAt(r, m + 1)'
    <3>1. ASSUME NEW i \in k .. m
          PROVE  \/ ring'[i % N].header = OVERFLOW
                 \/ ring'[i % N].header = i + 1 /\ ring'[i % N].body = i + 1
      <4>1. i \in Nat
        BY <2>1
      <4>2. CASE i = m
        BY <1>1, <1>3, <4>2
      <4>3. CASE i # m
        <5>1. i \in k .. m - 1
          BY <2>1, <4>3
        <5> QED BY <2>1, <2>7, <2>8, <4>1, <5>1 DEF LocalAt, ContentsAt
      <4> QED BY <4>2, <4>3
    <3>2. k .. (m + 1) - 1 = k .. m
      OBVIOUS
    <3> QED BY <1>2, <2>1, <3>1, <3>2 DEF ContentsAt
  <2>10. HoldsAt(r)'
    <3>1. reader[r].current_idx \in DOMAIN ring
      BY <1>2, <2>1 DEF TypeInv, TypeOK, ReaderStates
    <3> QED BY <1>1, <2>1, <2>7, <3>1 DEF LocalAt, HoldsAt
  <2>11. Due(r, m + 1)' = Due(r, m) \cup (IF writer.overflow THEN {m + 1} ELSE {})
    <3>1. Due(r, m + 1)' = {d \in k .. m + 1 : IF d = k THEN reader[r].pc = "recv"
                                       ELSE ring'[(d - 1) % N].header = OVERFLOW}
      BY <1>1, <1>2, <2>1 DEF Due
    <3>2. \A d \in k .. m + 1 : d # k => ring'[(d - 1) % N].header = ring[(d - 1) % N].header
      <4> SUFFICES ASSUME NEW d \in k .. m + 1, d # k
                   PROVE  ring'[(d - 1) % N].header = ring[(d - 1) % N].header
        OBVIOUS
      <4>1. d - 1 \in Nat
        BY <2>1
      <4> QED BY <2>7, <2>8, <4>1
    <3>3. ring[((m + 1) - 1) % N].header = OVERFLOW <=> writer.overflow
      BY <1>3, <1>4
    <3>4. k .. m + 1 = (k .. m) \cup {m + 1} /\ m + 1 # k /\ m + 1 \notin k .. m
      BY <2>1, <2>2, SMTT(30)
    <3> QED BY <3>1, <3>2, <3>3, <3>4 DEF Due
  <2>12. \A d \in Due(r, m) : d \in k .. m /\ InSocket(r, d)
    BY <1>1, <2>1 DEF LocalAt, SocketAt, SendAt, Due
  <2>13. Items(r)' = Items(r) /\ \A d : InSocket(r, d)' <=> InSocket(r, d)
    BY <1>1, SMTT(30) DEF Items, Base, InSocket
  <2>14. SocketAt(r, m + 1)'
    BY <1>1, <2>1, <2>11, <2>12, <2>13 DEF LocalAt, SocketAt
  <2>15. m + 1 \notin Due(r, m)
    BY <2>12
  <2>16. SendAt(r, m + 1)'
    <3>1. ~InSocket(r, m + 1)
      BY <2>1, <2>15 DEF LocalAt, SocketAt, InSocket
    <3> QED BY <1>1, <2>11, <2>13, <2>15, <3>1 DEF SendAt
  <2> QED BY <2>6, <2>9, <2>10, <2>14, <2>16 DEF LocalAt
<1> QED BY <1>1, <1>2, <1>6, <1>7, SMTT(30) DEF Counted

\* The writer's steps outside a chunk that send nothing to local readers.
OutsideStep ==
  wait_until_ready_remote \/ enqueue \/ notify \/ send_remote \/ writer_dies

\* What the writer's steps outside the ring do.
LEMMA OutsideViews ==
  ASSUME TypeInv, OutsideStep \/ wait_until_ready_local \/ send_overflow
  PROVE  /\ UNCHANGED <<handle, ring, reader, received>>
         /\ writer'.current_idx = writer.current_idx
         /\ wait_until_ready_local =>
              writer.pc = "wait_local" /\ writer'.pc = "wait_remote" /\ sent' = sent
                /\ writer'.overflow = writer.overflow
         /\ wait_until_ready_remote =>
              writer.pc = "wait_remote" /\ writer'.pc = "ready" /\ sent' = sent
         /\ enqueue => writer.pc = "ready" /\ writer'.pc = "acquire" /\ Len(sent') = Len(sent) + 1
         /\ send_overflow =>
              writer.pc = "send_local" /\ writer'.pc = "notify" /\ sent' = sent
                /\ writer'.overflow = writer.overflow
         /\ notify => writer.pc = "notify" /\ writer'.pc = "send_remote" /\ sent' = sent
         /\ send_remote => writer.pc = "send_remote" /\ writer'.pc = "ready" /\ sent' = sent
         /\ writer_dies => writer'.pc = "dead" /\ sent' = sent
         /\ OutsideStep => \A r \in LocalReaders : socket'[r] = socket[r]
<1>1. /\ writer \in WriterStates /\ sent \in Seq(Messages) /\ LocalReaders \subseteq Readers
      /\ socket \in [Readers -> Seq(Messages \cup {READY})]
  BY Layout DEF TypeInv, TypeOK
<1> USE <1>1 DEF WriterStates, sockets
<1>2. ASSUME wait_until_ready_local
      PROVE  /\ UNCHANGED <<handle, ring, reader, received, sent>>
             /\ writer'.current_idx = writer.current_idx
             /\ writer.pc = "wait_local" /\ writer'.pc = "wait_remote"
             /\ writer'.overflow = writer.overflow
  BY <1>2 DEF wait_until_ready_local
<1>3. ASSUME wait_until_ready_remote
      PROVE  /\ UNCHANGED <<handle, ring, reader, received, sent>>
             /\ writer'.current_idx = writer.current_idx
             /\ writer.pc = "wait_remote" /\ writer'.pc = "ready"
             /\ \A r \in LocalReaders : socket'[r] = socket[r]
  BY <1>3 DEF wait_until_ready_remote, publish, RemoteReaders
<1>4. ASSUME enqueue
      PROVE  /\ UNCHANGED <<handle, ring, reader, received>>
             /\ writer'.current_idx = writer.current_idx
             /\ writer.pc = "ready" /\ writer'.pc = "acquire"
             /\ \A r \in LocalReaders : socket'[r] = socket[r]
  BY <1>4 DEF enqueue
<1>5. ASSUME enqueue PROVE Len(sent') = Len(sent) + 1
  BY <1>5 DEF enqueue
<1>6. ASSUME send_overflow
      PROVE  /\ UNCHANGED <<handle, ring, reader, received, sent>>
             /\ writer'.current_idx = writer.current_idx
             /\ writer.pc = "send_local" /\ writer'.pc = "notify"
             /\ writer'.overflow = writer.overflow
  BY <1>6 DEF send_overflow
<1>7. ASSUME notify
      PROVE  /\ UNCHANGED <<handle, ring, reader, received, sent>>
             /\ writer'.current_idx = writer.current_idx
             /\ writer.pc = "notify" /\ writer'.pc = "send_remote"
             /\ \A r \in LocalReaders : socket'[r] = socket[r]
  BY <1>7 DEF notify, Notify
<1>8. ASSUME send_remote
      PROVE  /\ UNCHANGED <<handle, ring, reader, received, sent>>
             /\ writer'.current_idx = writer.current_idx
             /\ writer.pc = "send_remote" /\ writer'.pc = "ready"
             /\ \A r \in LocalReaders : socket'[r] = socket[r]
  BY <1>8 DEF send_remote, publish, RemoteReaders
<1>9. ASSUME writer_dies
      PROVE  /\ UNCHANGED <<handle, ring, reader, received, sent>>
             /\ writer'.current_idx = writer.current_idx
             /\ writer'.pc = "dead"
             /\ \A r \in LocalReaders : socket'[r] = socket[r]
  BY <1>9 DEF writer_dies
<1> QED BY <1>2, <1>3, <1>4, <1>5, <1>6, <1>7, <1>8, <1>9 DEF OutsideStep

\* They keep the number of marked chunks.
LEMMA OutsideWriterAt ==
  ASSUME TypeInv, OutsideStep \/ wait_until_ready_local \/ send_overflow,
         NEW m \in Nat, WriterAt(m)
  PROVE  WriterAt(m)'
<1>1. max_chunks' = max_chunks /\ Len(sent) \in Nat
  BY OutsideViews DEF max_chunks, TypeInv, TypeOK
<1>2. CASE wait_until_ready_local
  BY <1>1, <1>2, OutsideViews DEF WriterAt, Unmarked
<1>3. CASE wait_until_ready_remote
  BY <1>1, <1>3, OutsideViews DEF WriterAt, Unmarked, OutsideStep
<1>4. CASE enqueue
  BY <1>1, <1>4, OutsideViews DEF WriterAt, Unmarked, OutsideStep
<1>5. CASE send_overflow
  BY <1>1, <1>5, OutsideViews DEF WriterAt, Unmarked
<1>6. CASE notify
  BY <1>1, <1>6, OutsideViews DEF WriterAt, Unmarked, OutsideStep
<1>7. CASE send_remote
  BY <1>1, <1>7, OutsideViews DEF WriterAt, Unmarked, OutsideStep
<1>8. CASE writer_dies
  BY <1>1, <1>8, OutsideViews DEF WriterAt, Unmarked, OutsideStep
<1> QED BY <1>2, <1>3, <1>4, <1>5, <1>6, <1>7, <1>8, SMTT(30) DEF OutsideStep

\* They leave alone what a reader has still to read.
LEMMA OutsideStill ==
  ASSUME TypeInv, OutsideStep \/ wait_until_ready_local \/ send_overflow,
         NEW r \in LocalReaders
  PROVE  Still(r)
<1>1. UNCHANGED <<handle, ring, reader, received>>
  BY OutsideViews
<1> QED BY <1>1 DEF Still, Consumed, Unread, max_chunks

\* They preserve the invariant.
LEMMA CountedOutside ==
  ASSUME TypeInv, RingOK, OutsideStep, NEW m \in Nat, Counted(m)
  PROVE  Counted(m)'
<1>1. ASSUME NEW r \in LocalReaders, reader[r].in_step
      PROVE  LocalAt(r, m)'
  <2>1. Still(r) /\ reader' = reader /\ socket'[r] = socket[r] /\ LocalAt(r, m) /\ r \in Readers
    BY <1>1, OutsideStill, OutsideViews, Layout DEF Counted, TypeInv, TypeOK
  <2>2. FlagsAt(r, m)' /\ ContentsAt(r, m)' /\ Due(r, m)' = Due(r, m)
    BY <2>1, StillReader DEF LocalAt
  <2>3. HoldsAt(r)'
    BY <2>1, HoldsStill, SMTT(30) DEF LocalAt
  <2>4. SocketAt(r, m)' /\ (InSocket(r, m)' <=> InSocket(r, m))
    BY <2>1, <2>2, StillSocket, SMTT(30) DEF LocalAt
  <2>5. \/ writer'.pc = "dead" 
        \/ {writer.pc, writer'.pc} \cap {"send_local", "dead"} = {}
    BY OutsideViews DEF OutsideStep
  <2> QED BY <2>1, <2>2, <2>3, <2>4, <2>5, StillSend, SMTT(30) DEF LocalAt
<1>2. reader' = reader /\ LocalReaders' = LocalReaders
  BY OutsideViews DEF LocalReaders
<1> QED BY <1>1, <1>2, OutsideWriterAt DEF Counted

\* READY goes into empty sockets.
LEMMA CountedHandshake ==
  ASSUME TypeInv, RingOK, wait_until_ready_local, NEW m \in Nat, Counted(m)
  PROVE  Counted(m)'
<1>1. m = 0 /\ writer.pc = "wait_local" /\ writer'.pc = "wait_remote"
  BY OutsideViews DEF Counted, WriterAt, TypeInv, SentOK, Unmarked
<1>2. ASSUME NEW r \in LocalReaders, reader[r].in_step
      PROVE  LocalAt(r, m)'
  <2>1. Still(r) /\ reader' = reader /\ LocalAt(r, m) /\ r \in Readers
    BY <1>2, OutsideStill, OutsideViews, Layout DEF Counted, TypeInv, TypeOK
  <2>2. FlagsAt(r, m)' /\ ContentsAt(r, m)' /\ Due(r, m)' = Due(r, m)
    BY <2>1, StillReader DEF LocalAt
  <2>3. HoldsAt(r)'
    BY <2>1, HoldsStill, SMTT(30) DEF LocalAt
  <2>4. socket[r] = << >> /\ reader[r].pc = "starting"
    BY <1>1, <2>1 DEF TypeInv, HandshakeOK, HandshakeOf, PastHandshake, Enqueuing
  <2>5. Len(socket'[r]) <= 1 /\ Len(socket'[r]) \in Nat
    <3>1. socket'[r] = Append(<< >>, READY) \/ socket'[r] = << >>
      BY <2>1, <2>4, Zenon DEF wait_until_ready_local, publish
    <3>2. Len(Append(<< >>, READY)) = 1 /\ Len(<< >>) = 0
      OBVIOUS
    <3>3. CASE socket'[r] = Append(<< >>, READY)
      BY <3>2, <3>3
    <3>4. CASE socket'[r] = << >>
      BY <3>2, <3>4
    <3> QED BY <3>1, <3>3, <3>4
  <2>6. Items(r)' = {} /\ ~(\E d : InSocket(r, d)')
    BY <2>1, <2>4, <2>5 DEF Items, Base, InSocket
  <2>7. Due(r, m) = {}
    <3>1. Consumed(r) \in Nat
      BY <2>1, CountTypes
    <3> QED BY <1>1, <2>4, <3>1 DEF Due
  <2>8. SocketAt(r, m)' /\ SendAt(r, m)'
    BY <1>1, <2>2, <2>6, <2>7 DEF SocketAt, SendAt
  <2> QED BY <2>2, <2>3, <2>8, SMTT(30) DEF LocalAt
<1>3. reader' = reader /\ LocalReaders' = LocalReaders
  BY OutsideViews DEF LocalReaders
<1> QED BY <1>2, <1>3, OutsideWriterAt DEF Counted

\* An overflow payload becomes the last one in the sockets.
LEMMA CountedOverflow ==
  ASSUME TypeInv, RingOK, send_overflow, NEW m \in Nat, Counted(m)
  PROVE  Counted(m)'
<1>1. m = Len(sent) /\ writer.pc = "send_local" /\ writer'.pc = "notify"
  BY OutsideViews DEF Counted, WriterAt, Unmarked
<1>2. ASSUME NEW r \in LocalReaders, reader[r].in_step
      PROVE  LocalAt(r, m)'
  <2>1. Still(r) /\ reader' = reader /\ LocalAt(r, m) /\ r \in Readers
    BY <1>2, OutsideStill, OutsideViews, Layout, SMTT(30) DEF Counted, TypeInv, TypeOK
  <2>2. FlagsAt(r, m)' /\ ContentsAt(r, m)' /\ Due(r, m)' = Due(r, m)
    BY <2>1, StillReader DEF LocalAt
  <2>3. HoldsAt(r)'
    BY <2>1, HoldsStill DEF LocalAt
  <2> DEFINE n == Len(socket[r])
  <2>4. /\ r \in subscribed /\ socket[r] \in Seq(Messages \cup {READY}) /\ n \in Nat
        /\ reader[r].pc = "starting" => n # 0
    BY <1>1, <2>1 DEF TypeInv, TypeOK, HandshakeOK, HandshakeOf, PastHandshake, Enqueuing
  <2>5. m \in Messages
    BY <1>1 DEF TypeInv, TypeOK, SentOK, Enqueuing, Messages
  <2>6. /\ Len(socket'[r]) = n + 1 /\ socket'[r][n + 1] = m
        /\ \A i \in 1 .. n : socket'[r][i] = socket[r][i]
    <3>1. socket'[r] = Append(socket[r], m)
      BY <1>1, <2>1, <2>4 DEF send_overflow, publish
    <3> QED BY <2>4, <2>5, <3>1, AppendFacts
  <2>7. Items(r)' = Items(r) \cup {n + 1} /\ n + 1 \notin Items(r) /\ Items(r) \subseteq 1 .. n
    BY <2>1, <2>4, <2>6 DEF Items, Base
  <2>8. \A i \in Items(r) : socket[r][i] < m
    <3> TAKE i \in Items(r)
    <3>1. socket[r][i] \in Due(r, m) /\ socket[r][i] # m
      BY <1>1, <2>1 DEF LocalAt, SocketAt, SendAt, InSocket
    <3>2. Consumed(r) \in Nat
      BY <2>1, CountTypes
    <3> QED BY <3>1, <3>2 DEF Due
  <2>9. InSocket(r, m)' /\ \A d : InSocket(r, d) => InSocket(r, d)'
    BY <2>6, <2>7 DEF InSocket
  <2>10. \A i, j \in Items(r)' : i < j => socket'[r][i] < socket'[r][j]
    <3> SUFFICES ASSUME NEW i \in Items(r)', NEW j \in Items(r)', i < j
                 PROVE  socket'[r][i] < socket'[r][j]
      OBVIOUS
    <3>1. i \in Items(r) /\ i \in 1 .. n
      BY <2>4, <2>7
    <3>2. CASE j \in Items(r)
      BY <2>1, <2>6, <2>7, <3>1, <3>2 DEF LocalAt, SocketAt
    <3>3. CASE j = n + 1
      BY <2>6, <2>8, <3>1, <3>3, SMTT(30)
    <3> QED BY <2>7, <3>2, <3>3
  <2>11. \A i \in Items(r)' : socket'[r][i] \in Due(r, m)
    BY <1>1, <2>1, <2>6, <2>7, SMTT(30) DEF LocalAt, SocketAt, SendAt
  <2>12. SocketAt(r, m)'
    BY <2>1, <2>2, <2>9, <2>10, <2>11 DEF LocalAt, SocketAt
  <2>13. SendAt(r, m)'
    BY <1>1, <2>9 DEF SendAt
  <2> QED BY <2>2, <2>3, <2>12, <2>13, SMTT(30) DEF LocalAt
<1>3. reader' = reader /\ LocalReaders' = LocalReaders
  BY OutsideViews, SMTT(30) DEF LocalReaders
<1> QED BY <1>2, <1>3, OutsideWriterAt DEF Counted

\* Steps of a reader outside a chunk that receive nothing.
IdleStep(r) ==
  read_timeout(r) \/ wait_busy(r) \/ wait_idle(r) \/ create_from_handle(r)
    \/ busy_period_ends(r) \/ shutdown(r)

\* Steps of a reader towards and inside a chunk, but the mark.
ChunkStep(r) == check_flags(r) \/ read_header(r) \/ read_body(r)

\* All steps of reader r and of its process's monitor thread.
AnyStep(r) ==
  IdleStep(r) \/ ChunkStep(r) \/ mark_read(r) \/ wait_until_ready_reader(r) \/ recv(r)
    \/ recv_timeout(r)

=============================================================================

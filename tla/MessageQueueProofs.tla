------------------------- MODULE MessageQueueProofs -------------------------
(***************************************************************************)
(* The theorems on the broadcast queue, for every number of readers,       *)
(* chunks and messages: type correctness, mutual exclusion between the     *)
(* writer and the readers, exact flags, and exactly-once delivery in       *)
(* order.  That the steps preserve the invariants of the ring buffer is    *)
(* proved in MessageQueueRing on the premise CountTells, a fact about      *)
(* finite sets.  Here are the steps of the readers, the remote readers and *)
(* the refinement.                                                         *)
(***************************************************************************)
EXTENDS MessageQueueRing, FiniteSetTheorems

-----------------------------------------------------------------------------
(* Delivery: what a reader does, and the invariant of the local readers *)

\* What each step of a reader does to sockets and results.
LEMMA ReaderData ==
  ASSUME TypeInv, NEW r \in Readers
  PROVE  /\ AnyStep(r) =>
              /\ UNCHANGED <<handle, writer, sent>>
              /\ \A q \in Readers \ {r} : /\ reader'[q] = reader[q] /\ socket'[q] = socket[q]
                                          /\ received'[q] = received[q]
         /\ IdleStep(r) =>
              /\ UNCHANGED <<ring, socket, received>>
              /\ reader'[r].current_idx = reader[r].current_idx
              /\ reader'[r].in_step = reader[r].in_step
              /\ \/ reader[r].pc = "wait" /\ reader'[r].pc \in {"ready", "stopped"}
                 \/ reader'[r].pc = reader[r].pc /\ reader'[r].header = reader[r].header
         /\ ChunkStep(r) => UNCHANGED <<socket, received>>
         /\ mark_read(r) =>
              /\ UNCHANGED socket
              /\ received'[r] = IF reader[r].header # OVERFLOW /\ reader[r].in_step
                                THEN Append(received[r], reader[r].header) ELSE received[r]
         /\ wait_until_ready_reader(r) =>
              /\ UNCHANGED <<ring, received>> /\ socket[r] # << >>
              /\ socket'[r] = Tail(socket[r])
              /\ reader'[r].current_idx = reader[r].current_idx
              /\ reader'[r].in_step = reader[r].in_step
              /\ reader[r].pc = "starting" /\ reader'[r].pc \in {"ready", "failed"}
         /\ recv(r) =>
              /\ UNCHANGED ring /\ socket[r] # << >>
              /\ socket'[r] = Tail(socket[r])
              /\ reader'[r].current_idx = reader[r].current_idx
              /\ reader'[r].in_step = reader[r].in_step
              /\ reader[r].pc = IF r \in LocalReaders THEN "recv" ELSE "ready"
              /\ reader'[r].pc = "ready"
              /\ received'[r] = IF reader[r].in_step THEN Append(received[r], Head(socket[r]))
                                ELSE received[r]
         /\ recv_timeout(r) =>
              /\ UNCHANGED <<ring, socket, received>> /\ r \in LocalReaders
              /\ ~reader'[r].in_step
<1>1. /\ reader \in [Readers -> ReaderStates]
      /\ socket \in [Readers -> Seq(Messages \cup {READY})]
      /\ received \in [Readers -> Seq(Messages \cup {NONE})]
  BY DEF TypeInv, TypeOK
<1> USE <1>1 DEF ReaderStates, sockets, Goto
<1> DEFINE Others == /\ UNCHANGED <<handle, writer, sent>>
                     /\ \A q \in Readers \ {r} : /\ reader'[q] = reader[q]
                                                 /\ socket'[q] = socket[q]
                                                 /\ received'[q] = received[q]
           Idle == /\ UNCHANGED <<ring, socket, received>>
                   /\ reader'[r].current_idx = reader[r].current_idx
                   /\ reader'[r].in_step = reader[r].in_step
                   /\ \/ reader[r].pc = "wait" /\ reader'[r].pc \in {"ready", "stopped"}
                      \/ reader'[r].pc = reader[r].pc /\ reader'[r].header = reader[r].header
<1>2. ASSUME IdleStep(r) PROVE Others /\ Idle
  <2>1. CASE read_timeout(r)
    BY <2>1 DEF read_timeout
  <2>2. CASE wait_busy(r)
    BY <2>2 DEF wait_busy, AfterWait
  <2>3. CASE wait_idle(r)
    BY <2>3 DEF wait_idle, AfterWait
  <2>4. CASE create_from_handle(r)
    BY <2>4 DEF create_from_handle
  <2>5. CASE busy_period_ends(r)
    BY <2>5 DEF busy_period_ends
  <2>6. CASE shutdown(r)
    BY <2>6 DEF shutdown, Close
  <2> QED BY <1>2, <2>1, <2>2, <2>3, <2>4, <2>5, <2>6, Zenon DEF IdleStep
<1>3. ASSUME ChunkStep(r) PROVE Others /\ UNCHANGED <<socket, received>>
  <2>1. CASE check_flags(r)
    BY <2>1 DEF check_flags
  <2>2. CASE read_header(r)
    BY <2>2 DEF read_header
  <2>3. CASE read_body(r)
    BY <2>3 DEF read_body
  <2> QED BY <1>3, <2>1, <2>2, <2>3 DEF ChunkStep
<1>4. ASSUME mark_read(r)
      PROVE  /\ Others /\ UNCHANGED socket
             /\ received'[r] = IF reader[r].header # OVERFLOW /\ reader[r].in_step
                               THEN Append(received[r], reader[r].header) ELSE received[r]
  BY <1>4 DEF mark_read
<1>5. ASSUME wait_until_ready_reader(r)
      PROVE  /\ Others /\ UNCHANGED <<ring, received>> /\ socket[r] # << >>
             /\ socket'[r] = Tail(socket[r])
             /\ reader'[r].current_idx = reader[r].current_idx
             /\ reader'[r].in_step = reader[r].in_step
             /\ reader[r].pc = "starting" /\ reader'[r].pc \in {"ready", "failed"}
  BY <1>5 DEF wait_until_ready_reader
<1>6. ASSUME recv(r)
      PROVE  /\ Others /\ UNCHANGED ring /\ socket[r] # << >>
             /\ socket'[r] = Tail(socket[r])
             /\ reader'[r].current_idx = reader[r].current_idx
             /\ reader'[r].in_step = reader[r].in_step
             /\ reader[r].pc = IF r \in LocalReaders THEN "recv" ELSE "ready"
             /\ reader'[r].pc = "ready"
             /\ received'[r] = IF reader[r].in_step THEN Append(received[r], Head(socket[r]))
                               ELSE received[r]
  BY <1>6 DEF recv, InRecv, return
<1>7. ASSUME recv_timeout(r)
      PROVE  /\ Others /\ UNCHANGED <<ring, socket, received>> /\ r \in LocalReaders
             /\ ~reader'[r].in_step
  BY <1>7 DEF recv_timeout
<1> QED BY <1>2, <1>3, <1>4, <1>5, <1>6, <1>7 DEF AnyStep

\* A reader's step leaves alone what another has still to read.
LEMMA OthersStill ==
  ASSUME TypeInv, NEW r \in Readers, AnyStep(r), NEW q \in LocalReaders, q # r
  PROVE  Still(q)
<1>1. /\ q \in Readers /\ handle' = handle /\ reader'[q] = reader[q] /\ received'[q] = received[q]
      /\ max_chunks' = max_chunks /\ ring \in [0 .. max_chunks - 1 -> Chunks]
  BY Layout, ReaderData, SMTT(30) DEF TypeInv, TypeOK, max_chunks
<1>2. \A c \in 0 .. max_chunks - 1 :
        /\ ring'[c].written = ring[c].written /\ (q \in ring'[c].read <=> q \in ring[c].read)
        /\ ring'[c].header = ring[c].header /\ ring'[c].body = ring[c].body
  <2>1. CASE mark_read(r)
    <3> DEFINE i == reader[r].current_idx
    <3>1. /\ i \in DOMAIN ring /\ OnlyChunk(i)
          /\ ring'[i].written = ring[i].written /\ ring'[i].read = ring[i].read \cup {r}
          /\ ring'[i].header = ring[i].header /\ ring'[i].body = ring[i].body
      BY <2>1, ReaderViews, Zenon
    <3>2. DOMAIN ring = 0 .. max_chunks - 1
      BY <1>1, Zenon
    <3> HIDE DEF i
    <3>3. \A c \in 0 .. max_chunks - 1 : c # i => ring'[c] = ring[c]
      BY <3>1, <3>2, Zenon DEF OnlyChunk
    <3>4. q \in ring'[i].read <=> q \in ring[i].read
      BY <3>1, Zenon
    <3> QED BY <3>1, <3>3, <3>4, Zenon
  <2>2. CASE ~mark_read(r)
    <3>1. ring' = ring
      BY <2>2, ReaderData, ReaderViews, Zenon DEF AnyStep, ChunkStep
    <3> QED BY <3>1
  <2> QED BY <2>1, <2>2, SMTT(30)
<1>3. Unread(q)' = Unread(q)
  BY <1>1, <1>2 DEF Unread
<1>4. Consumed(q)' = Consumed(q)
  BY <1>1, SMTT(30) DEF Consumed
<1> QED BY <1>1, <1>2, <1>3, <1>4, SMTT(30) DEF Still, Unread

\* It preserves the invariant of the others.
LEMMA OthersLocalAt ==
  ASSUME TypeInv, RingOK, NEW r \in Readers, AnyStep(r), NEW q \in LocalReaders, q # r,
         NEW m \in Nat, LocalAt(q, m)
  PROVE  LocalAt(q, m)'
<1>1. Still(q) /\ q \in Readers /\ reader'[q] = reader[q] /\ socket'[q] = socket[q] /\ writer' = writer
  BY OthersStill, Layout, ReaderData, SMTT(30) DEF TypeInv, TypeOK
<1>2. FlagsAt(q, m)' /\ ContentsAt(q, m)' /\ Due(q, m)' = Due(q, m)
  BY <1>1, StillReader, SMTT(30) DEF LocalAt
<1>3. HoldsAt(q)'
  BY <1>1, HoldsStill DEF LocalAt
<1>4. SocketAt(q, m)' /\ (InSocket(q, m)' <=> InSocket(q, m))
  BY <1>1, <1>2, StillSocket, ZenonT(30) DEF LocalAt
<1> QED BY <1>1, <1>2, <1>3, <1>4, StillSend, SMTT(30) DEF LocalAt

\* It preserves the writer's part.
LEMMA ReaderWriterAt ==
  ASSUME TypeInv, RingOK, NEW r \in Readers, AnyStep(r), NEW m \in Nat, WriterAt(m)
  PROVE  WriterAt(m)'
<1>1. UNCHANGED <<handle, writer, sent>> /\ max_chunks' = max_chunks
  BY ReaderData, SMTT(30) DEF max_chunks
<1>2. /\ ring'[writer.current_idx].header = ring[writer.current_idx].header
      /\ ring'[writer.current_idx].body = ring[writer.current_idx].body
  <2>1. CASE mark_read(r)
    BY <2>1, ReaderViews, WriterViews, Zenon DEF OnlyChunk
  <2>2. CASE ~mark_read(r)
    BY <2>2, ReaderData, ReaderViews, Zenon DEF AnyStep, ChunkStep
  <2> QED BY <2>1, <2>2
<1> QED BY <1>1, <1>2, SMTT(30) DEF WriterAt

\* Before its mark a reader has still to read the same.
LEMMA OwnStill ==
  ASSUME TypeInv, NEW r \in LocalReaders, IdleStep(r) \/ ChunkStep(r) \/ wait_until_ready_reader(r)
  PROVE  Still(r)
<1>1. r \in Readers
  BY Layout DEF TypeInv, TypeOK
<1>2. UNCHANGED <<handle, ring, received>> /\ reader'[r].current_idx = reader[r].current_idx
  BY <1>1, ReaderData, ReaderViews, Zenon DEF AnyStep, ChunkStep
<1>3. reader'[r].pc = "recv" <=> reader[r].pc = "recv"
  BY <1>1, ReaderData, ReaderViews, Zenon DEF AnyStep, ChunkStep
<1> QED BY <1>2, <1>3, Zenon DEF Still, Consumed, Unread, max_chunks

\* A reader inside a chunk is inside that of its next message.
LEMMA CurrentChunk ==
  ASSUME TypeInv, RingOK, NEW r \in LocalReaders, NEW m \in Nat, FlagsAt(r, m), ContentsAt(r, m),
         reader[r].pc \in Reading
  PROVE  LET chunk == ring[reader[r].current_idx]
             k == Consumed(r)
         IN /\ k < m /\ reader[r].current_idx \in Unread(r)
            /\ \/ chunk.header = OVERFLOW
               \/ chunk.header = k + 1 /\ chunk.body = k + 1
<1> DEFINE k == Consumed(r)
<1>1. r \in Readers /\ k \in Nat /\ max_chunks \in Nat \ {0}
  BY Layout, CountTypes DEF TypeInv, TypeOK
<1>2. reader[r].current_idx \in 0 .. max_chunks - 1
  BY <1>1 DEF TypeInv, TypeOK, ReaderStates
<1>3. reader[r].current_idx \in Unread(r)
  BY <1>2 DEF RingOK, RingOf, Unread
<1>4. k < m
  BY <1>1, <1>3, WindowMember DEF FlagsAt
<1>5. k \in k .. m - 1
  BY <1>1, <1>4
<1> QED BY <1>3, <1>4, <1>5 DEF FlagsAt, ContentsAt

\* Steps outside a chunk.
LEMMA OwnIdle ==
  ASSUME TypeInv, RingOK, NEW r \in LocalReaders, IdleStep(r), NEW m \in Nat, LocalAt(r, m)
  PROVE  LocalAt(r, m)'
<1>1. Still(r) /\ r \in Readers /\ socket' = socket /\ writer' = writer
  BY OwnStill, Layout, ReaderData DEF TypeInv, TypeOK, AnyStep
<1>2. FlagsAt(r, m)' /\ ContentsAt(r, m)' /\ Due(r, m)' = Due(r, m)
  BY <1>1, StillReader, SMTT(30) DEF LocalAt
<1>3. \/ reader[r].pc = "wait" /\ reader'[r].pc \in {"ready", "stopped"}
      \/ reader'[r].pc = reader[r].pc /\ reader'[r].header = reader[r].header
  BY <1>1, ReaderData, ZenonT(30)
<1>4. HoldsAt(r)'
  <2>1. CASE reader'[r].pc = reader[r].pc /\ reader'[r].header = reader[r].header
    BY <1>1, <2>1, HoldsStill DEF LocalAt
  <2>2. CASE reader'[r].pc \in {"ready", "stopped"}
    BY <2>2 DEF HoldsAt
  <2> QED BY <1>3, <2>1, <2>2, SMTT(30)
<1>5. SocketAt(r, m)' /\ (InSocket(r, m)' <=> InSocket(r, m))
  BY <1>1, <1>2, <1>3, StillSocket, Zenon DEF LocalAt
<1> QED BY <1>1, <1>2, <1>4, <1>5, StillSend, SMTT(30) DEF LocalAt

\* Steps towards and inside a chunk.
LEMMA OwnChunk ==
  ASSUME TypeInv, RingOK, NEW r \in LocalReaders, ChunkStep(r), NEW m \in Nat, LocalAt(r, m)
  PROVE  LocalAt(r, m)'
<1>1. Still(r) /\ r \in Readers /\ socket' = socket /\ writer' = writer /\ ring' = ring
  BY OwnStill, Layout, ReaderData, ReaderViews, Zenon DEF TypeInv, TypeOK, AnyStep, ChunkStep
<1>2. FlagsAt(r, m)' /\ ContentsAt(r, m)' /\ Due(r, m)' = Due(r, m)
  BY <1>1, StillReader DEF LocalAt
<1>3. HoldsAt(r)'
  <2>1. CASE check_flags(r)
    BY <1>1, <2>1, ReaderViews, Zenon DEF HoldsAt
  <2>2. CASE read_header(r)
    BY <1>1, <2>2, ReaderViews, ZenonT(30) DEF HoldsAt
  <2>3. CASE read_body(r)
    <3>1. /\ reader[r].pc = "body" /\ reader'[r].pc = "mark"
          /\ reader'[r].current_idx = reader[r].current_idx
          /\ reader'[r].header = IF ring[reader[r].current_idx].body = reader[r].header
                                 THEN reader[r].header ELSE NONE
      BY <1>1, <2>3, ReaderViews, Zenon
    <3>2. ring[reader[r].current_idx].body = reader[r].header
      BY <3>1, CurrentChunk DEF LocalAt, HoldsAt, Reading
    <3> QED BY <1>1, <3>1, <3>2 DEF LocalAt, HoldsAt
  <2> QED BY <2>1, <2>2, <2>3 DEF ChunkStep
<1>4. reader[r].pc # "starting" /\ reader'[r].pc # "starting"
  BY <1>1, ReaderViews, Zenon DEF ChunkStep
<1>5. SocketAt(r, m)' /\ (InSocket(r, m)' <=> InSocket(r, m))
  BY <1>1, <1>2, <1>4, StillSocket, Zenon DEF LocalAt
<1> QED BY <1>1, <1>2, <1>3, <1>5, StillSend DEF LocalAt

\* READY leaves the socket.
LEMMA OwnReady ==
  ASSUME TypeInv, RingOK, NEW r \in LocalReaders, wait_until_ready_reader(r), NEW m \in Nat,
         LocalAt(r, m)
  PROVE  LocalAt(r, m)'
<1> DEFINE n == Len(socket[r])
<1>1. Still(r) /\ r \in Readers /\ writer' = writer
  BY OwnStill, Layout, ReaderData, Zenon DEF TypeInv, TypeOK, AnyStep
<1>2. FlagsAt(r, m)' /\ ContentsAt(r, m)' /\ Due(r, m)' = Due(r, m)
  BY <1>1, StillReader, SMTT(30) DEF LocalAt
<1>3. /\ reader[r].pc = "starting" /\ reader'[r].pc \in {"ready", "failed"}
      /\ socket[r] # << >> /\ socket'[r] = Tail(socket[r])
  BY <1>1, ReaderData
<1>4. HoldsAt(r)'
  BY <1>3 DEF HoldsAt
<1>5. /\ n \in Nat \ {0} /\ Len(socket'[r]) = n - 1
      /\ \A i \in 1 .. Len(socket'[r]) : socket'[r][i] = socket[r][i + 1]
  BY <1>1, <1>3, HeadFacts, SMTT(30) DEF TypeInv, TypeOK
<1>6. Items(r) = 2 .. n /\ Items(r)' = 1 .. n - 1
  BY <1>3, <1>5, SMTT(30) DEF Items, Base
<1>7. \A i \in 1 .. n - 1 : i + 1 \in Items(r) /\ socket'[r][i] = socket[r][i + 1]
  BY <1>5, <1>6, SMTT(30)
<1>8. \A d : InSocket(r, d)' <=> InSocket(r, d)
  <2>1. \A i \in 2 .. n : i - 1 \in 1 .. n - 1 /\ socket'[r][i - 1] = socket[r][i]
    BY <1>5, SMTT(30)
  <2> QED BY <1>6, <1>7, <2>1, Zenon DEF InSocket
<1>9. SocketAt(r, m)'
  <2>1. \A i, j \in 1 .. n - 1 : i < j => socket'[r][i] < socket'[r][j]
    <3> SUFFICES ASSUME NEW i \in 1 .. n - 1, NEW j \in 1 .. n - 1, i < j
                 PROVE  socket'[r][i] < socket'[r][j]
      OBVIOUS
    <3>1. i + 1 < j + 1
      BY SMTT(30)
    <3> QED BY <1>7, <3>1, SMTT(30) DEF LocalAt, SocketAt
  <2>2. \A i \in 1 .. n - 1 : socket'[r][i] \in Due(r, m)
    BY <1>7, SMTT(30) DEF LocalAt, SocketAt
  <2> QED BY <1>2, <1>6, <1>8, <2>1, <2>2, SMTT(30) DEF LocalAt, SocketAt
<1> QED BY <1>1, <1>2, <1>4, <1>8, <1>9, StillSend DEF LocalAt

\* At its mark a reader holds its next message or the overflow mark.
LEMMA MarkedHeader ==
  ASSUME TypeInv, RingOK, NEW r \in LocalReaders, mark_read(r), NEW m \in Nat, LocalAt(r, m)
  PROVE  /\ Consumed(r) = Len(received[r]) /\ Consumed(r) < m
         /\ reader[r].header = OVERFLOW \/ reader[r].header = Consumed(r) + 1
         /\ ring[Consumed(r) % max_chunks].header = reader[r].header
<1>1. r \in Readers /\ reader[r].pc = "mark"
  BY Layout, ReaderViews, SMTT(30) DEF TypeInv, TypeOK
<1>2. Len(received[r]) \in Nat
  BY <1>1, CountTypes
<1>3. reader[r].header = ring[reader[r].current_idx].header
  BY <1>1 DEF LocalAt, HoldsAt
<1>4. Consumed(r) = Len(received[r])
  BY <1>1, <1>2, SMTT(30) DEF Consumed
<1>5. FlagsAt(r, m) /\ ContentsAt(r, m) /\ reader[r].pc \in Reading
  BY <1>1 DEF LocalAt, Reading
<1>6. /\ Consumed(r) < m
      /\ \/ ring[reader[r].current_idx].header = OVERFLOW
         \/ ring[reader[r].current_idx].header = Consumed(r) + 1
  BY <1>5, CurrentChunk
<1>7. reader[r].current_idx = Consumed(r) % max_chunks
  BY <1>5 DEF FlagsAt
<1> QED BY <1>3, <1>4, <1>6, <1>7, SMTT(30)

\* The read flag takes one message off what the reader has to read.
LEMMA OwnMark ==
  ASSUME TypeInv, RingOK, NEW r \in LocalReaders, mark_read(r), NEW m \in Nat, LocalAt(r, m),
         reader[r].in_step
  PROVE  LocalAt(r, m)'
<1> DEFINE k == Consumed(r)
           N == max_chunks
           c == reader[r].current_idx
<1>1. /\ r \in Readers /\ k \in Nat /\ N \in Nat \ {0} /\ DOMAIN ring = 0 .. N - 1
      /\ Len(received[r]) \in Nat
  BY Layout, CountTypes, SMTT(30) DEF TypeInv, TypeOK
<1>2. /\ k = Len(received[r]) /\ k < m /\ m <= k + N /\ c = k % N /\ Unread(r) = Window(N, k, m)
      /\ reader[r].header = OVERFLOW \/ reader[r].header = k + 1
      /\ ring[k % N].header = reader[r].header
  BY MarkedHeader DEF LocalAt, FlagsAt
<1>3. /\ UNCHANGED <<handle, writer, sent>> /\ N' = N /\ socket' = socket
      /\ OnlyChunk(c) /\ c \in DOMAIN ring /\ reader'[r].current_idx = Next_idx(c)
      /\ ring'[c].written = ring[c].written /\ ring'[c].read = ring[c].read \cup {r}
      /\ ring'[c].header = ring[c].header /\ ring'[c].body = ring[c].body
      /\ reader[r].pc = "mark"
      /\ reader'[r].pc = IF reader[r].header # OVERFLOW THEN "ready" ELSE "recv"
      /\ received'[r] = IF reader[r].header # OVERFLOW
                        THEN Append(received[r], reader[r].header) ELSE received[r]
  BY <1>1, ReaderViews, ReaderData, Zenon DEF AnyStep, max_chunks
<1>4. Consumed(r)' = k + 1
  <2>1. CASE reader[r].header # OVERFLOW
    <3>1. received[r] \in Seq(Messages \cup {NONE})
      BY <1>1 DEF TypeInv, TypeOK
    <3>2. Len(Append(received[r], reader[r].header)) = Len(received[r]) + 1
      BY <3>1, SMTT(30)
    <3>3. Len(received'[r]) = k + 1
      BY <1>2, <1>3, <2>1, <3>2, SMTT(30)
    <3> QED BY <1>3, <2>1, <3>3 DEF Consumed
  <2>2. CASE reader[r].header = OVERFLOW
    BY <1>2, <1>3, <2>2, SMTT(30) DEF Consumed
  <2> QED BY <2>1, <2>2, SMTT(30)
<1>5. \A d \in DOMAIN ring : ring'[d].header = ring[d].header /\ ring'[d].body = ring[d].body
  BY <1>3 DEF OnlyChunk
<1>6. \A i \in Nat : i % N \in DOMAIN ring
  BY <1>1, ModFacts, SMTT(30)
<1>7. FlagsAt(r, m)'
  <2>1. reader'[r].current_idx = (k + 1) % N
    BY <1>1, <1>2, <1>3, NextIdx, ZenonT(30)
  <2>2. Unread(r)' = Unread(r) \ {c}
    <3>1. Unread(r)' = {d \in DOMAIN ring : ring'[d].written /\ r \notin ring'[d].read}
      BY <1>1, <1>3 DEF Unread
    <3>2. Unread(r) = {d \in DOMAIN ring : ring[d].written /\ r \notin ring[d].read}
      BY <1>1 DEF Unread
    <3> QED BY <1>3, <3>1, <3>2, SMTT(30) DEF OnlyChunk
  <2>3. Window(N, k + 1, m) = Window(N, k, m) \ {k % N}
    <3> HIDE DEF k, N
    <3> QED BY <1>1, <1>2, WindowShrinks, Zenon
  <2>4. k + 1 <= m /\ m <= (k + 1) + N
    BY <1>1, <1>2
  <2> QED BY <1>2, <1>3, <1>4, <2>1, <2>2, <2>3, <2>4 DEF FlagsAt
<1>8. ContentsAt(r, m)'
  <2>1. \A i \in k + 1 .. m - 1 : i \in k .. m - 1 /\ i % N \in DOMAIN ring
    <3> TAKE i \in k + 1 .. m - 1
    <3>1. i \in Nat /\ i \in k .. m - 1
      BY <1>1, SMTT(30)
    <3> QED BY <1>6, <3>1
  <2> QED BY <1>3, <1>4, <1>5, <2>1, Zenon DEF LocalAt, ContentsAt
<1>9. HoldsAt(r)'
  BY <1>3 DEF HoldsAt
<1>10. Due(r, m)' = Due(r, m)
  <2>1. Due(r, m)' = {d \in k + 1 .. m : IF d = k + 1 THEN reader'[r].pc = "recv"
                                         ELSE ring'[(d - 1) % N].header = OVERFLOW}
    BY <1>3, <1>4, SMTT(30) DEF Due
  <2>2. \A d \in k + 1 .. m : ring'[(d - 1) % N].header = ring[(d - 1) % N].header
    <3> TAKE d \in k + 1 .. m
    <3>1. d - 1 \in Nat
      BY <1>1
    <3> QED BY <1>5, <1>6, <3>1
  <2>3. (reader'[r].pc = "recv") <=> (ring[((k + 1) - 1) % N].header = OVERFLOW)
    <3>1. (k + 1) - 1 = k
      BY <1>1, SMTT(30)
    <3>2. (reader'[r].pc = "recv") <=> (reader[r].header = OVERFLOW)
      BY <1>3, SMTT(30)
    <3> QED BY <1>2, <3>1, <3>2
  <2>4. k .. m = (k + 1 .. m) \cup {k} /\ k \notin k + 1 .. m /\ k + 1 # k
    BY <1>1, <1>2, SMTT(30)
  <2> QED BY <1>3, <2>1, <2>2, <2>3, <2>4, ZenonT(30) DEF Due
<1>11. SocketAt(r, m)' /\ (InSocket(r, m)' <=> InSocket(r, m))
  BY <1>3, <1>10, StillSocket DEF LocalAt
<1> QED BY <1>3, <1>7, <1>8, <1>9, <1>10, <1>11, StillSend, Zenon DEF LocalAt

\* The first payload in the socket belongs to the chunk last read.
LEMMA HeadIsDue ==
  ASSUME TypeInv, NEW r \in LocalReaders, NEW m \in Nat, LocalAt(r, m),
         reader[r].pc = "recv", socket[r] # << >>
  PROVE  Head(socket[r]) = Consumed(r) /\ Consumed(r) = Len(received[r]) + 1
<1> DEFINE k == Consumed(r)
           n == Len(socket[r])
<1>1. r \in Readers /\ k \in Nat
  BY Layout, CountTypes DEF TypeInv, TypeOK
<1>2. n \in Nat \ {0} /\ Head(socket[r]) = socket[r][1] /\ Items(r) = 1 .. n
  BY <1>1, HeadFacts, SMTT(30) DEF TypeInv, TypeOK, Items, Base
<1>3. socket[r][1] \in Due(r, m) /\ k <= socket[r][1] /\ socket[r][1] <= m
      /\ socket[r][1] \in Nat
  BY <1>1, <1>2, SMTT(30) DEF LocalAt, SocketAt, Due
<1>4. k \in Due(r, m)
  BY <1>1 DEF Due, LocalAt, FlagsAt
<1>5. CASE k = m
  BY <1>1, <1>2, <1>3, <1>5 DEF Consumed
<1>6. CASE k # m
  <2>1. PICK j \in 1 .. n : socket[r][j] = k
    BY <1>2, <1>4, <1>6, SMTT(30) DEF LocalAt, SocketAt, InSocket
  <2>2. j # 1 => socket[r][1] < k
    BY <1>2, <2>1 DEF LocalAt, SocketAt
  <2>3. socket[r][1] = k
    BY <1>1, <1>3, <2>1, <2>2
  <2> QED BY <1>2, <2>3, SMTT(30) DEF Consumed
<1> QED BY <1>5, <1>6

\* The payload leaves the socket.
LEMMA OwnRecv ==
  ASSUME TypeInv, RingOK, NEW r \in LocalReaders, recv(r), NEW m \in Nat, LocalAt(r, m),
         reader[r].in_step
  PROVE  LocalAt(r, m)'
<1> DEFINE k == Consumed(r)
           N == max_chunks
           n == Len(socket[r])
<1>1. r \in Readers /\ k \in Nat /\ N \in Nat \ {0} /\ Len(received[r]) \in Nat
  BY Layout, CountTypes DEF TypeInv, TypeOK
<1>2. /\ UNCHANGED <<handle, writer, sent, ring>> /\ N' = N /\ socket[r] # << >>
      /\ socket'[r] = Tail(socket[r]) /\ reader'[r].current_idx = reader[r].current_idx
      /\ reader[r].pc = "recv" /\ reader'[r].pc = "ready"
      /\ received'[r] = Append(received[r], Head(socket[r]))
  BY <1>1, ReaderData, Zenon DEF AnyStep, max_chunks
<1>3. Head(socket[r]) = k /\ k = Len(received[r]) + 1
  BY <1>2, HeadIsDue, SMTT(30)
<1>4. Consumed(r)' = k
  <2>1. received[r] \in Seq(Messages \cup {NONE})
    BY <1>1 DEF TypeInv, TypeOK
  <2>2. Len(received'[r]) = Len(received[r]) + 1
    BY <1>2, <2>1, SMTT(30)
  <2> QED BY <1>1, <1>2, <1>3, <2>2 DEF Consumed
<1>5. FlagsAt(r, m)'
  <2>1. Unread(r)' = Unread(r)
    BY <1>2, SMTT(30) DEF Unread
  <2> QED BY <1>2, <1>4, <2>1, SMTT(30) DEF LocalAt, FlagsAt
<1>6. ContentsAt(r, m)'
  BY <1>2, <1>4, SMTT(30) DEF LocalAt, ContentsAt
<1>7. HoldsAt(r)'
  BY <1>2, SMTT(30) DEF HoldsAt
<1>8. Due(r, m)' = Due(r, m) \ {k}
  BY <1>2, <1>4, SMTT(30) DEF Due
<1>9. /\ n \in Nat \ {0} /\ Len(socket'[r]) = n - 1 /\ socket[r][1] = k
      /\ \A i \in 1 .. Len(socket'[r]) : socket'[r][i] = socket[r][i + 1]
  BY <1>1, <1>2, <1>3, HeadFacts, SMTT(30) DEF TypeInv, TypeOK
<1>10. Items(r) = 1 .. n /\ Items(r)' = 1 .. n - 1
  BY <1>2, <1>9, SMTT(30) DEF Items, Base
<1>11. \A i \in 1 .. n - 1 : /\ i + 1 \in Items(r) /\ socket'[r][i] = socket[r][i + 1]
                             /\ k < socket[r][i + 1]
  <2> SUFFICES ASSUME NEW i \in 1 .. n - 1
               PROVE  i + 1 \in Items(r) /\ socket'[r][i] = socket[r][i + 1] /\ k < socket[r][i + 1]
    BY Zenon
  <2>1. i + 1 \in Items(r) /\ 1 \in Items(r) /\ 1 < i + 1 /\ socket'[r][i] = socket[r][i + 1]
    BY <1>9, <1>10, SMTT(30)
  <2> QED BY <1>9, <2>1, SMTT(30) DEF LocalAt, SocketAt
<1>12. \A d \in Due(r, m) \ {k} : InSocket(r, d) => InSocket(r, d)'
  <2> SUFFICES ASSUME NEW d \in Due(r, m) \ {k}, InSocket(r, d)
               PROVE  InSocket(r, d)'
    OBVIOUS
  <2>1. PICK j \in 1 .. n : socket[r][j] = d
    BY <1>10 DEF InSocket
  <2>2. j # 1
    BY <1>9, <2>1, SMTT(30)
  <2>3. j - 1 \in 1 .. n - 1 /\ (j - 1) + 1 = j
    BY <1>9, <2>1, <2>2, SMTT(30)
  <2>4. socket'[r][j - 1] = d
    BY <1>11, <2>1, <2>3, SMTT(30)
  <2> QED BY <1>10, <2>3, <2>4 DEF InSocket
<1>13. SocketAt(r, m)'
  <2>1. \A i, j \in 1 .. n - 1 : i < j => socket'[r][i] < socket'[r][j]
    <3> SUFFICES ASSUME NEW i \in 1 .. n - 1, NEW j \in 1 .. n - 1, i < j
                 PROVE  socket'[r][i] < socket'[r][j]
      OBVIOUS
    <3>1. i + 1 < j + 1
      OBVIOUS
    <3> QED BY <1>11, <3>1, SMTT(30) DEF LocalAt, SocketAt
  <2>2. \A i \in 1 .. n - 1 : socket'[r][i] \in Due(r, m) \ {k}
    BY <1>1, <1>11, SMTT(30) DEF LocalAt, SocketAt
  <2> QED BY <1>8, <1>10, <1>12, <2>1, <2>2, SMTT(30) DEF LocalAt, SocketAt
<1>14. SendAt(r, m)'
  <2>1. \A d : InSocket(r, d)' => InSocket(r, d)
    BY <1>10, <1>11, SMTT(30) DEF InSocket
  <2>2. writer.pc = "send_local" => m # k
    <3>1. 1 \in Items(r)
      BY <1>9, <1>10
    <3>2. InSocket(r, k)
      BY <1>9, <3>1, ZenonT(30) DEF InSocket
    <3> QED BY <3>2, Zenon DEF LocalAt, SendAt
  <2> QED BY <1>2, <1>8, <1>12, <2>1, <2>2, SMTT(30) DEF LocalAt, SendAt
<1> QED BY <1>5, <1>6, <1>7, <1>13, <1>14, SMTT(30) DEF LocalAt

\* Only a time-out of recv takes a reader out of step.
LEMMA StepKeepsStep ==
  ASSUME TypeInv, NEW r \in Readers, AnyStep(r)
  PROVE  /\ reader'[r].in_step => reader[r].in_step
         /\ ~recv_timeout(r) => reader'[r].in_step = reader[r].in_step
<1>1. CASE recv_timeout(r)
  BY <1>1, ReaderData, ZenonT(30)
<1>2. CASE IdleStep(r) \/ wait_until_ready_reader(r) \/ recv(r)
  BY <1>2, ReaderData
<1>3. CASE ChunkStep(r) \/ mark_read(r)
  BY <1>3, ReaderViews, ZenonT(30) DEF ChunkStep
<1> QED BY <1>1, <1>2, <1>3 DEF AnyStep

\* A reader's step preserves the invariant.
LEMMA CountedReader ==
  ASSUME TypeInv, RingOK, NEW r \in Readers, AnyStep(r), NEW m \in Nat, Counted(m)
  PROVE  Counted(m)'
<1>1. WriterAt(m)'
  BY ReaderWriterAt DEF Counted
<1>2. LocalReaders' = LocalReaders /\ LocalReaders \subseteq Readers
  BY ReaderData, Layout, Zenon DEF LocalReaders, TypeInv, TypeOK
<1>3. ASSUME NEW q \in LocalReaders, reader'[q].in_step
      PROVE  LocalAt(q, m)'
  <2>1. CASE q # r
    <3>1. reader[q].in_step
      BY <1>2, <1>3, <2>1, ReaderData, ZenonT(30)
    <3> QED BY <2>1, <3>1, OthersLocalAt DEF Counted
  <2>2. CASE q = r
    <3>1. reader[r].in_step /\ r \in LocalReaders /\ LocalAt(r, m)
      BY <1>3, <2>2, StepKeepsStep, SMTT(30) DEF Counted
    <3>2. ~recv_timeout(r)
      BY <1>3, <2>2, ReaderData
    <3> QED BY <2>2, <3>1, <3>2, OwnIdle, OwnChunk, OwnReady, OwnMark, OwnRecv DEF AnyStep
  <2> QED BY <2>1, <2>2
<1> QED BY <1>1, <1>2, <1>3 DEF Counted

\* No chunk is marked when the queue is created.
LEMMA CountedInit == Init => Counted(0)
<1> SUFFICES ASSUME Init PROVE Counted(0)
  OBVIOUS
<1>1. LocalReaders \subseteq Readers /\ max_chunks \in Nat \ {0}
  BY Layout DEF Init
<1>2. 0 % max_chunks = 0
  BY <1>1, ModUnique, SMTT(30)
<1>3. WriterAt(0)
  BY <1>2, SMTT(30) DEF Init, WriterAt, Unmarked
<1>4. ASSUME NEW r \in LocalReaders
      PROVE  LocalAt(r, 0)
  <2>1. r \in Readers
    BY <1>1, <1>4, SMTT(30)
  <2>2. received[r] = << >> /\ reader[r].pc = "starting" /\ reader[r].current_idx = 0
        /\ socket[r] = << >>
    BY <2>1 DEF Init
  <2>3. Consumed(r) = 0
    BY <2>2, SMTT(30) DEF Consumed
  <2>4. Unread(r) = {}
    BY DEF Init, Unread
  <2>5. FlagsAt(r, 0)
    BY <1>1, <1>2, <2>2, <2>3, <2>4, WindowEmpty, SMTT(30) DEF FlagsAt
  <2>6. ContentsAt(r, 0)
    BY <2>3 DEF ContentsAt
  <2>7. Due(r, 0) = {}
    <3>1. 0 .. 0 = {0}
      OBVIOUS
    <3> QED BY <2>2, <2>3, <3>1 DEF Due
  <2>8. Items(r) = {}
    BY <2>2 DEF Items, Base
  <2> QED BY <2>2, <2>5, <2>6, <2>7, <2>8
          DEF Init, LocalAt, HoldsAt, SocketAt, SendAt
<1> QED BY <1>3, <1>4 DEF Counted

\* The invariant of the local readers, for some number of marked chunks.
LocalOK == \E m \in Nat : Counted(m)

\* The kinds of steps.
LEMMA StepKinds ==
  ASSUME Next
  PROVE  \/ InsideStep \/ mark_written \/ OutsideStep \/ wait_until_ready_local \/ send_overflow
         \/ \E r \in Readers : AnyStep(r)
BY DEF Next, WriterStep, ReaderStep, InsideStep, OutsideStep, AnyStep, IdleStep, ChunkStep

\* Every step preserves the local readers' invariant.
LEMMA LocalStep ==
  ASSUME CountTells, TypeInv, RingOK, RingOK', LocalOK, Next
  PROVE  LocalOK'
<1>1. PICK m \in Nat : Counted(m)
  BY DEF LocalOK
<1>2. CASE mark_written
  <2>1. m + 1 \in Nat /\ Counted(m + 1)'
    BY <1>1, <1>2, CountedMark
  <2> QED BY <2>1 DEF LocalOK
<1>3. CASE ~mark_written
  <2>1. Counted(m)'
    BY <1>1, <1>3, StepKinds, CountedInside, CountedOutside, CountedHandshake, CountedOverflow,
       CountedReader, SMTT(30)
  <2> QED BY <2>1 DEF LocalOK
<1> QED BY <1>2, <1>3

\* So does a step that changes nothing.
LEMMA LocalStutter == LocalOK /\ UNCHANGED vars => LocalOK'
<1> SUFFICES ASSUME LocalOK, UNCHANGED vars PROVE LocalOK'
  OBVIOUS
<1>1. PICK m \in Nat : Counted(m)
  BY DEF LocalOK
<1>2. UNCHANGED <<handle, ring, writer, reader, socket, sent, received>>
  BY DEF vars, sockets
<1>3. Counted(m)'
  <2>1. UNCHANGED <<LocalReaders, max_chunks>>
    BY <1>2 DEF LocalReaders, max_chunks
  <2>2. WriterAt(m)' <=> WriterAt(m)
    BY <1>2, <2>1 DEF WriterAt
  <2>3. ASSUME NEW r \in LocalReaders
        PROVE  LocalAt(r, m)' <=> LocalAt(r, m)
    <3>1. Consumed(r)' = Consumed(r) /\ Unread(r)' = Unread(r) /\ Items(r)' = Items(r)
      BY <1>2, <2>1, SMTT(30) DEF Consumed, Unread, Items, Base
    <3>2. Due(r, m)' = Due(r, m) /\ (FlagsAt(r, m)' <=> FlagsAt(r, m))
      BY <1>2, <2>1, <3>1, SMTT(30) DEF Due, FlagsAt
    <3>3. (ContentsAt(r, m)' <=> ContentsAt(r, m)) /\ (HoldsAt(r)' <=> HoldsAt(r))
      BY <1>2, <2>1, <3>1 DEF ContentsAt, HoldsAt
    <3>4. \A d : InSocket(r, d)' <=> InSocket(r, d)
      BY <1>2, <3>1, SMTT(30) DEF InSocket
    <3>5. SocketAt(r, m)' <=> SocketAt(r, m)
      BY <1>2, <3>1, <3>2, <3>4, SMTT(30) DEF SocketAt
    <3>6. SendAt(r, m)' <=> SendAt(r, m)
      BY <1>2, <3>2, <3>4 DEF SendAt
    <3> QED BY <3>2, <3>3, <3>5, <3>6, SMTT(30) DEF LocalAt
  <2> QED BY <1>1, <1>2, <2>1, <2>2, <2>3 DEF Counted
<1> QED BY <1>3 DEF LocalOK
-----------------------------------------------------------------------------
(* The remote readers and the refinement *)

\* acquire_write counts read flags: as many as there are local readers are all.
LEMMA AllHaveRead == TypeInv => CountTells
<1> SUFFICES ASSUME TypeInv PROVE CountTells
  OBVIOUS
<1>1. LocalReaders \subseteq Readers
  BY Layout DEF TypeInv, TypeOK
<1>2. IsFiniteSet(Readers)
  BY QueueAssumption, FS_Interval DEF Readers
<1>3. IsFiniteSet(LocalReaders)
  BY <1>1, <1>2, FS_Subset
<1>4. \A read \in SUBSET LocalReaders :
        /\ Cardinality(read) \in Nat /\ Cardinality(LocalReaders) \in Nat
        /\ Cardinality(read) <= Cardinality(LocalReaders)
        /\ Cardinality(read) = Cardinality(LocalReaders) => read = LocalReaders
  BY <1>3, FS_Subset, FS_CardinalityType
<1> QED BY <1>4 DEF CountTells, n_local_reader


\* The messages in the socket of remote reader r.
Held(r) == IF Len(socket[r]) < Base(r) THEN 0 ELSE Len(socket[r]) - Base(r)

\* Remote reader r has received, or holds in its socket, all messages sent to
\* it, in order.
RemoteAt(r) ==
  /\ reader[r].in_step
  /\ \A i \in Items(r) : socket[r][i] = Len(received[r]) + i - Base(r)
  /\ Len(received[r]) + Held(r) <= Len(sent)
  /\ writer.pc # "dead" =>
       Len(received[r]) + Held(r) = IF writer.pc \in Enqueuing THEN Len(sent) - 1 ELSE Len(sent)

\* All remote readers.
RemoteOK == \A r \in RemoteReaders : RemoteAt(r)

\* A step that leaves remote reader r's messages alone.
RemoteStill(r) ==
  /\ socket'[r] = socket[r] /\ received'[r] = received[r] /\ reader'[r].in_step = reader[r].in_step
  /\ (reader'[r].pc = "starting") <=> (reader[r].pc = "starting")

\* A step that leaves a remote reader's messages alone preserves its part.
LEMMA RemoteFrame ==
  ASSUME NEW r, RemoteAt(r), RemoteStill(r), sent' = sent,
         \/ writer'.pc = "dead"
         \/ (writer.pc # "dead" /\ (writer'.pc \in Enqueuing <=> writer.pc \in Enqueuing))
  PROVE  RemoteAt(r)'
<1>1. Base(r)' = Base(r)
  BY DEF RemoteStill, Base
<1>2. Items(r)' = Items(r) /\ Held(r)' = Held(r)
  BY <1>1 DEF RemoteStill, Items, Held
<1> QED BY <1>1, <1>2 DEF RemoteAt, RemoteStill

\* What the writer's steps do to a remote reader's socket.
LEMMA RemoteViews ==
  ASSUME TypeInv, NEW r \in RemoteReaders
  PROVE  /\ r \in Readers /\ r \notin LocalReaders
         /\ acquire_write \/ write_header \/ write_body \/ reset_read_flags \/ mark_written =>
              /\ UNCHANGED <<reader, socket, sent, received>>
              /\ writer.pc \in Enqueuing /\ writer'.pc \in Enqueuing
         /\ wait_until_ready_local \/ send_overflow \/ notify \/ writer_dies \/ enqueue =>
              socket'[r] = socket[r]
         /\ wait_until_ready_remote =>
              r \in subscribed /\ socket'[r] = Append(socket[r], READY)
         /\ send_remote =>
              socket'[r] = IF r \in subscribed THEN Append(socket[r], Len(sent)) ELSE socket[r]
<1>1. r \in Readers /\ r \notin LocalReaders /\ writer \in WriterStates
      /\ socket \in [Readers -> Seq(Messages \cup {READY})]
  BY DEF RemoteReaders, TypeInv, TypeOK
<1>2. ASSUME acquire_write \/ write_header \/ write_body \/ reset_read_flags \/ mark_written
      PROVE  /\ UNCHANGED <<reader, socket, sent, received>>
             /\ writer.pc \in Enqueuing /\ writer'.pc \in Enqueuing
  <2>1. UNCHANGED <<reader, socket, sent, received>>
    BY <1>2, WriterViews, WriterData, SMTT(30)
  <2>2. writer.pc \in Enqueuing /\ writer'.pc \in Enqueuing
    BY <1>2, WriterViews, WriterData DEF Enqueuing
  <2> QED BY <2>1, <2>2
<1>3. ASSUME wait_until_ready_local \/ send_overflow
      PROVE  socket'[r] = socket[r]
  BY <1>1, <1>3 DEF wait_until_ready_local, send_overflow, publish
<1>4. ASSUME notify \/ writer_dies \/ enqueue
      PROVE  socket'[r] = socket[r]
  BY <1>4, Zenon DEF notify, Notify, writer_dies, enqueue, sockets
<1>5. ASSUME wait_until_ready_remote
      PROVE  r \in subscribed /\ socket'[r] = Append(socket[r], READY)
  BY <1>1, <1>5 DEF wait_until_ready_remote, publish
<1>6. ASSUME send_remote
      PROVE  socket'[r] = IF r \in subscribed THEN Append(socket[r], Len(sent)) ELSE socket[r]
  BY <1>1, <1>6 DEF send_remote, publish
<1> QED BY <1>1, <1>2, <1>3, <1>4, <1>5, <1>6, SMTT(30)

\* A new message is still to be sent.
LEMMA RemoteEnqueue ==
  ASSUME TypeInv, NEW r \in RemoteReaders, RemoteAt(r), enqueue
  PROVE  RemoteAt(r)'
<1>1. /\ UNCHANGED <<reader, received>> /\ socket'[r] = socket[r]
      /\ writer.pc = "ready" /\ writer'.pc = "acquire" /\ Len(sent') = Len(sent) + 1
  BY OutsideViews, RemoteViews DEF OutsideStep
<1>2. Len(sent) \in Nat /\ Len(received[r]) \in Nat /\ Len(socket[r]) \in Nat
  BY RemoteViews, CountTypes
<1>3. Base(r)' = Base(r) /\ Base(r) \in {0, 1}
  BY <1>1 DEF Base
<1>4. Items(r)' = Items(r) /\ Held(r)' = Held(r) /\ Held(r) \in Nat
  BY <1>1, <1>2, <1>3 DEF Items, Held
<1> QED BY <1>1, <1>2, <1>3, <1>4, SMTT(30) DEF RemoteAt, Enqueuing

\* READY goes into an empty socket.
LEMMA RemoteReady ==
  ASSUME TypeInv, NEW r \in RemoteReaders, RemoteAt(r), wait_until_ready_remote
  PROVE  RemoteAt(r)'
<1>1. /\ UNCHANGED <<reader, received, sent>> /\ socket'[r] = Append(socket[r], READY)
      /\ writer.pc = "wait_remote" /\ writer'.pc = "ready" /\ r \in Readers /\ r \notin LocalReaders
  BY OutsideViews, RemoteViews DEF OutsideStep
<1>2. socket[r] = << >> /\ reader[r].pc = "starting"
  BY <1>1 DEF TypeInv, HandshakeOK, HandshakeOf, PastHandshake, Enqueuing
<1>3. Len(socket[r]) = 0 /\ Len(socket'[r]) = 1
  BY <1>1, <1>2
<1>4. Base(r) = 1 /\ Base(r)' = 1 /\ Held(r) = 0 /\ Held(r)' = 0 /\ Items(r)' = {}
  BY <1>1, <1>2, <1>3 DEF Base, Held, Items
<1> QED BY <1>1, <1>4 DEF RemoteAt, Enqueuing

\* The message is sent.
LEMMA RemoteSend ==
  ASSUME TypeInv, NEW r \in RemoteReaders, RemoteAt(r), send_remote
  PROVE  RemoteAt(r)'
<1> DEFINE n == Len(socket[r])
<1>1. /\ UNCHANGED <<reader, received, sent>>
      /\ socket'[r] = IF r \in subscribed THEN Append(socket[r], Len(sent)) ELSE socket[r]
      /\ writer.pc = "send_remote" /\ writer'.pc = "ready" /\ r \in Readers
  BY OutsideViews, RemoteViews DEF OutsideStep
<1>2. r \in subscribed /\ (reader[r].pc = "starting" => socket[r] # << >>)
  BY <1>1 DEF TypeInv, HandshakeOK, HandshakeOf, PastHandshake, Enqueuing
<1>3. /\ Len(sent) \in Nat /\ Len(received[r]) \in Nat /\ n \in Nat
      /\ socket[r] \in Seq(Messages \cup {READY})
  BY <1>1, CountTypes DEF TypeInv, TypeOK
<1>4. Base(r)' = Base(r) /\ Base(r) \in {0, 1} /\ Base(r) <= n
  BY <1>1, <1>2, <1>3 DEF Base
<1>5. /\ Len(socket'[r]) = n + 1 /\ socket'[r][n + 1] = Len(sent)
      /\ \A i \in 1 .. n : socket'[r][i] = socket[r][i]
  BY <1>1, <1>2, <1>3
<1>6. Held(r) = n - Base(r) /\ Held(r)' = n + 1 - Base(r)
  BY <1>3, <1>4, <1>5 DEF Held
<1>7. Len(received[r]) + (n - Base(r)) = Len(sent) - 1
  BY <1>1, <1>6 DEF RemoteAt, Enqueuing
<1>8. ASSUME NEW i \in Items(r)'
      PROVE  socket'[r][i] = Len(received[r]) + i - Base(r)
  <2>1. i \in Base(r) + 1 .. n + 1
    BY <1>4, <1>5, <1>8, SMTT(30) DEF Items
  <2>2. CASE i = n + 1
    <3>1. Base(r) \in Int /\ i \in Int
      BY <1>3, <1>4, <2>2
    <3>2. Len(sent) = Len(received[r]) + i - Base(r)
      <4> DEFINE a == Len(sent)
                 b == Len(received[r])
                 c == Base(r)
      <4>1. a \in Nat /\ b \in Nat /\ c \in Int /\ n \in Nat /\ i = n + 1 /\ b + (n - c) = a - 1
        BY <1>3, <1>7, <2>2, <3>1, SMTT(30)
      <4> HIDE DEF a, b, c, n
      <4>2. a = b + i - c
        BY <4>1
      <4> QED BY <4>2 DEF a, b, c
    <3> QED BY <1>5, <2>2, <3>2
  <2>3. CASE i # n + 1
    <3>1. i \in Items(r) /\ i \in 1 .. n
      BY <1>3, <1>4, <2>1, <2>3, SMTT(30) DEF Items
    <3> QED BY <1>5, <3>1 DEF RemoteAt
  <2> QED BY <2>2, <2>3
<1>9. Len(received[r]) + (n + 1 - Base(r)) = Len(sent)
  BY <1>3, <1>4, <1>7, SMTT(30)
<1>10. \A i \in Items(r)' : socket'[r][i] = Len(received'[r]) + i - Base(r)'
  BY <1>1, <1>4, <1>8, Zenon
<1>11. Len(received'[r]) + Held(r)' = Len(sent')
  BY <1>1, <1>6, <1>9, SMTT(30)
<1>12. reader'[r].in_step /\ writer'.pc \notin Enqueuing /\ Len(sent') \in Nat
  BY <1>1, <1>3 DEF RemoteAt, Enqueuing
<1> QED BY <1>10, <1>11, <1>12 DEF RemoteAt

\* A remote reader takes READY or a message off its socket.
LEMMA RemoteTail ==
  ASSUME TypeInv, NEW r \in RemoteReaders, RemoteAt(r), UNCHANGED <<writer, sent>>,
         socket[r] # << >>, socket'[r] = Tail(socket[r]),
         reader'[r].pc # "starting", reader'[r].in_step = reader[r].in_step,
         Len(received'[r]) = Len(received[r]) + 1 - Base(r)
  PROVE  RemoteAt(r)'
<1> DEFINE n == Len(socket[r])
<1>1. r \in Readers
  BY DEF RemoteReaders
<1>2. /\ Len(sent) \in Nat /\ Len(received[r]) \in Nat /\ n \in Nat \ {0}
      /\ Len(socket'[r]) = n - 1 /\ \A i \in 1 .. n - 1 : socket'[r][i] = socket[r][i + 1]
  BY <1>1, CountTypes, HeadFacts, SMTT(30) DEF TypeInv, TypeOK
<1>3. Base(r) \in {0, 1} /\ Base(r)' = 0
  BY DEF Base
<1>4. Held(r) = n - Base(r) /\ Held(r)' = n - 1 /\ Items(r)' = 1 .. n - 1
  BY <1>2, <1>3 DEF Held, Items
<1>5. Len(received'[r]) + Held(r)' = Len(received[r]) + Held(r)
  BY <1>2, <1>3, <1>4, SMTT(30)
<1>6. ASSUME NEW i \in 1 .. n - 1
      PROVE  socket'[r][i] = Len(received'[r]) + i
  <2>1. i + 1 \in Items(r)
    BY <1>2, <1>3 DEF Items
  <2>2. socket[r][i + 1] = Len(received[r]) + (i + 1) - Base(r)
    BY <2>1 DEF RemoteAt
  <2>3. Len(received[r]) + (i + 1) - Base(r) = Len(received'[r]) + i
    <3> DEFINE b == Len(received[r])
               c == Base(r)
               d == Len(received'[r])
    <3>1. b \in Nat /\ c \in Int /\ d = b + 1 - c
      BY <1>2, <1>3
    <3> HIDE DEF b, c, d
    <3>2. b + (i + 1) - c = d + i
      BY <3>1
    <3> QED BY <3>2 DEF b, c, d
  <2> QED BY <1>2, <2>2, <2>3, SMTT(30)
<1>7. \A i \in Items(r)' : socket'[r][i] = Len(received'[r]) + i - Base(r)'
  BY <1>2, <1>3, <1>4, <1>6, SMTT(30)
<1> QED BY <1>5, <1>7, Zenon DEF RemoteAt

\* The head of its socket is its next message.
LEMMA RemoteHead ==
  ASSUME TypeInv, NEW r \in RemoteReaders, RemoteAt(r), reader[r].pc = "ready", socket[r] # << >>
  PROVE  Head(socket[r]) = Len(received[r]) + 1 /\ Len(received[r]) < Len(sent)
<1>1. r \in Readers
  BY DEF RemoteReaders
<1>2. /\ Len(sent) \in Nat /\ Len(received[r]) \in Nat /\ Len(socket[r]) \in Nat \ {0}
      /\ Head(socket[r]) = socket[r][1]
  BY <1>1, CountTypes, HeadFacts, SMTT(30) DEF TypeInv, TypeOK
<1>3. Base(r) = 0 /\ 1 \in Items(r) /\ Held(r) = Len(socket[r])
  BY <1>2 DEF Base, Items, Held
<1>4. socket[r][1] = Len(received[r]) + 1 - Base(r) /\ Len(received[r]) + Held(r) <= Len(sent)
  BY <1>3, Zenon DEF RemoteAt
<1> DEFINE b == Len(received[r])
           h == Len(socket[r])
           a == Len(sent)
           x == Head(socket[r])
<1>5. a \in Nat /\ b \in Nat /\ h \in Nat \ {0} /\ x = b + 1 - 0 /\ b + h <= a
  BY <1>2, <1>3, <1>4, Zenon
<1> HIDE DEF a, b, h, x
<1>6. x = b + 1 /\ b < a
  BY <1>5
<1> QED BY <1>6 DEF a, b, x

\* Nothing is sent when the queue is created.
LEMMA RemoteInit == Init => RemoteOK
<1> SUFFICES ASSUME Init, NEW r \in RemoteReaders PROVE RemoteAt(r)
  BY DEF RemoteOK
<1>1. r \in Readers
  BY DEF RemoteReaders
<1>2. /\ reader[r].in_step /\ reader[r].pc = "starting" /\ socket[r] = << >> /\ received[r] = << >>
      /\ sent = << >> /\ writer.pc = "wait_local"
  BY <1>1 DEF Init
<1>3. Base(r) = 1 /\ Items(r) = {} /\ Held(r) = 0
  BY <1>2 DEF Base, Items, Held
<1> QED BY <1>2, <1>3 DEF RemoteAt, Enqueuing

\* The writer's steps preserve a remote reader's part.
LEMMA RemoteWriter ==
  ASSUME TypeInv, NEW r \in RemoteReaders, RemoteAt(r),
         InsideStep \/ mark_written \/ OutsideStep \/ wait_until_ready_local \/ send_overflow
  PROVE  RemoteAt(r)'
<1>1. CASE InsideStep \/ mark_written
  <2>1. RemoteStill(r) /\ sent' = sent /\ writer.pc \in Enqueuing /\ writer'.pc \in Enqueuing
    BY <1>1, RemoteViews DEF InsideStep, RemoteStill
  <2>2. writer.pc # "dead"
    BY <2>1 DEF Enqueuing
  <2> QED BY <2>1, <2>2, RemoteFrame, SMTT(30)
<1>2. CASE wait_until_ready_local \/ send_overflow \/ notify \/ writer_dies
  <2>1. RemoteStill(r) /\ sent' = sent
    BY <1>2, RemoteViews, OutsideViews, SMTT(30) DEF OutsideStep, RemoteStill
  <2>2. \/ writer'.pc = "dead"
        \/ (writer.pc # "dead" /\ (writer'.pc \in Enqueuing <=> writer.pc \in Enqueuing))
    BY <1>2, OutsideViews DEF OutsideStep, Enqueuing
  <2> QED BY <2>1, <2>2, RemoteFrame, SMTT(30)
<1> QED BY <1>1, <1>2, RemoteEnqueue, RemoteReady, RemoteSend, SMTT(30) DEF OutsideStep

\* The readers' steps preserve it.
LEMMA RemoteReader ==
  ASSUME TypeInv, NEW r \in RemoteReaders, RemoteAt(r), NEW q \in Readers, AnyStep(q)
  PROVE  RemoteAt(r)'
<1>1. /\ UNCHANGED <<handle, writer, sent>> /\ r \in Readers /\ r \notin LocalReaders
  BY ReaderData, Zenon DEF RemoteReaders
<1>2. CASE q # r
  <2>1. reader'[r] = reader[r] /\ socket'[r] = socket[r] /\ received'[r] = received[r]
    BY <1>1, <1>2, ReaderData, ZenonT(30)
  <2>2. RemoteStill(r)
    BY <2>1 DEF RemoteStill
  <2> QED BY <1>1, <2>2, RemoteFrame, SMTT(30)
<1>3. CASE q = r /\ IdleStep(r)
  <2>1. RemoteStill(r)
    BY <1>1, <1>3, ReaderData, SMTT(30) DEF RemoteStill
  <2> QED BY <1>1, <2>1, RemoteFrame
<1>4. CASE q = r /\ (ChunkStep(r) \/ mark_read(r) \/ recv_timeout(r))
  BY <1>1, <1>4, ReaderViews, ReaderData, Zenon DEF ChunkStep
<1>5. CASE q = r /\ wait_until_ready_reader(r)
  <2>1. Base(r) = 1 /\ received' = received /\ Len(received[r]) \in Nat
    BY <1>1, <1>5, ReaderData, CountTypes, Zenon DEF Base
  <2>2. Len(received'[r]) = Len(received[r]) + 1 - Base(r)
    BY <2>1
  <2> QED BY <1>1, <1>5, <2>2, ReaderData, RemoteTail, Zenon
<1>6. CASE q = r /\ recv(r)
  <2>1. /\ reader[r].pc = "ready" /\ socket[r] # << >> /\ reader[r].in_step
        /\ received'[r] = Append(received[r], Head(socket[r]))
    BY <1>1, <1>6, ReaderData, Zenon DEF RemoteAt
  <2>2. Len(received'[r]) = Len(received[r]) + 1 /\ Len(received[r]) \in Nat
    <3>1. received[r] \in Seq(Messages \cup {NONE})
      BY <1>1 DEF TypeInv, TypeOK
    <3> QED BY <2>1, <3>1
  <2>3. Len(received'[r]) = Len(received[r]) + 1 - Base(r)
    BY <2>1, <2>2 DEF Base
  <2> QED BY <1>1, <1>6, <2>1, <2>3, ReaderData, RemoteTail, ZenonT(30)
<1> QED BY <1>2, <1>3, <1>4, <1>5, <1>6, SMTT(30) DEF AnyStep

\* Every step preserves the remote readers' invariant.
LEMMA RemoteStep ==
  ASSUME TypeInv, RemoteOK, Next
  PROVE  RemoteOK'
<1>1. handle' = handle
  BY StepKinds, ReaderData, OutsideViews, WriterViews, Zenon DEF InsideStep
<1>2. RemoteReaders' = RemoteReaders
  BY <1>1 DEF RemoteReaders, LocalReaders
<1> SUFFICES ASSUME NEW r \in RemoteReaders PROVE RemoteAt(r)'
  BY <1>2 DEF RemoteOK
<1> QED BY StepKinds, RemoteWriter, RemoteReader, SMTT(30) DEF RemoteOK

\* So does a step that changes nothing.
LEMMA RemoteStutter == RemoteOK /\ UNCHANGED vars => RemoteOK'
<1> SUFFICES ASSUME RemoteOK, UNCHANGED vars, NEW r \in RemoteReaders PROVE RemoteAt(r)'
  BY Zenon DEF RemoteOK, RemoteReaders, LocalReaders, vars
<1>1. RemoteStill(r) /\ UNCHANGED <<sent, writer>>
  BY DEF RemoteStill, vars, sockets
<1> QED BY <1>1, RemoteFrame DEF RemoteOK

\* The inductive invariant behind exactly-once delivery in order.
DeliveryInv == TypeInv /\ RingOK /\ LocalOK /\ RemoteOK

\* The readers that gave up on an overflow payload.
Dropped == {r \in Readers : ~reader[r].in_step}

\* Handing a reader its next message is the abstract Dequeue.
LEMMA Handed ==
  ASSUME TypeInv, NEW r \in Readers, Len(received[r]) < Len(sent), reader[r].in_step,
         received' = [received EXCEPT ![r] = Append(@, Len(received[r]) + 1)],
         sent' = sent, Dropped' = Dropped
  PROVE  Broadcast!Dequeue(r)
<1>1. Len(received[r]) + 1 \in 1 .. Len(sent)
  BY CountTypes
<1>2. sent[Len(received[r]) + 1] = Len(received[r]) + 1
  BY <1>1 DEF TypeInv, SentOK
<1>3. r \notin Dropped
  BY DEF Dropped
<1>4. received' = [received EXCEPT ![r] = Append(@, sent[Len(@) + 1])]
  BY <1>2
<1> QED BY <1>3, <1>4, Zenon DEF Broadcast!Dequeue, Dropped

\* enqueue is the abstract Enqueue.
LEMMA EnqueueRefines ==
  ASSUME TypeInv, enqueue
  PROVE  Broadcast!Enqueue
<1>1. UNCHANGED <<received, reader>> /\ sent' = Append(sent, Len(sent) + 1) /\ Len(sent) < MaxMessages
  BY DEF enqueue
<1>2. Len(sent) + 1 \in Messages
  BY <1>1, QueueAssumption, SMTT(30) DEF Messages, TypeInv, TypeOK
<1> QED BY <1>1, <1>2 DEF Broadcast!Enqueue

\* Only a time-out of recv is a DropOut.
LEMMA ReaderKeepsDropped ==
  ASSUME TypeInv, NEW r \in Readers, AnyStep(r)
  PROVE  Dropped' = IF recv_timeout(r) THEN Dropped \cup {r} ELSE Dropped
<1>1. \A q \in Readers \ {r} : reader'[q].in_step = reader[q].in_step
  BY ReaderData, Zenon
<1>2. CASE recv_timeout(r)
  BY <1>1, <1>2, ReaderData, Zenon DEF Dropped
<1>3. CASE ~recv_timeout(r)
  BY <1>1, <1>3, StepKeepsStep, SMTT(30) DEF Dropped
<1> QED BY <1>2, <1>3

\* The mark of an inline message is a Dequeue.
LEMMA MarkRefines ==
  ASSUME DeliveryInv, NEW r \in Readers, mark_read(r)
  PROVE  Broadcast!Dequeue(r) \/ received' = received
<1>1. CASE reader[r].header # OVERFLOW /\ reader[r].in_step
  <2>1. PICK m \in Nat : Counted(m)
    BY DEF DeliveryInv, LocalOK
  <2>2. TypeInv /\ RingOK /\ r \in LocalReaders /\ LocalAt(r, m) /\ m <= Len(sent)
    BY <1>1, <2>1, ReaderViews, Zenon DEF DeliveryInv, Counted, WriterAt
  <2>3. /\ Consumed(r) = Len(received[r]) /\ Consumed(r) < m
        /\ reader[r].header = Len(received[r]) + 1
    BY <1>1, <2>2, MarkedHeader, SMTT(30)
  <2>4. Len(received[r]) < Len(sent)
    BY <2>2, <2>3, CountTypes, SMTT(30)
  <2>5. received' = [received EXCEPT ![r] = Append(@, Len(received[r]) + 1)]
    BY <1>1, <2>3 DEF mark_read
  <2>6. sent' = sent /\ Dropped' = Dropped
    <3>1. AnyStep(r) /\ sent' = sent
      BY DEF AnyStep, mark_read
    <3>2. ~recv_timeout(r)
      BY <2>2 DEF mark_read, recv_timeout, InRecv
    <3> QED BY <2>2, <3>1, <3>2, ReaderKeepsDropped, SMTT(30)
  <2> QED BY <1>1, <2>2, <2>4, <2>5, <2>6, Handed, ZenonT(30)
<1>2. CASE ~(reader[r].header # OVERFLOW /\ reader[r].in_step)
  BY <1>2 DEF mark_read
<1> QED BY <1>1, <1>2

\* recv, in step, is a Dequeue.
LEMMA RecvRefines ==
  ASSUME DeliveryInv, NEW r \in Readers, recv(r)
  PROVE  Broadcast!Dequeue(r) \/ received' = received
<1>1. CASE reader[r].in_step
  <2>1. TypeInv /\ socket[r] # << >>
    BY DEF DeliveryInv, recv
  <2>2. Head(socket[r]) = Len(received[r]) + 1 /\ Len(received[r]) < Len(sent)
    <3>1. CASE r \in LocalReaders
      <4>1. PICK m \in Nat : Counted(m)
        BY DEF DeliveryInv, LocalOK
      <4>2. LocalAt(r, m) /\ m <= Len(sent) /\ reader[r].pc = "recv"
        BY <1>1, <3>1, <4>1, SMTT(30) DEF Counted, WriterAt, recv, InRecv
      <4>3. Head(socket[r]) = Consumed(r) /\ Consumed(r) = Len(received[r]) + 1
        BY <2>1, <3>1, <4>2, HeadIsDue, SMTT(30)
      <4>4. Consumed(r) <= m
        BY <4>2 DEF LocalAt, FlagsAt
      <4> QED BY <2>1, <4>2, <4>3, <4>4, CountTypes, SMTT(30)
    <3>2. CASE r \notin LocalReaders
      <4>1. r \in RemoteReaders /\ RemoteAt(r) /\ reader[r].pc = "ready"
        BY <3>2 DEF DeliveryInv, RemoteOK, RemoteReaders, recv, InRecv
      <4> QED BY <2>1, <4>1, RemoteHead, SMTT(30)
    <3> QED BY <3>1, <3>2
  <2>3. received' = [received EXCEPT ![r] = Append(@, Len(received[r]) + 1)]
    BY <1>1, <2>2, Zenon DEF recv, return
  <2>4. sent' = sent /\ Dropped' = Dropped
    <3>1. AnyStep(r) /\ sent' = sent
      BY DEF AnyStep, recv
    <3>2. ~recv_timeout(r)
      BY <2>1 DEF recv_timeout
    <3> QED BY <2>1, <3>1, <3>2, ReaderKeepsDropped, SMTT(30)
  <2> QED BY <1>1, <2>1, <2>2, <2>3, <2>4, Handed, ZenonT(30)
<1>2. CASE ~reader[r].in_step
  BY <1>2 DEF recv, return
<1> QED BY <1>1, <1>2

\* Every step is an abstract one or changes nothing abstract.
LEMMA StepRefines ==
  ASSUME DeliveryInv, [Next]_vars
  PROVE  [Broadcast!BroadcastNext]_(Broadcast!broadcastVars)
<1>1. TypeInv
  BY DEF DeliveryInv
<1>2. SUFFICES \/ Broadcast!BroadcastNext
               \/ UNCHANGED <<sent, received>> /\ Dropped' = Dropped
  BY DEF Broadcast!broadcastVars, Dropped
<1>3. CASE InsideStep \/ mark_written
  BY <1>1, <1>3, WriterViews, WriterData, SMTT(30) DEF InsideStep, Dropped
<1>4. CASE enqueue
  BY <1>1, <1>4, EnqueueRefines, SMTT(30) DEF Broadcast!BroadcastNext
<1>5. CASE (OutsideStep \/ wait_until_ready_local \/ send_overflow) /\ ~enqueue
  BY <1>1, <1>5, OutsideViews, Zenon DEF OutsideStep, Dropped
<1>6. ASSUME NEW r \in Readers, AnyStep(r)
      PROVE  \/ Broadcast!BroadcastNext
             \/ UNCHANGED <<sent, received>> /\ Dropped' = Dropped
  <2>1. sent' = sent /\ Dropped' = IF recv_timeout(r) THEN Dropped \cup {r} ELSE Dropped
    BY <1>1, <1>6, ReaderData, ReaderKeepsDropped, Zenon
  <2>2. CASE recv_timeout(r)
    <3>1. received' = received
      BY <1>1, <2>2, ReaderData, Zenon
    <3> QED BY <1>6, <2>1, <2>2, <3>1, Zenon DEF Broadcast!BroadcastNext, Broadcast!DropOut, Dropped
  <2>3. CASE ~recv_timeout(r) /\ (mark_read(r) \/ recv(r))
    BY <1>6, <2>1, <2>3, MarkRefines, RecvRefines, SMTT(30) DEF Broadcast!BroadcastNext
  <2>4. CASE ~recv_timeout(r) /\ (IdleStep(r) \/ ChunkStep(r) \/ wait_until_ready_reader(r))
    BY <1>1, <1>6, <2>1, <2>4, ReaderData, SMTT(30)
  <2> QED BY <1>6, <2>2, <2>3, <2>4, SMTT(30) DEF AnyStep
<1>7. CASE UNCHANGED vars
  BY <1>7 DEF vars, Dropped
<1> QED BY <1>3, <1>4, <1>5, <1>6, <1>7, StepKinds, SMTT(30)

\* Indices stay inside the ring buffer, read flags belong to local readers, and
\* the READY assertion of wait_until_ready never fails, for any number of
\* readers, chunks and messages and any split into local and remote readers.
THEOREM TypeCorrect == Spec => []TypeOK
<1>1. TypeInv => TypeOK
  BY DEF TypeInv
<1> QED BY TypeInvInit, TypeInvStep, <1>1, PTL DEF Spec

\* Both invariants hold in every reachable state.
LEMMA RingInvariant == Spec => [](TypeInv /\ RingOK)
BY TypeInvInit, TypeInvStep, RingInit, RingStep, AllHaveRead, PTL, SMTT(30) DEF Spec

\* acquire_write and acquire_read keep the writer out of a chunk while a reader
\* is inside it, for any number of readers and chunks: the flags do what a lock
\* would.
THEOREM MutualExclusion == Spec => []NoReaderIsOverrun
<1>1. TypeInv /\ RingOK => NoReaderIsOverrun
  BY DEF RingOK, RingOf, NoReaderIsOverrun, Inside, Reading
<1> QED BY <1>1, RingInvariant, PTL

\* The invariant holds in every reachable state.
LEMMA DeliveryInvariant == Spec => []DeliveryInv
<1>1. Init => DeliveryInv
  <2>1. 0 \in Nat
    OBVIOUS
  <2>2. Init => LocalOK
    BY <2>1, CountedInit DEF LocalOK
  <2> QED BY <2>2, TypeInvInit, RingInit, RemoteInit, SMTT(30) DEF DeliveryInv
<1>2. DeliveryInv /\ [Next]_vars => DeliveryInv'
  <2> SUFFICES ASSUME DeliveryInv, [Next]_vars PROVE DeliveryInv'
    OBVIOUS
  <2>1. TypeInv' /\ RingOK'
    BY TypeInvStep, RingStep, AllHaveRead, SMTT(30) DEF DeliveryInv
  <2>2. LocalOK' /\ RemoteOK'
    BY <2>1, AllHaveRead, LocalStep, LocalStutter, RemoteStep, RemoteStutter, SMTT(30) DEF DeliveryInv
  <2> QED BY <2>1, <2>2 DEF DeliveryInv
<1> QED BY <1>1, <1>2, PTL DEF Spec

\* The written flag and the read flags that acquire_write and acquire_read leave
\* behind tell every local reader in step exactly which messages it has still to
\* read, for any number of readers, chunks and messages.
THEOREM FlagsAreExact == Spec => []FlagsTellWhatIsUnread
<1>1. DeliveryInv => FlagsTellWhatIsUnread
  <2> SUFFICES ASSUME DeliveryInv, NEW r \in LocalReaders, reader[r].in_step, writer.pc # "dead"
               PROVE  LET marked == Len(sent) - (IF writer.pc \in Unmarked THEN 1 ELSE 0)
                          unread == {i % max_chunks : i \in Consumed(r) .. marked - 1}
                      IN /\ marked - Consumed(r) \in 0 .. max_chunks
                         /\ unread = {c \in DOMAIN ring : ring[c].written /\ r \notin ring[c].read}
                         /\ reader[r].current_idx = Consumed(r) % max_chunks
    BY DEF FlagsTellWhatIsUnread
  <2>1. PICK m \in Nat : Counted(m)
    BY DEF DeliveryInv, LocalOK
  <2>2. r \in Readers /\ TypeInv
    BY Layout DEF DeliveryInv, TypeInv, TypeOK
  <2>3. /\ Len(sent) \in Nat /\ Consumed(r) \in Nat /\ max_chunks \in Nat
        /\ DOMAIN ring = 0 .. max_chunks - 1
    BY <2>2, CountTypes, SMTT(30)
  <2>4. m = Len(sent) - (IF writer.pc \in Unmarked THEN 1 ELSE 0)
    BY <2>1, <2>3 DEF Counted, WriterAt
  <2>5. FlagsAt(r, m)
    BY <2>1 DEF Counted, LocalAt
  <2>6. /\ m - Consumed(r) \in 0 .. max_chunks
        /\ reader[r].current_idx = Consumed(r) % max_chunks
    BY <2>3, <2>5, SMTT(30) DEF FlagsAt
  <2>7. {i % max_chunks : i \in Consumed(r) .. m - 1}
          = {c \in DOMAIN ring : ring[c].written /\ r \notin ring[c].read}
    BY <2>3, <2>5 DEF FlagsAt, Unread, Window
  <2> QED BY <2>4, <2>6, <2>7, SMTT(30)
<1> QED BY <1>1, DeliveryInvariant, PTL

\* enqueue and dequeue implement a broadcast log: every reader, local or remote,
\* is handed all messages in order and once, inline or through the overflow
\* socket, for any number of readers, chunks and messages, and after a crash of
\* the writer between any two of its steps.
THEOREM Refinement == Spec => ImplementsBroadcast
<1>1. Init => Broadcast!BroadcastInit
  BY DEF Init, Broadcast!BroadcastInit
<1>2. DeliveryInv /\ [Next]_vars => [Broadcast!BroadcastNext]_(Broadcast!broadcastVars)
  BY StepRefines
<1> QED BY <1>1, <1>2, DeliveryInvariant, PTL
        DEF Spec, ImplementsBroadcast, Broadcast!BroadcastSpec
=============================================================================

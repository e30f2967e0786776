---------------------------- MODULE MessageQueue ----------------------------
(***************************************************************************)
(* The broadcast queue of distributed/device_communicators/shm_broadcast:  *)
(* one writer process, local readers that share a ring buffer with it, and *)
(* remote readers behind a socket.  The writer and the readers use no lock:*)
(* a chunk's metadata holds a written flag and one read flag per local     *)
(* reader, and the order in which they are read and written is all that    *)
(* keeps a reader from a half-written chunk.                               *)
(*                                                                         *)
(* Every access to shared memory or to a socket is a step of its own.  A   *)
(* message is its position in the stream.  A chunk holds a header (the     *)
(* overflow byte, the lengths) and a body, written and read one after the  *)
(* other, so a read that overlaps a write is seen as a mismatch.  A message*)
(* of max_chunk_bytes or more overflows: the chunk carries only the mark   *)
(* and the payload goes through the local socket.  memory_fence makes the  *)
(* order of the accesses that of the code; time appears as the choices it  *)
(* leaves (when a reader's busy period ends, when a timeout strikes).      *)
(***************************************************************************)
EXTENDS Naturals, Sequences, FiniteSets, FiniteSetsExt

CONSTANTS
  n_reader,         \* all readers, ranks 1 .. n_reader
  Handles,          \* the layouts considered: which ranks share the ring
                    \* buffer with the writer, and its number of chunks
  TimedReaders,     \* ranks that call dequeue(timeout); others wait for ever
  MaxMessages       \* bound: messages the writer enqueues

Readers == 1 .. n_reader

ASSUME QueueAssumption ==
  /\ n_reader \in Nat /\ MaxMessages \in Nat
  /\ Handles \subseteq [local_reader_ranks : (SUBSET Readers) \ {{}},
                         max_chunks : Nat \ {0}]
  /\ TimedReaders \subseteq Readers

Messages == 1 .. MaxMessages
OVERFLOW == MaxMessages + 1   \* the header of a chunk whose payload overflows
READY == MaxMessages + 2      \* the writer's hand-shake message
NONE == 0                     \* never written; a torn read

VARIABLES
  handle,        \* the layout, fixed when the queue is created
  ring,          \* chunk -> written flag, set of read flags, header, body
  writer,        \* the writer process
  reader,        \* rank -> the reader process
  socket,        \* rank -> what its SUB socket holds
  subscribed,    \* ranks whose subscription has reached the writer
  notified,      \* ranks with an unread notification (CONFLATE keeps one)
  cancelled,     \* ranks whose cancel socket holds a message
  sent,          \* the messages enqueue was called with
  received       \* rank -> the objects dequeue returned, while in step

sockets == <<socket, subscribed, notified, cancelled>>
vars == <<handle, ring, writer, reader, sockets, sent, received>>

LocalReaders == handle.local_reader_ranks
max_chunks == handle.max_chunks
RemoteReaders == Readers \ LocalReaders
n_local_reader == Cardinality(LocalReaders)

Next_idx(i) == (i + 1) % max_chunks

Init ==
  /\ handle \in Handles
  /\ ring = [c \in 0 .. max_chunks - 1 |->
               [written |-> FALSE, read |-> {}, header |-> NONE, body |-> NONE]]
  /\ writer = [pc |-> "wait_local", current_idx |-> 0, overflow |-> FALSE]
  /\ reader = [r \in Readers |->
                 [pc |-> "starting", current_idx |-> 0, read_flag |-> FALSE,
                  header |-> NONE, shutting_down |-> FALSE, idle |-> FALSE,
                  in_step |-> TRUE]]
  /\ socket = [r \in Readers |-> << >>]
  /\ subscribed = {} /\ notified = {} /\ cancelled = {}
  /\ sent = << >>
  /\ received = [r \in Readers |-> << >>]

-----------------------------------------------------------------------------
(* The writer *)

death_pipe_closed == writer.pc = "dead"

(* An XPUB socket hands a message to the readers subscribed to it. *)
publish(ranks, msg) ==
  socket' = [r \in Readers |-> IF r \in ranks \cap subscribed
                               THEN Append(socket[r], msg) ELSE socket[r]]

(* wait_until_ready, writer: all local subscriptions, READY to the local   *)
(* readers, then the same for the remote ones.                             *)
wait_until_ready_local ==
  /\ writer.pc = "wait_local"
  /\ LocalReaders \subseteq subscribed
  /\ publish(LocalReaders, READY)
  /\ writer' = [writer EXCEPT !.pc = "wait_remote"]
  /\ UNCHANGED <<handle, ring, reader, subscribed, notified, cancelled, sent,
                 received>>

wait_until_ready_remote ==
  /\ writer.pc = "wait_remote"
  /\ RemoteReaders \subseteq subscribed
  /\ publish(RemoteReaders, READY)
  /\ writer' = [writer EXCEPT !.pc = "ready"]
  /\ UNCHANGED <<handle, ring, reader, subscribed, notified, cancelled, sent,
                 received>>

(* enqueue: the size of the pickled object decides whether it overflows. *)
enqueue ==
  /\ writer.pc = "ready"
  /\ Len(sent) < MaxMessages
  /\ sent' = Append(sent, Len(sent) + 1)
  /\ \E overflow \in BOOLEAN :
       writer' = [writer EXCEPT !.pc = "acquire", !.overflow = overflow]
  /\ UNCHANGED <<handle, ring, reader, sockets, received>>

(* acquire_write up to its yield.  The writer spins while the chunk is     *)
(* written and not read by all; only the writer itself takes a read flag   *)
(* back, so the count cannot go stale before the written flag is cleared.  *)
Acquire(n_read) ==
  /\ writer.pc = "acquire"
  /\ ring[writer.current_idx].written => n_read >= n_local_reader
  /\ ring' = [ring EXCEPT ![writer.current_idx].written = FALSE]
  /\ writer' = [writer EXCEPT !.pc = "header"]
  /\ UNCHANGED <<handle, reader, sockets, sent, received>>

read_count == Cardinality(ring[writer.current_idx].read)

acquire_write == Acquire(read_count)

(* The body of `with self.acquire_write()` in enqueue. *)
write_header ==
  /\ writer.pc = "header"
  /\ ring' = [ring EXCEPT ![writer.current_idx].header =
                IF writer.overflow THEN OVERFLOW ELSE Len(sent)]
  /\ writer' = [writer EXCEPT !.pc = IF writer.overflow THEN "reset" ELSE "body"]
  /\ UNCHANGED <<handle, reader, sockets, sent, received>>

write_body ==
  /\ writer.pc = "body"
  /\ ring' = [ring EXCEPT ![writer.current_idx].body = Len(sent)]
  /\ writer' = [writer EXCEPT !.pc = "reset"]
  /\ UNCHANGED <<handle, reader, sockets, sent, received>>

(* The loop that sets the read flags to 0, one byte at a time. *)
reset_read_flags ==
  LET read == ring[writer.current_idx].read
      left == IF read = {} THEN {} ELSE read \ {Min(read)}
  IN
  /\ writer.pc = "reset"
  /\ ring' = [ring EXCEPT ![writer.current_idx].read = left]
  /\ writer' = [writer EXCEPT !.pc = IF left = {} THEN "mark" ELSE @]
  /\ UNCHANGED <<handle, reader, sockets, sent, received>>

(* metadata_buffer[0] = 1, and the writer moves to its next chunk. *)
MarkWritten(next_idx) ==
  /\ writer.pc = "mark"
  /\ ring' = [ring EXCEPT ![writer.current_idx].written = TRUE]
  /\ writer' = [writer EXCEPT !.current_idx = next_idx,
                  !.pc = IF writer.overflow THEN "send_local" ELSE "notify"]
  /\ UNCHANGED <<handle, reader, sockets, sent, received>>

mark_written == MarkWritten(Next_idx(writer.current_idx))

(* The payload of an overflowing message, after its mark is in the ring. *)
send_overflow ==
  /\ writer.pc = "send_local"
  /\ publish(LocalReaders, Len(sent))
  /\ writer' = [writer EXCEPT !.pc = "notify"]
  /\ UNCHANGED <<handle, ring, reader, subscribed, notified, cancelled, sent,
                 received>>

(* SpinCondition.notify; a notification not yet read absorbs this one. *)
Notify(ranks) ==
  /\ writer.pc = "notify"
  /\ notified' = notified \cup ranks
  /\ writer' = [writer EXCEPT !.pc = "send_remote"]
  /\ UNCHANGED <<handle, ring, reader, socket, subscribed, cancelled, sent,
                 received>>

(* Variant: only overflowing messages are announced. *)
notify_overflow_only == Notify(IF writer.overflow THEN LocalReaders ELSE {})

notify == Notify(LocalReaders)

send_remote ==
  /\ writer.pc = "send_remote"
  /\ publish(RemoteReaders, Len(sent))
  /\ writer' = [writer EXCEPT !.pc = "ready", !.overflow = FALSE]
  /\ UNCHANGED <<handle, ring, reader, subscribed, notified, cancelled, sent,
                 received>>

(* The writer's process ends, killed between any two of its steps or shut  *)
(* down between two calls: its ends of the readers' death pipes close.     *)
writer_dies ==
  /\ writer.pc # "dead"
  /\ writer' = [writer EXCEPT !.pc = "dead"]
  /\ UNCHANGED <<handle, ring, reader, sockets, sent, received>>

-----------------------------------------------------------------------------
(* The readers *)

Goto(r, pc) == reader' = [reader EXCEPT ![r].pc = pc]

(* dequeue hands obj to its caller. *)
return(r, obj) ==
  /\ Goto(r, "ready")
  /\ received' = IF reader[r].in_step
                 THEN [received EXCEPT ![r] = Append(@, obj)] ELSE received

(* create_from_handle: the subscription reaches the writer's socket. *)
create_from_handle(r) ==
  /\ r \notin subscribed
  /\ subscribed' = subscribed \cup {r}
  /\ UNCHANGED <<handle, ring, writer, reader, socket, notified, cancelled,
                 sent, received>>

(* wait_until_ready, reader: asserts that the first message is READY. *)
wait_until_ready_reader(r) ==
  /\ reader[r].pc = "starting"
  /\ socket[r] # << >>
  /\ Goto(r, IF Head(socket[r]) = READY THEN "ready" ELSE "failed")
  /\ socket' = [socket EXCEPT ![r] = Tail(@)]
  /\ UNCHANGED <<handle, ring, writer, subscribed, notified, cancelled, sent,
                 received>>

(* Variant: the written flag first, then the reader's own. *)
check_flags_swapped(r) ==
  LET chunk == ring[reader[r].current_idx] IN
  /\ r \in LocalReaders
  /\ \/ /\ reader[r].pc = "ready"
        /\ reader' = [reader EXCEPT ![r].read_flag = ~chunk.written,
                                    ![r].pc = "written_flag"]
     \/ /\ reader[r].pc = "written_flag"
        /\ reader' = [reader EXCEPT ![r].read_flag = FALSE,
                        ![r].pc = IF reader[r].read_flag \/ r \in chunk.read
                                  THEN "wait" ELSE "header"]
  /\ UNCHANGED <<handle, ring, writer, sockets, sent, received>>

(* dequeue, local reader: acquire_read reads the reader's own flag first,   *)
(* then the written flag.                                                  *)
check_flags(r) ==
  LET chunk == ring[reader[r].current_idx] IN
  /\ r \in LocalReaders
  /\ \/ /\ reader[r].pc = "ready"
        /\ reader' = [reader EXCEPT ![r].read_flag = r \in chunk.read,
                                    ![r].pc = "written_flag"]
     \/ /\ reader[r].pc = "written_flag"
        /\ reader' = [reader EXCEPT ![r].read_flag = FALSE,
                        ![r].pc = IF ~chunk.written \/ reader[r].read_flag
                                  THEN "wait" ELSE "header"]
  /\ UNCHANGED <<handle, ring, writer, sockets, sent, received>>

(* Variant: the read flag is set as soon as the chunk is found. *)
read_header_marking(r) ==
  LET i == reader[r].current_idx IN
  /\ reader[r].pc = "header"
  /\ ring' = [ring EXCEPT ![i].read = @ \cup {r}]
  /\ reader' = [reader EXCEPT ![r].header = ring[i].header,
                  ![r].pc = IF ring[i].header = OVERFLOW THEN "mark" ELSE "body"]
  /\ UNCHANGED <<handle, writer, sockets, sent, received>>

read_header(r) ==
  LET header == ring[reader[r].current_idx].header IN
  /\ reader[r].pc = "header"
  /\ reader' = [reader EXCEPT ![r].header = header,
                  ![r].pc = IF header = OVERFLOW THEN "mark" ELSE "body"]
  /\ UNCHANGED <<handle, ring, writer, sockets, sent, received>>

(* The body is unpickled by the lengths of the header: one that belongs to *)
(* another message is a torn read.                                         *)
read_body(r) ==
  /\ reader[r].pc = "body"
  /\ reader' = [reader EXCEPT ![r].header =
                    IF ring[reader[r].current_idx].body = @ THEN @ ELSE NONE,
                  ![r].pc = "mark"]
  /\ UNCHANGED <<handle, ring, writer, sockets, sent, received>>

(* The end of acquire_read: set the read flag, move on, record_read.  An   *)
(* inline object is then returned; an overflowing one is still to come.    *)
mark_read(r) ==
  LET i == reader[r].current_idx
      inline == reader[r].header # OVERFLOW
  IN
  /\ reader[r].pc = "mark"
  /\ ring' = [ring EXCEPT ![i].read = @ \cup {r}]
  /\ reader' = [reader EXCEPT ![r].current_idx = Next_idx(i),
                  ![r].idle = FALSE, ![r].header = NONE,
                  ![r].pc = IF inline THEN "ready" ELSE "recv"]
  /\ received' = IF inline /\ reader[r].in_step
                 THEN [received EXCEPT ![r] = Append(@, reader[r].header)]
                 ELSE received
  /\ UNCHANGED <<handle, writer, sockets, sent>>

(* MessageQueue.recv: an overflow payload, or any message of a remote      *)
(* reader.                                                                 *)
InRecv(r) == reader[r].pc = IF r \in LocalReaders THEN "recv" ELSE "ready"

recv(r) ==
  /\ InRecv(r)
  /\ socket[r] # << >>
  /\ return(r, Head(socket[r]))
  /\ socket' = [socket EXCEPT ![r] = Tail(@)]
  /\ UNCHANGED <<handle, ring, writer, subscribed, notified, cancelled, sent>>

(* recv's poll times out.  For a remote reader nothing has happened; a     *)
(* local one has already marked the chunk as read, and the payload it gave *)
(* up on will be taken for that of a later message.                        *)
recv_timeout(r) ==
  /\ InRecv(r) /\ r \in LocalReaders \cap TimedReaders
  /\ socket[r] = << >>
  /\ reader' = [reader EXCEPT ![r].pc = "ready",
                  ![r].in_step = FALSE]
  /\ UNCHANGED <<handle, ring, writer, sockets, sent, received>>

(* timeout_ms raises: the deadline has passed before the chunk was written.*)
read_timeout(r) ==
  /\ reader[r].pc = "wait"
  /\ r \in TimedReaders
  /\ Goto(r, "ready")
  /\ UNCHANGED <<handle, ring, writer, sockets, sent, received>>

(* After wait: `if self.shutting_down: raise`, else look again. *)
AfterWait(r) == Goto(r, IF reader[r].shutting_down THEN "stopped" ELSE "ready")

(* SpinCondition.wait within busy_loop_s of the last read: yield. *)
wait_busy(r) ==
  /\ reader[r].pc = "wait" /\ ~reader[r].idle
  /\ AfterWait(r)
  /\ UNCHANGED <<handle, ring, writer, sockets, sent, received>>

(* SpinCondition.wait when idle: poll the two sockets.  A cancellation is  *)
(* not consumed, a notification is.                                        *)
wait_idle(r) ==
  /\ reader[r].pc = "wait" /\ reader[r].idle
  /\ r \in cancelled \cup notified
  /\ notified' = IF r \in cancelled THEN notified ELSE notified \ {r}
  /\ AfterWait(r)
  /\ UNCHANGED <<handle, ring, writer, socket, subscribed, cancelled, sent,
                 received>>

(* wait finds that busy_loop_s has elapsed since the reader's last read. *)
busy_period_ends(r) ==
  /\ reader[r].pc = "wait" /\ ~reader[r].idle
  /\ reader' = [reader EXCEPT ![r].idle = TRUE]
  /\ UNCHANGED <<handle, ring, writer, sockets, sent, received>>

(* shutdown, called by the monitor thread of the reader's process when the *)
(* death pipe closes: the flag, then the cancel socket, which remote       *)
(* readers do not have.  The two are one step: a cancellation stays in its *)
(* socket, so a reader it wakes before it sees the flag polls again.       *)
Close(r, ranks) ==
  /\ death_pipe_closed
  /\ ~reader[r].shutting_down
  /\ reader' = [reader EXCEPT ![r].shutting_down = TRUE]
  /\ cancelled' = cancelled \cup ranks
  /\ UNCHANGED <<handle, ring, writer, socket, subscribed, notified, sent,
                 received>>

(* Variant: the flag alone. *)
shutdown_without_cancel(r) == Close(r, {})

shutdown(r) == Close(r, {r} \cap LocalReaders)

-----------------------------------------------------------------------------
WriterStep ==
  \/ wait_until_ready_local \/ wait_until_ready_remote
  \/ acquire_write \/ write_header \/ write_body \/ reset_read_flags
  \/ mark_written \/ send_overflow \/ notify \/ send_remote

ReaderStep(r) ==
  \/ wait_until_ready_reader(r)
  \/ check_flags(r) \/ read_header(r) \/ read_body(r) \/ mark_read(r)
  \/ recv(r) \/ recv_timeout(r) \/ read_timeout(r)
  \/ wait_busy(r) \/ wait_idle(r)

Next ==
  \/ WriterStep \/ enqueue \/ writer_dies
  \/ \E r \in Readers :
       \/ ReaderStep(r) \/ create_from_handle(r) \/ busy_period_ends(r)
       \/ shutdown(r)

Spec == Init /\ [][Next]_vars

(* The operating system keeps running every live process and thread: an    *)
(* enqueue that has begun goes on, readers call dequeue in a loop (and give *)
(* up at their deadline when nothing comes), monitor threads run,          *)
(* connections are made.  Nothing forces a call of enqueue, the end of a   *)
(* busy period or a crash.                                                 *)
FairSpec ==
  /\ Spec
  /\ WF_vars(WriterStep)
  /\ \A r \in Readers : /\ WF_vars(ReaderStep(r))
                        /\ WF_vars(create_from_handle(r))
                        /\ WF_vars(shutdown(r))

-----------------------------------------------------------------------------
(* Properties *)

Chunks == [written : BOOLEAN, read : SUBSET LocalReaders,
           header : Messages \cup {NONE, OVERFLOW}, body : Messages \cup {NONE}]

WriterPcs == {"wait_local", "wait_remote", "ready", "acquire", "header", "body",
              "reset", "mark", "send_local", "notify", "send_remote", "dead"}
ReaderPcs == {"starting", "ready", "written_flag", "header", "body",
              "mark", "recv", "wait", "stopped"}

WriterStates == [pc : WriterPcs, current_idx : 0 .. max_chunks - 1,
                 overflow : BOOLEAN]
ReaderStates == [pc : ReaderPcs, current_idx : 0 .. max_chunks - 1,
                 read_flag : BOOLEAN, header : Messages \cup {NONE, OVERFLOW},
                 shutting_down : BOOLEAN, idle : BOOLEAN, in_step : BOOLEAN]

(* Type correctness: indices stay in the ring buffer, flags belong to local *)
(* readers, and no reader fails the READY assertion of wait_until_ready.    *)
TypeOK ==
  /\ handle \in Handles
  /\ ring \in [0 .. max_chunks - 1 -> Chunks]
  /\ writer \in WriterStates
  /\ reader \in [Readers -> ReaderStates]
  /\ socket \in [Readers -> Seq(Messages \cup {READY})]
  /\ received \in [Readers -> Seq(Messages \cup {NONE})]
  /\ subscribed \subseteq Readers
  /\ notified \subseteq LocalReaders /\ cancelled \subseteq LocalReaders
  /\ sent \in Seq(Messages)

(* Chunks marked as written so far: all messages but the one in progress. *)
Unmarked == {"acquire", "header", "body", "reset", "mark"}
Consumed(r) == Len(received[r]) + (IF reader[r].pc = "recv" THEN 1 ELSE 0)

(* The flags tell a local reader exactly which chunks it has still to read: *)
(* the k-th message after the ones it consumed sits in the k-th chunk ahead, *)
(* written and not yet read by it, up to the writer's position, and there   *)
(* are never more of them than chunks.  This is what the four cases of the  *)
(* metadata in ShmRingBuffer's description come to.                         *)
FlagsTellWhatIsUnread ==
  \A r \in LocalReaders :
    reader[r].in_step /\ writer.pc # "dead" =>
      LET marked == Len(sent) - (IF writer.pc \in Unmarked THEN 1 ELSE 0)
          unread == {i % max_chunks : i \in Consumed(r) .. marked - 1}
      IN /\ marked - Consumed(r) \in 0 .. max_chunks
         /\ unread = {c \in DOMAIN ring : ring[c].written /\ r \notin ring[c].read}
         /\ reader[r].current_idx = Consumed(r) % max_chunks

(* Mutual exclusion without a lock: while a reader is inside a chunk        *)
(* (between acquire_read's check and its read flag) the chunk stays written *)
(* and the writer is not inside it.                                         *)
NoReaderIsOverrun ==
  \A r \in LocalReaders :
    reader[r].pc \in {"header", "body", "mark"} =>
      /\ ring[reader[r].current_idx].written
      /\ writer.pc \in {"header", "body", "reset", "mark"}
           => writer.current_idx # reader[r].current_idx

Broadcast == INSTANCE BroadcastQueue WITH
  log <- sent,
  dropped <- {r \in Readers : ~reader[r].in_step}

(* The queue implements a broadcast log: whatever the interleaving of the   *)
(* writer and the readers, dequeue returns each reader the messages passed  *)
(* to enqueue, all of them, in order and once, inline or overflowing.       *)
ImplementsBroadcast == Broadcast!BroadcastSpec

(* No wake-up is lost: a message that was enqueued is dequeued by every     *)
(* reader, also by one that had gone idle and waits for a notification,     *)
(* unless the parent goes away or the reader gave up on an overflow payload.*)
EveryMessageArrives ==
  \A r \in Readers, i \in Messages :
    Len(sent) >= i ~> \/ Len(received[r]) >= i
                      \/ death_pipe_closed
                      \/ ~reader[r].in_step

(* A reader that is inside recv waits on its socket alone. *)
StuckInRecv(r) == InRecv(r) /\ socket[r] = << >>

(* When the death pipe closes every local reader that waits without a      *)
(* timeout ends, idle or not, except one left waiting for the payload of   *)
(* an overflowing message: shutdown reaches the poll of SpinCondition and  *)
(* not the one of MessageQueue.recv. Nothing is said of a reader that is   *)
(* still in wait_until_ready, which polls its socket alone as well.        *)
ShutdownEndsReaders ==
  \A r \in Readers \ TimedReaders :
    (death_pipe_closed /\ r \in LocalReaders /\ reader[r].pc # "starting") ~>
       (reader[r].pc = "stopped" \/ StuckInRecv(r))
=============================================================================

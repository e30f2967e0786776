--------------------------- MODULE BroadcastQueue ---------------------------
(***************************************************************************)
(* What a MessageQueue promises its callers: one writer appends messages   *)
(* to a log, and every reader is handed the messages of the log in order,  *)
(* each exactly once.  A reader may drop out (an overflow payload that it  *)
(* stopped waiting for), and is promised nothing afterwards.               *)
(***************************************************************************)
EXTENDS Naturals, Sequences

CONSTANTS Readers, Messages

VARIABLES log,        \* the messages enqueued so far
          received,   \* what each reader has been handed
          dropped     \* readers that have dropped out

broadcastVars == <<log, received, dropped>>

BroadcastInit ==
  /\ log = << >>
  /\ received = [r \in Readers |-> << >>]
  /\ dropped = {}

Enqueue ==
  /\ \E msg \in Messages : log' = Append(log, msg)
  /\ UNCHANGED <<received, dropped>>

Dequeue(r) ==
  /\ r \notin dropped
  /\ Len(received[r]) < Len(log)
  /\ received' = [received EXCEPT ![r] = Append(@, log[Len(@) + 1])]
  /\ UNCHANGED <<log, dropped>>

DropOut(r) ==
  /\ dropped' = dropped \cup {r}
  /\ UNCHANGED <<log, received>>

BroadcastNext ==
  \/ Enqueue
  \/ \E r \in Readers : Dequeue(r) \/ DropOut(r)

BroadcastSpec == BroadcastInit /\ [][BroadcastNext]_broadcastVars
=============================================================================

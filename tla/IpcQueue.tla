------------------------------ MODULE IpcQueue ------------------------------
(***************************************************************************)
(* The message queue of kernel/object/ipc_queue.cpp: a circular buffer of  *)
(* owning pointers that is meant to grow when it is full.  The callers are *)
(* any sequence of calls to send, peek, pop and has_new.  A failed         *)
(* assertion halts the CPU.                                                *)
(*                                                                         *)
(* Definitions whose name starts with Bug are faulty variants of the       *)
(* definition that follows them; no specification uses them.               *)
(***************************************************************************)
EXTENDS Integers, Sequences

CONSTANTS
  Messages,       \* payloads
  MaxSends        \* bound on the calls of send

None == "None"    \* a null unique_ptr

ASSUME QueueAssumption == MaxSends \in Nat /\ None \notin Messages

VARIABLES
  buffer,         \* _buffer; slot i is buffer[i + 1]
  enqueue, dequeue, nMessages, hasNew,
  halted,         \* the assertion that failed, or None
  sent, popped    \* history: messages accepted by send, returned by pop

queueVars == <<buffer, enqueue, dequeue, nMessages, hasNew, halted, sent, popped>>

QueueInit ==
  /\ buffer = <<>>
  /\ enqueue = 0 /\ dequeue = 0 /\ nMessages = 0
  /\ hasNew = FALSE
  /\ halted = None
  /\ sent = <<>> /\ popped = <<>>

\* The buffer as send finds it after it has made room.
Grown == IF Len(buffer) = nMessages THEN Append(buffer, None) ELSE buffer

\* The position after i in the circular buffer b.
Advance(i, b) == IF i + 1 >= Len(b) THEN 0 ELSE i + 1

Fail(which) ==
  /\ halted' = which
  /\ UNCHANGED <<enqueue, dequeue, nMessages, hasNew, sent, popped>>

send(m) ==
  /\ halted = None /\ Len(sent) < MaxSends
  /\ \/ /\ Grown[enqueue + 1] # None
        /\ buffer' = Grown
        /\ Fail("send")
     \/ /\ Grown[enqueue + 1] = None
        /\ buffer' = [Grown EXCEPT ![enqueue + 1] = m]
        /\ enqueue' = Advance(enqueue, Grown)
        /\ hasNew' = TRUE
        /\ nMessages' = nMessages + 1
        /\ sent' = Append(sent, m)
        /\ UNCHANGED <<dequeue, halted, popped>>

\* peek and pop index the buffer, so they are called only once it has a slot.
peek ==
  /\ halted = None /\ buffer # <<>>
  /\ buffer[dequeue + 1] = None
  /\ Fail("peek")
  /\ UNCHANGED buffer

\* pop that copies the message and leaves the slot full.
BugPopCopies ==
  /\ halted = None /\ buffer # <<>>
  /\ buffer[dequeue + 1] # None
  /\ nMessages' = nMessages - 1
  /\ popped' = Append(popped, buffer[dequeue + 1])
  /\ UNCHANGED <<buffer, enqueue, dequeue, hasNew, halted, sent>>

pop ==
  /\ halted = None /\ buffer # <<>>
  /\ \/ /\ buffer[dequeue + 1] = None
        /\ Fail("pop")
        /\ UNCHANGED buffer
     \/ /\ buffer[dequeue + 1] # None
        /\ buffer' = [buffer EXCEPT ![dequeue + 1] = None]
        /\ nMessages' = nMessages - 1
        /\ popped' = Append(popped, buffer[dequeue + 1])
        /\ UNCHANGED <<enqueue, dequeue, hasNew, halted, sent>>

has_new ==
  /\ halted = None
  /\ hasNew' = FALSE
  /\ UNCHANGED <<buffer, enqueue, dequeue, nMessages, halted, sent, popped>>

QueueNext ==
  \/ \E m \in Messages : send(m)
  \/ peek \/ pop \/ has_new

QueueSpec == QueueInit /\ [][QueueNext]_queueVars

-----------------------------------------------------------------------------

\* Messages come out of pop in the order in which send took them, each once,
\* and those that are still to come are all in the buffer.
Fifo ==
  /\ \A i \in DOMAIN popped : i \in DOMAIN sent /\ popped[i] = sent[i]
  /\ Len(sent) = Len(popped) + nMessages

\* assert(!_buffer[_enqueue]) in send: the buffer has grown if it was full, so
\* the slot for the next message is free.
SendFindsFreeSlot == halted # "send"

=============================================================================

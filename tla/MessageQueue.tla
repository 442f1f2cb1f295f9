---------------------------- MODULE MessageQueue -----------------------------
(***************************************************************************)
(* What the message queue of the HW3 chat server is to its users: the      *)
(* receivers put messages in, and the sender goes over all of them in one  *)
(* pass that nobody can disturb and leaves the queue empty.  Chat has the  *)
(* queue as a sequence and ChatQueue has the memory it lives in; both are  *)
(* shown to implement this module.                                         *)
(***************************************************************************)
EXTENDS Naturals, Sequences

CONSTANT Messages

VARIABLES
  queue,      \* the messages, newest first
  busy,       \* the sender is in its pass
  carried     \* the message each send of the pass carried, in their order

vars == <<queue, busy, carried>>

Init == queue = <<>> /\ busy = FALSE /\ carried = <<>>

Put(m) ==
  /\ ~busy
  /\ queue' = <<m>> \o queue
  /\ UNCHANGED <<busy, carried>>

BeginPass ==
  /\ ~busy /\ queue # <<>>
  /\ busy' = TRUE
  /\ UNCHANGED <<queue, carried>>

(* Each round sends the first message, for as many rounds as there are.    *)
Send ==
  /\ busy /\ Len(carried) < Len(queue)
  /\ carried' = Append(carried, Head(queue))
  /\ UNCHANGED <<queue, busy>>

EndPass ==
  /\ busy /\ Len(carried) = Len(queue)
  /\ queue' = <<>> /\ busy' = FALSE /\ carried' = <<>>

Next == BeginPass \/ Send \/ EndPass \/ \E m \in Messages : Put(m)

Spec == Init /\ [][Next]_vars

=============================================================================

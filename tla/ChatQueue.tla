----------------------------- MODULE ChatQueue ------------------------------
(***************************************************************************)
(* The message queue of the HW3 chat server, at the level of the memory it *)
(* lives in.  A receiver thread mallocs a Message without the lock and     *)
(* links it under message_mutex; the one sender thread takes the mutex,    *)
(* goes round its loop once per queued message, and frees them all.  The   *)
(* members a message goes to are the business of module Chat: here a send  *)
(* is counted against the message it takes.                                *)
(***************************************************************************)
EXTENDS LinkedList, FiniteSets, SequencesExt

CONSTANTS Threads,     \* the receiver threads
          Chunks,      \* the blocks of memory malloc hands out
          MaxSaid      \* bound: messages typed in a behaviour

ASSUME ChatQueueAssumption ==
  /\ Null \notin Chunks
  /\ IsFiniteSet(Chunks)
  /\ MaxSaid \in Nat

VARIABLES
  messages,      \* MessageListFirst and the prev and next of every chunk
  content,       \* which message a chunk holds (0: never used)
  live,          \* the chunks malloc has given out and nobody has freed
  test,          \* the receiver's pointer of that name, between malloc and link
  said,          \* messages typed so far; the last one has this number
  sender,        \* "idle": outside the mutex; "send", "free": its two loops
  k,             \* the counter of the send loop
  sent,          \* history: the message each send carried, in their order
  recycled,      \* history: a chunk with an old next became the only message
  server         \* "up"; "aborted" by free(); "hung" in MessageListSize

vars == <<messages, content, live, test, said, sender, k, sent, recycled, server>>

(* The nodes on the way from the first, for a walk that ends.              *)
Steps    == 0..Cardinality(Chunks)
Walk     == {NodeAt(messages, i) : i \in Steps} \ {Null}
WalkEnds == NodeAt(messages, Cardinality(Chunks)) = Null
MessageListSize == Cardinality(Walk)

Init ==
  /\ messages = EmptyList(Chunks)
  /\ content = [b \in Chunks |-> 0]
  /\ live = {}
  /\ test = [t \in Threads |-> Null]
  /\ said = 0
  /\ sender = "idle"
  /\ k = 0
  /\ sent = <<>>
  /\ recycled = FALSE
  /\ server = "up"

(* Wrong variants of the actions below, each a slip in the code they model. *)

(* Insert at First without the back pointer of the old head.               *)
LinkOneWay(t) ==
  /\ server = "up" /\ test[t] # Null /\ sender = "idle"
  /\ messages' = [LinkToList(messages, test[t]) EXCEPT !.prev = messages.prev]
  /\ recycled' = \/ recycled
                 \/ messages.first = Null /\ messages.next[test[t]] # Null
  /\ test' = [test EXCEPT ![t] = Null]
  /\ UNCHANGED <<content, live, said, sender, k, sent, server>>

(* Insert at First without message_mutex.                                  *)
LinkUnlocked(t) ==
  /\ server = "up" /\ test[t] # Null
  /\ messages' = LinkToList(messages, test[t])
  /\ recycled' = \/ recycled
                 \/ messages.first = Null /\ messages.next[test[t]] # Null
  /\ test' = [test EXCEPT ![t] = Null]
  /\ UNCHANGED <<content, live, said, sender, k, sent, server>>

(* while(MessageListSize() > 1): one message stays behind.                 *)
FreeButOne ==
  /\ server = "up" /\ sender = "free" /\ WalkEnds /\ MessageListSize > 1
  /\ messages' = DislinkFromList(messages, messages.first)
  /\ live' = live \ {messages.first}
  /\ server' = IF messages.first \in live THEN "up" ELSE "aborted"
  /\ UNCHANGED <<content, test, said, sender, k, sent, recycled>>

-----------------------------------------------------------------------------

(* A line arrives and is copied to a block from malloc, whose prev and     *)
(* next hold what its last user left there.                                *)
Malloc(t) ==
  /\ server = "up" /\ test[t] = Null /\ said < MaxSaid
  /\ said' = said + 1
  /\ \E b \in Chunks \ live :
       /\ live' = live \cup {b}
       /\ test' = [test EXCEPT ![t] = b]
       /\ content' = [content EXCEPT ![b] = said + 1]
  /\ UNCHANGED <<messages, sender, k, sent, recycled, server>>

(* The receiver links its message while it holds message_mutex.            *)
Link(t) ==
  /\ server = "up" /\ test[t] # Null /\ sender = "idle"
  /\ messages' = LinkToList(messages, test[t])
  /\ recycled' = \/ recycled
                 \/ messages.first = Null /\ messages.next[test[t]] # Null
  /\ test' = [test EXCEPT ![t] = Null]
  /\ UNCHANGED <<content, live, said, sender, k, sent, server>>

(* The sender takes message_mutex.  A round with nothing queued changes    *)
(* nothing and is left out.                                                *)
SenderLock ==
  /\ server = "up" /\ sender = "idle" /\ messages.first # Null
  /\ sender' = "send" /\ k' = 0
  /\ UNCHANGED <<messages, content, live, test, said, sent, recycled, server>>

(* One round of the send loop.  tempM is MessageListFirst in every round.  *)
SendOne ==
  /\ server = "up" /\ sender = "send" /\ WalkEnds /\ k < MessageListSize
  /\ sent' = Append(sent, content[messages.first])
  /\ k' = k + 1
  /\ UNCHANGED <<messages, content, live, test, said, sender, recycled, server>>

SendDone ==
  /\ server = "up" /\ sender = "send" /\ WalkEnds /\ k >= MessageListSize
  /\ sender' = "free" /\ k' = 0
  /\ UNCHANGED <<messages, content, live, test, said, sent, recycled, server>>

(* One round of the loop that empties the list: the first message is taken *)
(* out and freed.  free() of a block that is free already aborts.          *)
FreeOne ==
  /\ server = "up" /\ sender = "free" /\ WalkEnds /\ messages.first # Null
  /\ messages' = DislinkFromList(messages, messages.first)
  /\ live' = live \ {messages.first}
  /\ server' = IF messages.first \in live THEN "up" ELSE "aborted"
  /\ UNCHANGED <<content, test, said, sender, k, sent, recycled>>

(* The list is empty and the mutex is released.                            *)
SenderUnlock ==
  /\ server = "up" /\ sender = "free" /\ messages.first = Null
  /\ sender' = "idle"
  /\ UNCHANGED <<messages, content, live, test, said, k, sent, recycled, server>>

(* MessageListSize follows a ring of next pointers, mutex held, for ever.  *)
SenderHangs ==
  /\ server = "up" /\ sender # "idle" /\ ~WalkEnds
  /\ server' = "hung"
  /\ UNCHANGED <<messages, content, live, test, said, sender, k, sent, recycled>>

Sender == SenderLock \/ SendOne \/ SendDone \/ FreeOne \/ SenderUnlock \/ SenderHangs

Next == Sender \/ \E t \in Threads : Malloc(t) \/ Link(t)

Spec == Init /\ [][Next]_vars

FairSpec == Spec /\ WF_vars(Sender) /\ \A t \in Threads : WF_vars(Link(t))

-----------------------------------------------------------------------------

Held == {test[t] : t \in Threads} \ {Null}

(* The queue is a doubly linked list of exactly the messages that are      *)
(* allocated and no longer in a receiver's hands.                          *)
DoublyLinked ==
  \E s \in SetToSeqs(live \ Held) : ListIs(messages, s)

(* The list is damaged, and free() aborts or MessageListSize hangs, only   *)
(* after a chunk that still had its old next pointer was linked into an    *)
(* empty list: Insert at First itself, interleaved with the emptying of    *)
(* the list and with malloc outside the lock, never breaks it.             *)
DamageNeedsOldNext == recycled \/ (DoublyLinked /\ server = "up")

(* The sender's loop runs once for each message it then frees: in a        *)
(* sound list the sends made are the messages typed less those not yet     *)
(* sent.  What goes wrong is which message each of those sends carries.    *)
OneSendPerMessage ==
  ~recycled =>
    Len(sent) = CASE sender = "idle" -> said - Cardinality(live)
                  [] sender = "send" -> said - Cardinality(live) + k
                  [] sender = "free" -> said - Cardinality(Held)

(* The messages that are linked, in their order.  The end of the send loop *)
(* empties the queue for all but the sender, which still has to free them. *)
Waiting ==
  IF sender = "free" THEN <<>>
  ELSE [j \in 1..MessageListSize |-> content[NodeAt(messages, j - 1)]]

(* The messages the sends of this pass carried.                            *)
Carried == [j \in 1..k |-> sent[Len(sent) - k + j]]

Abstract == INSTANCE MessageQueue WITH
  Messages <- 1..MaxSaid, queue <- Waiting, busy <- sender = "send", carried <- Carried

(* While no old next pointer has come back, the chunks, the pointers and   *)
(* the two loops of the sender are a queue that is passed over without a   *)
(* disturbance, though malloc and the links of receivers go on around it.  *)
QueueUnlessRecycled ==
  Abstract!Init /\ [][recycled' \/ Abstract!Next]_(Abstract!vars)

(* A message that has been typed leaves the queue in the end, or the       *)
(* server is down: the mutex is released by every pass of the sender.      *)
QueueEmpties ==
  \A m \in 1..MaxSaid :
    (said >= m) ~> (server # "up" \/ \A b \in live : content[b] # m)

=============================================================================

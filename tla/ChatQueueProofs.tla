-------------------------- MODULE ChatQueueProofs ---------------------------
(***************************************************************************)
(* What holds of ChatQueue for any number of threads, blocks and messages: *)
(* only an old next pointer damages the queue.                             *)
(***************************************************************************)
EXTENDS ChatQueue, LinkedListProofs

QueueTypes ==
  /\ messages \in Lists(Chunks)
  /\ live \in SUBSET Chunks
  /\ test \in [Threads -> Chunks \cup {Null}]
  /\ recycled \in BOOLEAN

(* Two receivers never hold the same chunk, and none holds a free one.     *)
HeldOnce ==
  /\ \A t \in Threads : test[t] \in live \cup {Null}
  /\ \A t, u \in Threads : test[t] = test[u] => t = u \/ test[t] = Null

(* The messages are linked in the order of s, and a chunk that is not      *)
(* linked has no old prev pointer: it was the first when it was freed.     *)
QueueIs(s) ==
  /\ ListIs(messages, s)
  /\ Nodes(s) = live \ Held
  /\ \A b \in Chunks \ Nodes(s) : messages.prev[b] = Null

Sound ==
  /\ HeldOnce
  /\ \E s \in Seq(Chunks) : QueueIs(s)
  /\ server = "up"

IInv == QueueTypes /\ (recycled \/ Sound)

-----------------------------------------------------------------------------
LEMMA InitIInv == Init => IInv
  <1> SUFFICES ASSUME Init PROVE IInv
    OBVIOUS
  <1>1. QueueTypes
    BY DEF Init, QueueTypes, EmptyList, Lists
  <1>2. HeldOnce
    BY DEF Init, HeldOnce
  <1>3. <<>> \in Seq(Chunks) /\ Len(<<>>) = 0
    OBVIOUS
  <1>4. Nodes(<<>>) = {}
    BY <1>3 DEF Nodes
  <1>5. live \ Held = {}
    BY DEF Init
  <1>6. QueueIs(<<>>)
    BY <1>3, <1>4, <1>5 DEF Init, QueueIs, ListIs, EmptyList
  <1> QED BY <1>1, <1>2, <1>3, <1>6 DEF IInv, Sound, Init

-----------------------------------------------------------------------------
(* A sound list is walked to its end, and is one DoublyLinked speaks of.   *)

LEMMA SoundWalk ==
  ASSUME NEW s \in Seq(Chunks), QueueIs(s)
  PROVE  WalkEnds /\ DoublyLinked
  <1>1. ListIs(messages, s) /\ \A i, j \in 1..Len(s) : s[i] = s[j] => i = j
    BY DEF QueueIs, ListIs
  <1>2. /\ IsFiniteSet(Nodes(s)) /\ Cardinality(Nodes(s)) = Len(s)
        /\ s \in SetToSeqs(Nodes(s))
    BY <1>1, NodesOnce
  <1>3. Nodes(s) \in SUBSET Chunks
    BY ElementOfSeq DEF Nodes
  <1>4. Len(s) <= Cardinality(Chunks) /\ Cardinality(Chunks) \in Nat /\ Len(s) \in Nat
    BY <1>2, <1>3, FS_Subset, FS_CardinalityType, ChatQueueAssumption
  <1>5. NodeAt(messages, Cardinality(Chunks)) = Null
    BY <1>1, <1>4, WalkOfList, ChatQueueAssumption
  <1>6. WalkEnds
    BY <1>5 DEF WalkEnds
  <1>7. DoublyLinked
    BY <1>2 DEF DoublyLinked, QueueIs
  <1> QED BY <1>6, <1>7

LEMMA TypesStep == QueueTypes /\ [Next]_vars => QueueTypes'
  <1> SUFFICES ASSUME QueueTypes, [Next]_vars PROVE QueueTypes'
    OBVIOUS
  <1> USE ChatQueueAssumption DEF QueueTypes
  <1>1. ASSUME NEW t \in Threads, Malloc(t) PROVE QueueTypes'
    BY <1>1 DEF Malloc
  <1>2. ASSUME NEW t \in Threads, Link(t) PROVE QueueTypes'
    <2>1. test[t] \in Chunks
      BY <1>2 DEF Link
    <2>2. LinkToList(messages, test[t]) \in Lists(Chunks)
      BY <2>1 DEF LinkToList, Lists
    <2>3. recycled' \in BOOLEAN
      BY <1>2 DEF Link
    <2> QED BY <1>2, <2>2, <2>3 DEF Link
  <1>3. CASE SenderLock \/ SendOne \/ SendDone \/ SenderUnlock \/ SenderHangs
    BY <1>3 DEF SenderLock, SendOne, SendDone, SenderUnlock, SenderHangs
  <1>4. CASE FreeOne
    <2>1. messages.first \in Chunks
      BY <1>4 DEF FreeOne, Lists
    <2>2. DislinkFromList(messages, messages.first) \in Lists(Chunks)
      BY <2>1 DEF DislinkFromList, Lists
    <2> QED BY <1>4, <2>2 DEF FreeOne
  <1>5. CASE UNCHANGED vars
    BY <1>5 DEF vars
  <1> QED BY <1>1, <1>2, <1>3, <1>4, <1>5 DEF Next, Sender

-----------------------------------------------------------------------------
(* One lemma for each action that can disturb a sound list.                *)

LEMMA SoundMalloc ==
  ASSUME QueueTypes, Sound, NEW t \in Threads, Malloc(t) PROVE Sound'
  <1>1. PICK b \in Chunks \ live : live' = live \cup {b} /\ test' = [test EXCEPT ![t] = b]
    BY DEF Malloc
  <1>2. test[t] = Null /\ server' = "up" /\ messages' = messages
    BY DEF Malloc, Sound
  <1>3. Held' = Held \cup {b}
    <2>1. \A u \in Threads : test'[u] = IF u = t THEN b ELSE test[u]
      BY <1>1 DEF QueueTypes
    <2> QED BY <1>2, <2>1, ChatQueueAssumption DEF Held
  <1>4. b \notin Held /\ live' \ Held' = live \ Held
    BY <1>1, <1>3 DEF Sound, HeldOnce, Held
  <1>5. HeldOnce'
    BY <1>1, <1>2, ChatQueueAssumption DEF Sound, HeldOnce, QueueTypes
  <1>6. ASSUME NEW s \in Seq(Chunks), QueueIs(s) PROVE QueueIs(s)'
    BY <1>2, <1>4, <1>6 DEF QueueIs
  <1> QED BY <1>2, <1>5, <1>6 DEF Sound

LEMMA LinkedFirst ==
  ASSUME QueueTypes, Sound, NEW t \in Threads, Link(t), ~recycled',
         NEW s \in Seq(Chunks), QueueIs(s), NEW n, n = test[t]
  PROVE  /\ n \in live /\ <<n>> \o s \in Seq(Chunks)
         /\ QueueIs(<<n>> \o s)' /\ HeldOnce' /\ server' = "up"
  <1>1. QueueIs(s)
    OBVIOUS
  <1>0. n \in Chunks \cup {Null}
    BY DEF QueueTypes
  <1> DEFINE m == LinkToList(messages, n)
             r == <<n>> \o s
  <1>2. /\ n # Null /\ messages' = m /\ live' = live
        /\ test' = [test EXCEPT ![t] = Null] /\ server' = "up"
        /\ messages.first # Null \/ messages.next[n] = Null
    BY DEF Link, Sound
  <1>3. n \in live /\ n \in Held /\ n \in Chunks \ Nodes(s)
    BY <1>1, <1>2 DEF QueueTypes, Sound, HeldOnce, Held, QueueIs
  <1>4. s = <<>> => messages.next[n] = Null
    BY <1>1, <1>2 DEF QueueIs, ListIs
  <1>5. messages.prev[n] = Null
    BY <1>1, <1>3 DEF QueueIs
  <1>6. /\ ListIs(m, r)
        /\ \A b \in Chunks \ Nodes(s) : m.prev[b] = messages.prev[b]
    <2>1. ListIs(messages, s)
      BY <1>1 DEF QueueIs
    <2>2. /\ ListIs(LinkToList(messages, n), <<n>> \o s)
          /\ \A b \in Chunks \ Nodes(s) :
                LinkToList(messages, n).prev[b] = messages.prev[b]
      BY <1>3, <1>4, <1>5, <2>1, LinkKeepsList, ChatQueueAssumption DEF QueueTypes
    <2> QED BY <2>2
  <1>7. r \in Seq(Chunks) /\ Nodes(r) = Nodes(s) \cup {n}
    BY <1>3, Pushed
  <1>8. Held' = Held \ {n}
    <2>1. \A u \in Threads : test'[u] = IF u = t THEN Null ELSE test[u]
      BY <1>2 DEF QueueTypes
    <2> QED BY <1>2, <2>1 DEF Held, Sound, HeldOnce
  <1>9. live' \ Held' = Nodes(r)
    BY <1>1, <1>2, <1>3, <1>7, <1>8 DEF QueueIs
  <1>10. HeldOnce'
    BY <1>2 DEF Sound, HeldOnce, QueueTypes
  <1> HIDE DEF m, r
  <1>11. QueueIs(r)'
    BY <1>1, <1>2, <1>6, <1>7, <1>9 DEF QueueIs
  <1>12. QueueIs(<<n>> \o s)' /\ <<n>> \o s \in Seq(Chunks)
    BY <1>7, <1>11 DEF r
  <1> QED BY <1>2, <1>3, <1>10, <1>12

LEMMA SoundLink ==
  ASSUME QueueTypes, Sound, NEW t \in Threads, Link(t), ~recycled' PROVE Sound'
  <1>1. PICK s \in Seq(Chunks) : QueueIs(s)
    BY DEF Sound
  <1>2. PICK n : n = test[t]
    OBVIOUS
  <1>3. /\ <<n>> \o s \in Seq(Chunks)
        /\ QueueIs(<<n>> \o s)' /\ HeldOnce' /\ server' = "up"
    BY <1>1, <1>2, LinkedFirst
  <1> QED BY <1>3 DEF Sound

LEMMA SoundFree ==
  ASSUME QueueTypes, Sound, FreeOne PROVE Sound'
  <1>1. PICK s \in Seq(Chunks) : QueueIs(s)
    BY DEF Sound
  <1> DEFINE n == messages.first
             m == DislinkFromList(messages, n)
             r == RemoveAt(s, 1)
  <1>2. /\ messages' = m /\ live' = live \ {n} /\ test' = test /\ n # Null
        /\ server' = IF n \in live THEN "up" ELSE "aborted"
    BY DEF FreeOne
  <1>3. s # <<>> /\ n = s[1]
    BY <1>1, <1>2 DEF QueueIs, ListIs
  <1>4. 1 \in 1..Len(s)
    BY <1>3, EmptySeq
  <1>5. n \in Nodes(s) /\ n \in live /\ n \notin Held /\ n \in Chunks
    <2>1. n \in Nodes(s)
      BY <1>3, <1>4 DEF Nodes
    <2> QED BY <1>1, <2>1 DEF QueueIs, QueueTypes
  <1>6. ListIs(messages, s)
    BY <1>1 DEF QueueIs
  <1>7. /\ ListIs(m, r)
        /\ \A b \in Chunks \ Nodes(r) : m.prev[b] = messages.prev[b]
    <2>1. /\ ListIs(DislinkFromList(messages, s[1]), RemoveAt(s, 1))
          /\ \A b \in Chunks \ Nodes(RemoveAt(s, 1)) :
                DislinkFromList(messages, s[1]).prev[b] = messages.prev[b]
      BY <1>4, <1>6, DislinkKeepsList, ChatQueueAssumption DEF QueueTypes
    <2> QED BY <2>1, <1>3
  <1>8. r \in Seq(Chunks) /\ Nodes(r) = Nodes(s) \ {n}
    <2>1. \A i, j \in 1..Len(s) : s[i] = s[j] => i = j
      BY <1>6 DEF ListIs
    <2> QED BY <1>3, <1>4, <2>1, Removed, RemovedNodes
  <1>9. messages.prev[n] = Null
    BY <1>3, <1>4, <1>6 DEF ListIs
  <1>10. Held' = Held /\ HeldOnce'
    BY <1>2, <1>5 DEF Held, HeldOnce, Sound
  <1> HIDE DEF m, n, r
  <1>11. QueueIs(r)'
    BY <1>1, <1>2, <1>7, <1>8, <1>9, <1>10 DEF QueueIs
  <1> QED BY <1>2, <1>5, <1>8, <1>10, <1>11 DEF Sound

LEMMA StepIInv == IInv /\ [Next]_vars => IInv'
  <1> SUFFICES ASSUME IInv, [Next]_vars PROVE IInv'
    OBVIOUS
  <1>1. QueueTypes'
    BY TypesStep DEF IInv
  <1>2. recycled => recycled'
    BY DEF QueueTypes, IInv, Next, Sender, Malloc, Link, SenderLock, SendOne, SendDone,
           FreeOne, SenderUnlock, SenderHangs, vars
  <1> SUFFICES ASSUME ~recycled, ~recycled' PROVE Sound'
    BY <1>1, <1>2 DEF IInv
  <1>3. QueueTypes /\ Sound
    BY DEF IInv
  <1>4. CASE \E t \in Threads : Malloc(t) \/ Link(t)
    BY <1>3, <1>4, SoundMalloc, SoundLink
  <1>5. CASE FreeOne
    BY <1>3, <1>5, SoundFree
  <1>6. CASE \/ SenderLock \/ SendOne \/ SendDone \/ SenderUnlock \/ UNCHANGED vars
    <2>1. UNCHANGED <<messages, live, test, server>>
      BY <1>6 DEF SenderLock, SendOne, SendDone, SenderUnlock, vars
    <2> QED BY <1>3, <2>1 DEF Sound, HeldOnce, QueueIs, Held
  <1>7. CASE SenderHangs
    BY <1>3, <1>7, SoundWalk DEF SenderHangs, Sound
  <1> QED BY <1>4, <1>5, <1>6, <1>7 DEF Next, Sender

-----------------------------------------------------------------------------

(* For any number of threads, chunks and messages: what links, sends,      *)
(* frees and mallocs in any order damage the queue only by a chunk whose   *)
(* old next pointer is taken over when it is the only message.             *)
THEOREM OnlyOldNextDamages == Spec => []DamageNeedsOldNext
  <1>1. IInv => DamageNeedsOldNext
    BY SoundWalk DEF IInv, Sound, DamageNeedsOldNext
  <1> QED BY <1>1, InitIInv, StepIInv, PTL DEF Spec
-----------------------------------------------------------------------------
(* The sends made, while no old next pointer has come back.  The sender    *)
(* counts the messages that are linked, and frees what it has counted:     *)
(* nothing is linked while it holds the mutex.                             *)
Queued == Cardinality(live \ Held)

CountTypes ==
  /\ said \in Nat
  /\ k \in Nat
  /\ content \in [Chunks -> Nat]
  /\ sent \in Seq(Nat)

SendsMade ==
  \/ sender = "idle" /\ Len(sent) = said - Cardinality(live)
  \/ sender = "send" /\ Len(sent) = said - Cardinality(live) + k /\ k <= Queued
  \/ sender = "free" /\ Len(sent) = said - Cardinality(Held)

CountInv == recycled \/ (CountTypes /\ SendsMade)

(* What is allocated is either linked or in a receiver's hands.            *)
LEMMA LiveCount ==
  ASSUME QueueTypes, Sound
  PROVE  /\ Cardinality(live) = Queued + Cardinality(Held)
         /\ Cardinality(live) \in Nat /\ Queued \in Nat /\ Cardinality(Held) \in Nat
         /\ IsFiniteSet(live) /\ IsFiniteSet(Held)
  <1>1. IsFiniteSet(live) /\ Held \in SUBSET live
    BY FS_Subset, ChatQueueAssumption DEF QueueTypes, Sound, HeldOnce, Held
  <1>2. IsFiniteSet(Held) /\ live \cap Held = Held
    BY <1>1, FS_Subset
  <1>3. /\ IsFiniteSet(live \ Held)
        /\ Cardinality(live \ Held) = Cardinality(live) - Cardinality(live \cap Held)
    BY <1>1, FS_Difference
  <1>4. /\ Cardinality(live) \in Nat /\ Cardinality(live \ Held) \in Nat
        /\ Cardinality(Held) \in Nat
    BY <1>1, <1>2, <1>3, FS_CardinalityType
  <1> QED BY <1>1, <1>2, <1>3, <1>4 DEF Queued

(* The nodes of a walk are those of the list, in their order.              *)
SizeOf(l) == Cardinality({NodeAt(l, i) : i \in Steps} \ {Null})

LEMMA WalkIs ==
  ASSUME NEW l, NEW s \in Seq(Chunks), ListIs(l, s)
  PROVE  /\ SizeOf(l) = Len(s) /\ Len(s) \in Nat
         /\ \A j \in 1..Len(s) : NodeAt(l, j - 1) = s[j]
         /\ l.first = Null <=> Len(s) = 0
  <1>1. \A i, j \in 1..Len(s) : s[i] = s[j] => i = j
    BY DEF ListIs
  <1>2. /\ Len(s) \in Nat /\ Cardinality(Chunks) \in Nat
        /\ Len(s) <= Cardinality(Chunks) /\ Cardinality(Nodes(s)) = Len(s)
    <2>1. Nodes(s) \in SUBSET Chunks
      BY ElementOfSeq DEF Nodes
    <2>2. IsFiniteSet(Nodes(s)) /\ Cardinality(Nodes(s)) = Len(s)
      BY <1>1, NodesOnce
    <2> QED BY <2>1, <2>2, FS_Subset, FS_CardinalityType, ChatQueueAssumption
  <1>3. \A i \in 0..Cardinality(Chunks) :
          NodeAt(l, i) = IF i < Len(s) THEN s[i + 1] ELSE Null
    <2> SUFFICES ASSUME NEW i \in 0..Cardinality(Chunks)
                 PROVE  NodeAt(l, i) = IF i < Len(s) THEN s[i + 1] ELSE Null
      OBVIOUS
    <2>1. i \in Nat
      BY <1>2
    <2> QED BY <2>1, WalkOfList, ChatQueueAssumption
  <1>4. \A j \in 1..Len(s) : s[j] # Null
    BY ElementOfSeq, ChatQueueAssumption
  <1>5. \A j \in 1..Len(s) : NodeAt(l, j - 1) = s[j]
    <2> SUFFICES ASSUME NEW j \in 1..Len(s) PROVE NodeAt(l, j - 1) = s[j]
      OBVIOUS
    <2>1. j - 1 \in 0..Cardinality(Chunks) /\ j - 1 < Len(s) /\ (j - 1) + 1 = j
      BY <1>2
    <2> QED BY <2>1, <1>3
  <1>6. {NodeAt(l, i) : i \in Steps} \ {Null} = Nodes(s)
    <2>1. ASSUME NEW i \in 0..Cardinality(Chunks), NodeAt(l, i) # Null
          PROVE  NodeAt(l, i) \in Nodes(s)
      <3>1. i < Len(s) /\ NodeAt(l, i) = s[i + 1]
        BY <2>1, <1>3
      <3>2. i + 1 \in 1..Len(s)
        BY <1>2, <3>1
      <3> QED BY <3>1, <3>2 DEF Nodes
    <2>2. ASSUME NEW j \in 1..Len(s)
          PROVE  s[j] \in {NodeAt(l, i) : i \in Steps} \ {Null}
      <3>1. j - 1 \in Steps
        BY <1>2 DEF Steps
      <3> QED BY <3>1, <1>4, <1>5
    <2> QED BY <2>1, <2>2 DEF Nodes, Steps
  <1>7. l.first = Null <=> Len(s) = 0
    <2>1. s # <<>> => l.first = s[1] /\ 1 \in 1..Len(s)
      BY EmptySeq DEF ListIs
    <2>2. s = <<>> => l.first = Null /\ Len(s) = 0
      BY EmptySeq DEF ListIs
    <2> QED BY <1>4, <2>1, <2>2, EmptySeq
  <1> QED BY <1>2, <1>5, <1>6, <1>7 DEF SizeOf

(* MessageListSize counts the linked messages.                             *)
LEMMA SizeIsQueued ==
  ASSUME QueueTypes, Sound
  PROVE  MessageListSize = Queued /\ (messages.first = Null => Queued = 0)
  <1>1. PICK s \in Seq(Chunks) : QueueIs(s)
    BY DEF Sound
  <1>2. /\ ListIs(messages, s) /\ Nodes(s) = live \ Held
        /\ \A i, j \in 1..Len(s) : s[i] = s[j] => i = j
    BY <1>1 DEF QueueIs, ListIs
  <1>3. Cardinality(Nodes(s)) = Len(s)
    BY <1>2, NodesOnce
  <1>4. SizeOf(messages) = Len(s) /\ (messages.first = Null <=> Len(s) = 0)
    BY <1>2, WalkIs
  <1>5. SizeOf(messages) = MessageListSize
    BY DEF SizeOf, MessageListSize, Walk
  <1> QED BY <1>2, <1>3, <1>4, <1>5 DEF Queued

LEMMA InitCount == Init => CountInv
  <1> SUFFICES ASSUME Init PROVE CountInv
    OBVIOUS
  <1>1. Cardinality(live) = 0
    BY FS_EmptySet DEF Init
  <1>2. <<>> \in Seq(Nat) /\ Len(<<>>) = 0
    OBVIOUS
  <1> QED BY <1>1, <1>2 DEF Init, CountInv, CountTypes, SendsMade

LEMMA CountTypesStep ==
  ASSUME QueueTypes, Sound, CountTypes, [Next]_vars PROVE CountTypes'
  <1> USE DEF CountTypes, QueueTypes
  <1>1. ASSUME NEW t \in Threads, Malloc(t) PROVE CountTypes'
    BY <1>1 DEF Malloc
  <1>2. ASSUME NEW t \in Threads, Link(t) PROVE CountTypes'
    BY <1>2 DEF Link
  <1>3. CASE SendOne
    <2>1. Queued # 0
      BY <1>3, SizeIsQueued, LiveCount DEF SendOne
    <2>2. content[messages.first] \in Nat
      BY <2>1, SizeIsQueued DEF Lists
    <2> QED BY <1>3, <2>2 DEF SendOne
  <1>4. CASE SenderLock \/ SendDone \/ FreeOne \/ SenderUnlock \/ SenderHangs
    BY <1>4 DEF SenderLock, SendDone, FreeOne, SenderUnlock, SenderHangs
  <1>5. CASE UNCHANGED vars
    BY <1>5 DEF vars
  <1> QED BY <1>1, <1>2, <1>3, <1>4, <1>5 DEF Next, Sender

(* A new message is typed, allocated and held.                             *)
LEMMA MallocCount ==
  ASSUME QueueTypes, Sound, CountTypes, SendsMade, NEW t \in Threads, Malloc(t)
  PROVE  SendsMade'
  <1>1. PICK b \in Chunks \ live : live' = live \cup {b} /\ test' = [test EXCEPT ![t] = b]
    BY DEF Malloc
  <1>2. test[t] = Null /\ said' = said + 1 /\ UNCHANGED <<sender, k, sent>>
    BY DEF Malloc
  <1>3. Held' = Held \cup {b}
    <2>1. \A u \in Threads : test'[u] = IF u = t THEN b ELSE test[u]
      BY <1>1 DEF QueueTypes
    <2> QED BY <1>2, <2>1, ChatQueueAssumption DEF Held
  <1>4. b \notin Held /\ live' \ Held' = live \ Held
    BY <1>1, <1>3 DEF Sound, HeldOnce, Held
  <1>5. /\ Cardinality(live') = Cardinality(live) + 1
        /\ Cardinality(Held') = Cardinality(Held) + 1
    BY <1>1, <1>3, <1>4, LiveCount, FS_AddElement
  <1>6. Queued' = Queued
    BY <1>4 DEF Queued
  <1>7. /\ Cardinality(live) \in Nat /\ Cardinality(Held) \in Nat /\ Len(sent) \in Nat
        /\ Len(sent') = Len(sent)
    BY <1>2, LiveCount DEF CountTypes
  <1>8. CASE sender = "idle"
    BY <1>2, <1>5, <1>7, <1>8 DEF SendsMade, CountTypes
  <1>9. CASE sender = "send"
    BY <1>2, <1>5, <1>6, <1>7, <1>9 DEF SendsMade, CountTypes
  <1>10. CASE sender = "free"
    BY <1>2, <1>5, <1>7, <1>10 DEF SendsMade, CountTypes
  <1> QED BY <1>8, <1>9, <1>10 DEF SendsMade

(* What is freed is linked, so what receivers hold stays.                  *)
LEMMA SenderCount ==
  ASSUME QueueTypes, Sound, CountTypes, SendsMade, Sender PROVE SendsMade'
  <1>1. CASE SenderLock
    BY <1>1, LiveCount DEF SenderLock, SendsMade, CountTypes, Queued, Held
  <1>2. CASE SendOne
    <2>1. k < Queued /\ sender = "send"
      BY <1>2, SizeIsQueued DEF SendOne
    <2>2. Len(sent') = Len(sent) + 1
      <3>1. messages.first # Null
        BY <2>1, SizeIsQueued DEF CountTypes
      <3>2. content[messages.first] \in Nat
        BY <3>1 DEF CountTypes, QueueTypes, Lists
      <3> QED BY <1>2, <3>2 DEF SendOne, CountTypes
    <2>3. UNCHANGED <<live, test, said, sender>> /\ k' = k + 1
      BY <1>2 DEF SendOne
    <2>4. Queued' = Queued
      BY <2>3 DEF Queued, Held
    <2> QED BY <2>1, <2>2, <2>3, <2>4, LiveCount DEF SendsMade, CountTypes
  <1>3. CASE SendDone
    <2>1. k >= Queued /\ sender = "send" /\ sender' = "free"
      BY <1>3, SizeIsQueued DEF SendDone
    <2>2. UNCHANGED <<live, test, said, sent>> /\ Held' = Held
      BY <1>3 DEF SendDone, Held
    <2> QED BY <2>1, <2>2, LiveCount DEF SendsMade, CountTypes
  <1>4. CASE FreeOne
    <2>1. UNCHANGED <<test, said, sent, sender>> /\ sender = "free" /\ Held' = Held
      BY <1>4 DEF FreeOne, Held
    <2> QED BY <2>1 DEF SendsMade
  <1>5. CASE SenderUnlock
    <2>1. Queued = 0
      BY <1>5, SizeIsQueued DEF SenderUnlock
    <2>2. UNCHANGED <<live, test, said, sent>> /\ sender = "free" /\ sender' = "idle"
      BY <1>5 DEF SenderUnlock
    <2> QED BY <2>1, <2>2, LiveCount DEF SendsMade, CountTypes
  <1>6. CASE SenderHangs
    <2>1. UNCHANGED <<live, test, said, sent, sender, k>>
      BY <1>6 DEF SenderHangs
    <2> QED BY <2>1 DEF SendsMade, Queued, Held
  <1> QED BY <1>1, <1>2, <1>3, <1>4, <1>5, <1>6 DEF Sender

LEMMA StepCount == IInv /\ CountInv /\ [Next]_vars => CountInv'
  <1> SUFFICES ASSUME IInv, CountInv, [Next]_vars PROVE CountInv'
    OBVIOUS
  <1>1. recycled => recycled'
    BY DEF QueueTypes, IInv, Next, Sender, Malloc, Link, SenderLock, SendOne, SendDone,
           FreeOne, SenderUnlock, SenderHangs, vars
  <1> SUFFICES ASSUME ~recycled PROVE CountInv'
    BY <1>1 DEF CountInv
  <1>2. QueueTypes /\ Sound /\ CountTypes /\ SendsMade
    BY DEF IInv, CountInv
  <1>3. CountTypes'
    BY <1>2, CountTypesStep
  <1>4. ASSUME NEW t \in Threads, Malloc(t) PROVE SendsMade'
    BY <1>2, <1>4, MallocCount
  <1>5. ASSUME NEW t \in Threads, Link(t) PROVE SendsMade'
    BY <1>2, <1>5 DEF Link, SendsMade
  <1>6. ASSUME Sender PROVE SendsMade'
    BY <1>2, <1>6, SenderCount
  <1>7. ASSUME UNCHANGED vars PROVE SendsMade'
    BY <1>2, <1>7 DEF vars, SendsMade, Queued, Held
  <1> QED BY <1>3, <1>4, <1>5, <1>6, <1>7 DEF CountInv, Next

(* For any number of threads, chunks and messages: in a queue that no old  *)
(* next pointer has damaged, the send loop runs once for each message that *)
(* the freeing loop then takes out, whatever is linked and allocated       *)
(* between two passes.                                                     *)
THEOREM SendsMatchMessages == Spec => []OneSendPerMessage
  <1>1. CountInv => OneSendPerMessage
    BY DEF CountInv, CountTypes, SendsMade, OneSendPerMessage
  <1>2. Spec => [](IInv /\ CountInv)
    BY InitIInv, StepIInv, InitCount, StepCount, PTL DEF Spec
  <1> QED BY <1>1, <1>2, PTL
-----------------------------------------------------------------------------
(* The queue is that of MessageQueue.                                      *)

WaitingOf(l, c) == [j \in 1..SizeOf(l) |-> c[NodeAt(l, j - 1)]]

(* What is in the chunks of the list s, and what of it has been sent.      *)
CarryInv ==
  \/ recycled
  \/ /\ \A b \in live : content[b] \in 1..MaxSaid
     /\ k <= Len(sent) /\ (sender # "send" => k = 0)

LEMMA WaitingIs ==
  ASSUME NEW l, NEW s \in Seq(Chunks), ListIs(l, s), NEW c
  PROVE  WaitingOf(l, c) = [j \in 1..Len(s) |-> c[s[j]]]
  <1>1. SizeOf(l) = Len(s) /\ \A j \in 1..Len(s) : NodeAt(l, j - 1) = s[j]
    BY WalkIs
  <1> QED BY <1>1 DEF WaitingOf

LEMMA WaitingNow ==
  /\ Waiting = IF sender = "free" THEN <<>> ELSE WaitingOf(messages, content)
  /\ Waiting' = IF sender' = "free" THEN <<>> ELSE WaitingOf(messages', content')
  BY DEF Waiting, WaitingOf, SizeOf, MessageListSize, Walk

(* A message before a sequence of messages.                                *)
LEMMA OneBefore ==
  ASSUME NEW B, NEW s \in Seq(B), NEW n \in B, NEW c,
         NEW r, r = <<n>> \o s,
         NEW f, f = [j \in 1..Len(s) |-> c[s[j]]]
  PROVE  [j \in 1..Len(r) |-> c[r[j]]] = <<c[n]>> \o f
  <1> DEFINE g == <<c[n]>> \o f
  <1>1. Len(s) \in Nat
    OBVIOUS
  <1>2. Len(r) = Len(s) + 1 /\ r[1] = n /\ \A j \in 2..Len(s) + 1 : r[j] = s[j - 1]
    OBVIOUS
  <1>3. PICK S : S = {c[s[j]] : j \in 1..Len(s)} \cup {c[n]}
    OBVIOUS
  <1>4. f \in Seq(S) /\ c[n] \in S /\ Len(f) = Len(s)
    BY <1>1, <1>3
  <1>5. g \in Seq(S) /\ Len(g) = Len(s) + 1
        /\ g[1] = c[n] /\ \A j \in 2..Len(s) + 1 : g[j] = f[j - 1]
    BY <1>1, <1>4
  <1>6. \A j \in 1..Len(s) + 1 : g[j] = c[r[j]]
    <2> SUFFICES ASSUME NEW j \in 1..Len(s) + 1 PROVE g[j] = c[r[j]]
      OBVIOUS
    <2>1. CASE j = 1
      BY <2>1, <1>2, <1>5
    <2>2. CASE j # 1
      <3>1. j \in 2..Len(s) + 1 /\ j - 1 \in 1..Len(s)
        BY <1>1, <2>2
      <3>2. g[j] = f[j - 1] /\ r[j] = s[j - 1]
        BY <1>2, <1>5, <3>1
      <3>3. f[j - 1] = c[s[j - 1]]
        BY <3>1
      <3> QED BY <3>2, <3>3
    <2> QED BY <2>1, <2>2
  <1>7. g = [j \in 1..Len(s) + 1 |-> g[j]]
    <2> HIDE DEF g
    <2> QED BY <1>5
  <1> HIDE DEF g
  <1>8. [j \in 1..Len(r) |-> c[r[j]]] = g
    BY <1>2, <1>6, <1>7
  <1> QED BY <1>8 DEF g

LEMMA InitCarry == Init => CarryInv
  BY DEF Init, CarryInv

LEMMA StepCarry == IInv /\ CountInv /\ CarryInv /\ [Next]_vars => CarryInv'
  <1> SUFFICES ASSUME IInv, CountInv, CarryInv, [Next]_vars PROVE CarryInv'
    OBVIOUS
  <1>0. recycled => recycled'
    BY DEF QueueTypes, IInv, Next, Sender, Malloc, Link, SenderLock, SendOne, SendDone,
           FreeOne, SenderUnlock, SenderHangs, vars
  <1> SUFFICES ASSUME ~recycled PROVE CarryInv'
    BY <1>0 DEF CarryInv
  <1>1. QueueTypes /\ Sound /\ CountTypes /\ MaxSaid \in Nat /\ Len(sent) \in Nat
    BY ChatQueueAssumption DEF IInv, CountInv, CountTypes
  <1>2. /\ \A b \in live : content[b] \in 1..MaxSaid
        /\ k <= Len(sent) /\ (sender # "send" => k = 0)
    BY DEF CarryInv
  <1>3. ASSUME NEW t \in Threads, Malloc(t) PROVE CarryInv'
    <2>1. PICK b \in Chunks \ live :
             live' = live \cup {b} /\ content' = [content EXCEPT ![b] = said + 1]
      BY <1>3 DEF Malloc
    <2>2. said + 1 \in 1..MaxSaid /\ UNCHANGED <<k, sent, sender>>
      BY <1>1, <1>3 DEF Malloc, CountTypes
    <2> QED BY <1>1, <1>2, <2>1, <2>2 DEF CarryInv, CountTypes
  <1>4. ASSUME NEW t \in Threads, Link(t) PROVE CarryInv'
    BY <1>2, <1>4 DEF Link, CarryInv
  <1>5. CASE SendOne
    <2>1. content[messages.first] \in Nat
      <3>1. MessageListSize # 0 /\ MessageListSize = Queued
        BY <1>1, <1>5, SizeIsQueued, LiveCount DEF SendOne, CountTypes
      <3>2. messages.first \in Chunks
        BY <1>1, <3>1, SizeIsQueued DEF QueueTypes, Lists
      <3> QED BY <1>1, <3>2 DEF CountTypes
    <2>2. Len(sent') = Len(sent) + 1
      BY <1>1, <1>5, <2>1 DEF SendOne, CountTypes
    <2> QED BY <1>1, <1>2, <1>5, <2>2 DEF SendOne, CarryInv, CountTypes
  <1>6. CASE SenderLock \/ SendDone
    BY <1>1, <1>2, <1>6 DEF SenderLock, SendDone, CarryInv
  <1>7. CASE FreeOne \/ SenderUnlock \/ SenderHangs
    BY <1>1, <1>2, <1>7 DEF FreeOne, SenderUnlock, SenderHangs, CarryInv
  <1>8. CASE UNCHANGED vars
    BY <1>2, <1>8 DEF vars, CarryInv
  <1> QED BY <1>3, <1>4, <1>5, <1>6, <1>7, <1>8 DEF Next, Sender

LEMMA QueueInit == Init => Abstract!Init
  <1> SUFFICES ASSUME Init PROVE Abstract!Init
    OBVIOUS
  <1>1. PICK s \in Seq(Chunks) : QueueIs(s) /\ s = <<>>
    <2>1. <<>> \in Seq(Chunks) /\ Len(<<>>) = 0
      OBVIOUS
    <2>2. Nodes(<<>>) = {} /\ live \ Held = {}
      BY <2>1 DEF Nodes, Init
    <2>3. QueueIs(<<>>)
      BY <2>1, <2>2 DEF Init, QueueIs, ListIs, EmptyList
    <2> QED BY <2>1, <2>3
  <1>2. WaitingOf(messages, content) = <<>>
    <2>1. ListIs(messages, s) /\ Len(s) = 0
      BY <1>1 DEF QueueIs
    <2>2. SizeOf(messages) = 0
      BY <2>1, WalkIs
    <2> QED BY <2>2 DEF WaitingOf
  <1>3. Waiting = <<>>
    BY <1>2, WaitingNow DEF Init
  <1>4. Carried = <<>>
    BY DEF Init, Carried
  <1> QED BY <1>3, <1>4 DEF Init, Abstract!Init
(* What a step does that neither links nor frees nor begins or ends a pass. *)
LEMMA QueueRests ==
  ASSUME QueueTypes, Sound,
         \/ \E t \in Threads : Malloc(t)
         \/ FreeOne \/ SenderHangs \/ UNCHANGED vars
  PROVE  UNCHANGED Abstract!vars
  <1> USE DEF Abstract!vars
  <1>1. PICK s \in Seq(Chunks) : QueueIs(s)
    BY DEF Sound
  <1>2. ListIs(messages, s) /\ Nodes(s) = live \ Held
    BY <1>1 DEF QueueIs
  <1>3. ASSUME NEW t \in Threads, Malloc(t) PROVE UNCHANGED Abstract!vars
    <2>1. PICK b \in Chunks \ live : content' = [content EXCEPT ![b] = said + 1]
      BY <1>3 DEF Malloc
    <2>2. UNCHANGED <<messages, sender, k, sent>>
      BY <1>3 DEF Malloc
    <2>3. \A j \in 1..Len(s) : s[j] \in live
      BY <1>2 DEF Nodes
    <2>4. \A j \in 1..Len(s) : content'[s[j]] = content[s[j]]
      BY <2>1, <2>3
    <2>5. WaitingOf(messages, content) = [j \in 1..Len(s) |-> content[s[j]]]
      BY <1>2, WaitingIs
    <2>6. WaitingOf(messages, content') = [j \in 1..Len(s) |-> content'[s[j]]]
      BY <1>2, WaitingIs
    <2>7. WaitingOf(messages', content') = WaitingOf(messages, content)
      BY <2>2, <2>4, <2>5, <2>6
    <2> QED BY <2>2, <2>7, WaitingNow DEF Carried
  <1>4. CASE FreeOne
    BY <1>4, WaitingNow DEF FreeOne, Carried
  <1>5. CASE SenderHangs \/ UNCHANGED vars
    BY <1>5, WaitingNow DEF SenderHangs, vars, Carried
  <1> QED BY <1>3, <1>4, <1>5

LEMMA LinkPuts ==
  ASSUME QueueTypes, Sound, CarryInv, ~recycled, ~recycled', NEW t \in Threads, Link(t)
  PROVE  \E m \in 1..MaxSaid : Abstract!Put(m)
  <1>1. PICK s \in Seq(Chunks) : QueueIs(s)
    BY DEF Sound
  <1>2. PICK n : n = test[t]
    OBVIOUS
  <1>3. n \in live /\ <<n>> \o s \in Seq(Chunks) /\ QueueIs(<<n>> \o s)'
    BY <1>1, <1>2, LinkedFirst
  <1>4. n \in Chunks /\ content[n] \in 1..MaxSaid
    BY <1>3 DEF QueueTypes, CarryInv
  <1>5. /\ UNCHANGED <<content, sender, k, sent>> /\ sender = "idle"
    BY DEF Link
  <1>6. WaitingOf(messages, content) = [j \in 1..Len(s) |-> content[s[j]]]
    BY <1>1, WaitingIs DEF QueueIs
  <1>7. PICK r \in Seq(Chunks) : r = <<n>> \o s
    BY <1>3
  <1>8. WaitingOf(messages', content) = <<content[n]>> \o WaitingOf(messages, content)
    <2>1. ListIs(messages', r)
      BY <1>3, <1>7 DEF QueueIs
    <2>2. WaitingOf(messages', content) = [j \in 1..Len(r) |-> content[r[j]]]
      BY <2>1, WaitingIs
    <2>3. [j \in 1..Len(r) |-> content[r[j]]]
            = <<content[n]>> \o WaitingOf(messages, content)
      BY <1>4, <1>6, <1>7, OneBefore
    <2> QED BY <2>2, <2>3
  <1>9. Waiting' = <<content[n]>> \o Waiting
    BY <1>5, <1>8, WaitingNow
  <1>10. Abstract!Put(content[n])
    BY <1>5, <1>9 DEF Abstract!Put, Carried
  <1> QED BY <1>4, <1>10

LEMMA PassSteps ==
  ASSUME QueueTypes, Sound, CountTypes, SendsMade, CarryInv, ~recycled,
         SenderLock \/ SendOne \/ SendDone \/ SenderUnlock
  PROVE  \/ Abstract!BeginPass \/ Abstract!Send \/ Abstract!EndPass
         \/ UNCHANGED Abstract!vars
  <1>1. PICK s \in Seq(Chunks) : QueueIs(s)
    BY DEF Sound
  <1>2. /\ SizeOf(messages) = Len(s) /\ Len(s) \in Nat
        /\ \A j \in 1..Len(s) : NodeAt(messages, j - 1) = s[j]
        /\ messages.first = Null <=> Len(s) = 0
    BY <1>1, WalkIs DEF QueueIs
  <1>3. MessageListSize = Len(s)
    BY <1>2 DEF SizeOf, MessageListSize, Walk
  <1>4. WaitingOf(messages, content) = [j \in 1..Len(s) |-> content[s[j]]]
    BY <1>1, WaitingIs DEF QueueIs
  <1>5. Len(WaitingOf(messages, content)) = Len(s)
    BY <1>2, <1>4
  <1>6. k \in Nat /\ Len(sent) \in Nat /\ k <= Len(sent) /\ (sender # "send" => k = 0)
    BY DEF CarryInv, CountTypes
  <1>7. Len(Carried) = k
    BY <1>6 DEF Carried
  <1>8. CASE SenderLock
    <2>1. /\ sender = "idle" /\ sender' = "send" /\ k' = 0 /\ messages.first # Null
          /\ UNCHANGED <<messages, content, sent>>
      BY <1>8 DEF SenderLock
    <2>2. Waiting = WaitingOf(messages, content) /\ Waiting' = Waiting
      BY <2>1, WaitingNow
    <2>3. Waiting # <<>>
      BY <1>2, <1>5, <2>1, <2>2
    <2>4. Carried' = Carried
      BY <1>6, <2>1 DEF Carried
    <2> QED BY <2>1, <2>2, <2>3, <2>4 DEF Abstract!BeginPass
  <1>9. CASE SendOne
    <2>1. /\ sender = "send" /\ k < Len(s) /\ k' = k + 1
          /\ sent' = Append(sent, content[messages.first])
          /\ UNCHANGED <<messages, content, sender>>
      BY <1>3, <1>9 DEF SendOne
    <2>2. Waiting = WaitingOf(messages, content) /\ Waiting' = Waiting
      BY <2>1, WaitingNow
    <2>3. messages.first = s[1] /\ messages.first \in Chunks
      BY <1>1, <1>2, <1>6, <2>1 DEF QueueIs, ListIs, QueueTypes, Lists
    <2>4. PICK x \in Nat : x = content[messages.first]
      BY <2>3 DEF CountTypes
    <2>5. Head(Waiting) = x
      <3>1. 1 \in 1..Len(s)
        BY <1>2, <1>6, <2>1
      <3>2. Waiting[1] = x
        BY <1>4, <2>2, <2>3, <2>4, <3>1
      <3> QED BY <3>2
    <2>6. Carried' = Append(Carried, x)
      <3>1. sent' = Append(sent, x) /\ sent \in Seq(Nat)
        BY <2>1, <2>4 DEF CountTypes
      <3>2. Len(sent') = Len(sent) + 1 /\ sent'[Len(sent) + 1] = x
            /\ \A j \in 1..Len(sent) : sent'[j] = sent[j]
        BY <3>1
      <3>3. Carried \in Seq(Nat)
        <4>1. \A j \in 1..k : Len(sent) - k + j \in 1..Len(sent)
          BY <1>6
        <4>2. \A j \in 1..k : sent[Len(sent) - k + j] \in Nat
          BY <3>1, <4>1
        <4> QED BY <1>6, <4>2 DEF Carried
      <3>4. /\ Append(Carried, x) \in Seq(Nat) /\ Len(Append(Carried, x)) = k + 1
            /\ Append(Carried, x)[k + 1] = x
            /\ \A j \in 1..k : Append(Carried, x)[j] = Carried[j]
        <4> HIDE DEF Carried
        <4> QED BY <1>7, <3>3
      <3>5. Carried' = [j \in 1..(k + 1) |-> sent'[Len(sent') - (k + 1) + j]]
        BY <2>1 DEF Carried
      <3>6. ASSUME NEW j \in 1..(k + 1)
            PROVE  sent'[Len(sent') - (k + 1) + j] = Append(Carried, x)[j]
        <4>1. Len(sent') - (k + 1) + j = Len(sent) - k + j
          BY <1>6, <3>2
        <4>2. CASE j = k + 1
          <5>1. Len(sent) - k + j = Len(sent) + 1
            BY <1>6, <4>2
          <5> QED BY <3>2, <3>4, <4>1, <4>2, <5>1
        <4>3. CASE j # k + 1
          <5>1. j \in 1..k /\ Len(sent) - k + j \in 1..Len(sent)
            BY <1>6, <4>3
          <5>2. Carried[j] = sent[Len(sent) - k + j]
            BY <5>1 DEF Carried
          <5> QED BY <3>2, <3>4, <4>1, <5>1, <5>2
        <4> QED BY <4>2, <4>3
      <3>7. PICK a : a = Append(Carried, x)
        OBVIOUS
      <3>8. a = [j \in 1..(k + 1) |-> a[j]]
        <4>1. a \in Seq(Nat) /\ Len(a) = k + 1
          BY <3>4, <3>7
        <4>2. a \in [1..Len(a) -> Nat]
          BY <4>1
        <4> QED BY <4>1, <4>2
      <3> QED BY <3>5, <3>6, <3>7, <3>8
    <2> QED BY <1>5, <1>7, <2>1, <2>2, <2>4, <2>5, <2>6 DEF Abstract!Send
  <1>10. CASE SendDone
    <2>1. /\ sender = "send" /\ sender' = "free" /\ k >= Len(s) /\ k' = 0
      BY <1>3, <1>10 DEF SendDone
    <2>2. k = Len(s)
      <3>1. k <= Queued /\ Queued = Len(s)
        BY <1>3, <2>1, SizeIsQueued DEF SendsMade
      <3> QED BY <1>2, <1>6, <2>1, <3>1
    <2>3. Waiting = WaitingOf(messages, content) /\ Waiting' = <<>>
      BY <2>1, WaitingNow
    <2>4. Carried' = <<>>
      BY <2>1 DEF Carried
    <2> QED BY <1>5, <1>7, <2>1, <2>2, <2>3, <2>4 DEF Abstract!EndPass
  <1>11. CASE SenderUnlock
    <2>1. /\ sender = "free" /\ sender' = "idle" /\ messages.first = Null
          /\ UNCHANGED <<messages, content, k, sent>>
      BY <1>11 DEF SenderUnlock
    <2>2. WaitingOf(messages, content) = <<>>
      BY <1>2, <1>4, <2>1
    <2>3. Waiting = <<>> /\ Waiting' = <<>>
      BY <2>1, <2>2, WaitingNow
    <2> QED BY <2>1, <2>3 DEF Abstract!vars, Carried
  <1> QED BY <1>8, <1>9, <1>10, <1>11

LEMMA QueueStep ==
  IInv /\ CountInv /\ CarryInv /\ [Next]_vars =>
     [recycled' \/ Abstract!Next]_(Abstract!vars)
  <1> SUFFICES ASSUME IInv, CountInv, CarryInv, [Next]_vars, ~recycled'
               PROVE  Abstract!Next \/ UNCHANGED Abstract!vars
    OBVIOUS
  <1>1. ~recycled
    BY DEF QueueTypes, IInv, Next, Sender, Malloc, Link, SenderLock, SendOne, SendDone,
           FreeOne, SenderUnlock, SenderHangs, vars
  <1>2. QueueTypes /\ Sound /\ CountTypes /\ SendsMade
    BY <1>1 DEF IInv, CountInv
  <1>3. ASSUME \/ \E t \in Threads : Malloc(t)
               \/ FreeOne \/ SenderHangs \/ UNCHANGED vars
        PROVE  UNCHANGED Abstract!vars
    BY <1>2, <1>3, QueueRests
  <1>4. ASSUME NEW t \in Threads, Link(t) PROVE Abstract!Next
    <2>1. PICK m \in 1..MaxSaid : Abstract!Put(m)
      BY <1>1, <1>2, <1>4, LinkPuts
    <2> QED BY <2>1 DEF Abstract!Next
  <1>5. ASSUME SenderLock \/ SendOne \/ SendDone \/ SenderUnlock
        PROVE  Abstract!Next \/ UNCHANGED Abstract!vars
    <2>1. \/ Abstract!BeginPass \/ Abstract!Send \/ Abstract!EndPass
          \/ UNCHANGED Abstract!vars
      BY <1>1, <1>2, <1>5, PassSteps
    <2> QED BY <2>1 DEF Abstract!Next
  <1> QED BY <1>3, <1>4, <1>5 DEF Next, Sender

(* For any number of threads, chunks and messages: until an old next       *)
(* pointer comes back, the chunks, their pointers, malloc outside the lock *)
(* and the sender's two loops implement the abstract queue.                *)
THEOREM QueueImplemented == Spec => QueueUnlessRecycled
  <1>1. Spec => [](IInv /\ CountInv /\ CarryInv)
    BY InitIInv, StepIInv, InitCount, StepCount, InitCarry, StepCarry, PTL DEF Spec
  <1>2. Spec => Abstract!Init /\ [][recycled' \/ Abstract!Next]_(Abstract!vars)
    BY <1>1, QueueInit, QueueStep, PTL DEF Spec
  <1> QED BY <1>2 DEF QueueUnlessRecycled

=============================================================================

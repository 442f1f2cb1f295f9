----------------------------- MODULE ChatProofs ------------------------------
(***************************************************************************)
(* What holds of Chat for any number of clients, blocks and messages.  The *)
(* sequence s of these proofs is the member list in its order.             *)
(***************************************************************************)
EXTENDS Chat, LinkedListProofs

Joins   == {"name", "count", "again", "recount", "list", "nolist", "group",
            "notify", "tell", "link"}
Stays   == {"usage", "chat", "exit", "close", "unlink"}
Has(c)  == pc[c] \in Joins \cup Stays
Line    == [group : Groups \cup {NoGroup}, to : Says]

Records == [fd : Fds \cup {0}, name : Clients \cup {NoOne}, group : Groups \cup {NoGroup}]

(* The types, and no more messages than have been typed.                   *)
Typed ==
  /\ members \in Lists(Blocks)
  /\ member \in [Blocks -> Records]
  /\ allocated \in SUBSET Blocks /\ client \in [Clients -> Blocks \cup {Null}]
  /\ pc \in [Clients -> Places]
  /\ temp \in [Threads -> Blocks \cup {Null}]
  /\ i \in [Clients -> 0..Cardinality(Clients)]
  /\ owed \in [Threads -> SUBSET Clients]
  /\ socket \in [Fds -> Clients \cup {NoOne}]
  /\ peer \in [Clients -> {"open", "closed", "reset"}] /\ bye \in SUBSET Clients
  /\ memberMutex \in Threads \cup {NoOne}
  /\ messages \in Seq(Line) /\ Len(messages) <= said /\ said \in 0..MaxSaid
  /\ carried \in Seq(Line)
  /\ sender \in {"idle", "pick", "tell", "next"}
  /\ round \in {0} \cup 1..(MaxSaid - 1)
  /\ misrouted \in SUBSET (Clients \X Clients) /\ server \in Endings

(* Each thread has a block of its own from accept() to free(), and its     *)
(* fields are NULL until it is linked.                                     *)
OwnBlocks ==
  /\ \A c \in Clients : pc[c] = "out" <=> client[c] = Null
  /\ \A c \in Clients : Has(c) => client[c] \in allocated
  /\ \A c, d \in Clients : Has(c) /\ Has(d) /\ client[c] = client[d] => c = d

FreshFields ==
  \A c \in Clients : pc[c] \in Joins =>
     members.prev[client[c]] = Null /\ members.next[client[c]] = Null

MembersAre(s) == ListIs(members, s) /\ Nodes(s) = Linked

(* A name in a block is that of the last client that gave one, and the     *)
(* nodes of the list and of every walk have a name.                        *)
Named == {b \in Blocks : member[b].name \in Clients}

Names ==
  /\ \A c \in Clients : Has(c) /\ pc[c] # "name" => member[client[c]].name = c
  /\ \A b \in Named : /\ client[member[b].name] = b
                      /\ pc[member[b].name] \notin {"out", "name"}
  /\ \A b \in Blocks : members.next[b] \in Named \cup {Null}
  /\ \A t \in Threads : temp[t] \in Named \cup {Null}
  /\ \A c \in Clients : pc[c] \in {"exit", "count", "recount"} => temp[c] # Null

(* Until it closes it, a thread has the connection its member names.       *)
Sockets ==
  \A c \in Clients : Has(c) /\ pc[c] # "unlink" =>
     /\ member[client[c]].fd \in Fds
     /\ socket[member[client[c]].fd] = c

Mutex ==
  /\ sender = "tell" <=> memberMutex = Sender
  /\ \A c \in Clients : pc[c] = "tell" <=> memberMutex = c
  /\ \A c \in Clients : pc[c] # "tell" => i[c] = 0

(* The members the sender has still before it are all it owes.             *)
SenderWalk(s) ==
  sender = "tell" =>
     /\ temp[Sender] \in Linked \cup {Null}
     /\ \A x \in owed[Sender] : \E b \in From(s, temp[Sender]) :
           IsMeantFor(Newest, b) /\ member[b].name = x

(* While nobody leaves, a login broadcast has the members it owes before   *)
(* it, and counts no more rounds than it has made.                         *)
NobodyLeaves ==
  NobodyLeft => \A c \in Clients : pc[c] \in {"out", "usage", "chat"} \cup Joins

LoginWalk(s) ==
  NobodyLeft => \A c \in Clients :
     /\ pc[c] \in {"notify", "tell"} =>
           /\ temp[c] \in Linked \cup {Null}
           /\ \A x \in owed[c] : \E b \in From(s, temp[c]) : member[b].name = x
           /\ i[c] + Cardinality(From(s, temp[c])) <= Cardinality(Linked)
     /\ pc[c] = "link" => owed[c] = {}

(* The path of an exit broadcast leads over members and over what members  *)
(* have left behind, to all that are owed, until memory is reused.         *)
Reused(c) ==
  \E d, e \in Clients \ {c} : d # e /\ pc[d] = "gone" /\ client[e] = client[d]

BeenListed == {client[d] : d \in {e \in Clients : pc[e] \in Stays \cup {"gone"}}}

ExitPath(c, w) ==
  /\ Path(members, w) /\ w # <<>> /\ w[1] = temp[c]
  /\ Nodes(w) \subseteq BeenListed
  /\ \A x \in owed[c] : \E b \in Nodes(w) : member[b].name = x

ExitWalk ==
  \A c \in Clients :
     /\ pc[c] = "exit" => Reused(c) \/ \E w \in Seq(Blocks) : ExitPath(c, w)
     /\ pc[c] = "close" => Reused(c) \/ owed[c] = {}

(* While nobody leaves, the walks that count stand on members, and what    *)
(* has been counted stays.                                                 *)
CountWalk ==
  NobodyLeft => \A c \in Clients :
     /\ pc[c] \in {"count", "recount"} => temp[c] \in Linked
     /\ pc[c] \in {"recount", "list"} => Linked # {}

(* A login broadcast is at NULL only where it began.                       *)
NullStart == \A c \in Clients : pc[c] = "tell" /\ temp[c] = Null => i[c] = 0

(* A pass has a round for each message of the queue and no more, each has  *)
(* sent once, and the rounds are counted from 0 in every pass.             *)
Rounds ==
  /\ sender = "idle" => round = 0 /\ carried = <<>>
  /\ sender # "idle" => round < Len(messages)
  /\ sender = "pick" => Len(carried) = round
  /\ sender \in {"tell", "next"} => Len(carried) = round + 1

Lists1 == \E s \in Seq(Blocks) : MembersAre(s) /\ SenderWalk(s) /\ LoginWalk(s)

IInv ==
  /\ Typed
  /\ OwnBlocks /\ FreshFields /\ Lists1
  /\ Names /\ Sockets /\ Mutex /\ Rounds /\ NobodyLeaves
  /\ ExitWalk /\ CountWalk /\ NullStart
  /\ OnlyLeaversBreakIt /\ WrongEarAfterClose /\ EveryMatchServed

(* One of the two walks of MemberListSize().                               *)
Counting(c) == CountMember(c) \/ CountAgain(c)

-----------------------------------------------------------------------------
(* Types.                                                                  *)

LEMMA BoundedIsSeq ==
  ASSUME NEW S, NEW n \in Nat, NEW q
  PROVE  q \in BoundedSeq(S, n) <=> q \in Seq(S) /\ Len(q) <= n
  <1>1. ASSUME q \in BoundedSeq(S, n) PROVE q \in Seq(S) /\ Len(q) <= n
    <2>1. PICK m \in 0..n : q \in [1..m -> S]
      BY <1>1 DEF BoundedSeq, SeqOf
    <2> QED BY <2>1
  <1>2. ASSUME q \in Seq(S), Len(q) <= n PROVE q \in BoundedSeq(S, n)
    <2>1. Len(q) \in 0..n /\ q \in [1..Len(q) -> S]
      BY <1>2, LenProperties
    <2> QED BY <2>1 DEF BoundedSeq, SeqOf
  <1> QED BY <1>1, <1>2

LEMMA SizeOfLinked ==
  /\ Cardinality(Linked) \in Nat /\ Cardinality(Clients) \in Nat
  /\ Cardinality(Linked) <= Cardinality(Clients)
  <1> DEFINE D == {d \in Clients : pc[d] \in Stays}
             f == [d \in D |-> client[d]]
  <1>1. IsFiniteSet(D) /\ Cardinality(D) <= Cardinality(Clients) /\ Cardinality(D) \in Nat
        /\ Cardinality(Clients) \in Nat
    <2>1. D \in SUBSET Clients
      OBVIOUS
    <2> HIDE DEF D
    <2> QED BY <2>1, FS_Subset, FS_CardinalityType, ChatAssumption
  <1>2. Linked = {client[d] : d \in D}
    BY DEF Linked, Stays
  <1>3. f \in Surjection(D, Linked)
    BY <1>2 DEF Surjection
  <1>4. IsFiniteSet(Linked) /\ Cardinality(Linked) <= Cardinality(D)
    BY <1>1, <1>3, FS_Surjection
  <1> QED BY <1>1, <1>4, FS_CardinalityType

\* A send() reaches a client, and records who was meant.
LEMMA SendTypes ==
  ASSUME Typed, NEW t \in Threads, NEW b \in Named, SendBy(t, b)
  PROVE  /\ Reached(b) \in Clients
         /\ peer' \in [Clients -> {"open", "closed", "reset"}]
         /\ \A d \in Clients : peer'[d] = "open" => peer[d] = "open"
         /\ owed' = [owed EXCEPT ![t] = @ \ {member[b].name}]
         /\ owed' \in [Threads -> SUBSET Clients]
         /\ misrouted' \in SUBSET (Clients \X Clients)
         /\ misrouted' \subseteq misrouted \cup
               (IF member[b].name = Reached(b) THEN {} ELSE {<<member[b].name, Reached(b)>>})
  <1>1. Reached(b) \in Clients
    BY DEF Typed, Named, SendBy, SendFails, Reached
  <1>2. peer' = [peer EXCEPT ![Reached(b)] = IF @ = "open" THEN "open" ELSE "reset"]
    BY DEF SendBy
  <1>3. owed' = [owed EXCEPT ![t] = @ \ {member[b].name}]
    BY DEF SendBy
  <1>4. misrouted' = misrouted \cup (IF member[b].name = Reached(b) THEN {}
                                     ELSE {<<member[b].name, Reached(b)>>})
    BY DEF SendBy
  <1> QED BY <1>1, <1>2, <1>3, <1>4 DEF Typed, Named

LEMMA TypedIsTypeOK == Typed /\ Rounds => TypeOK
  <1> SUFFICES ASSUME Typed, Rounds PROVE TypeOK
    OBVIOUS
  <1>1. /\ messages \in Seq(Line) /\ carried \in Seq(Line)
        /\ Len(messages) <= said /\ said \in 0..MaxSaid
        /\ round \in {0} \cup 1..(MaxSaid - 1)
        /\ sender \in {"idle", "pick", "tell", "next"}
    BY DEF Typed
  <1>2. Len(messages) \in Nat /\ Len(carried) \in Nat /\ MaxSaid \in Nat /\ round \in Nat
    BY <1>1, LenProperties, ChatAssumption
  <1>3. Len(carried) <= Len(messages)
    <2>1. sender = "idle" => Len(carried) = 0
      BY DEF Rounds
    <2> QED BY <1>1, <1>2, <2>1 DEF Rounds
  <1>4. Len(messages) <= MaxSaid /\ Len(carried) <= MaxSaid
    BY <1>1, <1>2, <1>3
  <1>5. messages \in BoundedSeq(Line, MaxSaid) /\ carried \in BoundedSeq(Line, MaxSaid)
    BY <1>1, <1>2, <1>4, BoundedIsSeq
  <1> QED BY <1>5 DEF Typed, TypeOK, Line, Lists, Records

LEMMA RecordsKept ==
  ASSUME NEW m \in [Blocks -> Records], NEW b \in Blocks
  PROVE  /\ \A f \in Fds : [m EXCEPT ![b].fd = f] \in [Blocks -> Records]
         /\ \A c \in Clients : [m EXCEPT ![b].name = c] \in [Blocks -> Records]
         /\ \A g \in Groups \cup {NoGroup} : [m EXCEPT ![b].group = g] \in [Blocks -> Records]
  <1>1. m[b] \in Records /\ m[b] = [fd |-> m[b].fd, name |-> m[b].name, group |-> m[b].group]
    BY DEF Records
  <1>2. \A f \in Fds : [m[b] EXCEPT !.fd = f] \in Records
    BY <1>1 DEF Records
  <1>3. \A c \in Clients : [m[b] EXCEPT !.name = c] \in Records
    BY <1>1 DEF Records
  <1>4. \A g \in Groups \cup {NoGroup} : [m[b] EXCEPT !.group = g] \in Records
    BY <1>1 DEF Records
  <1> QED BY <1>2, <1>3, <1>4

\* A node of the list is named after its client.
LEMMA LinkedNames ==
  ASSUME Names
  PROVE  /\ \A b \in Linked : member[b].name \in Clients /\ client[member[b].name] = b
         /\ \A c \in Clients : pc[c] \in Stays => client[c] \in Linked /\ member[client[c]].name = c
  <1>1. ASSUME NEW c \in Clients, pc[c] \in Stays
        PROVE  client[c] \in Linked /\ member[client[c]].name = c
    BY <1>1 DEF Names, Linked, Has, Stays
  <1>2. ASSUME NEW b \in Linked PROVE member[b].name \in Clients /\ client[member[b].name] = b
    <2>1. PICK c \in Clients : pc[c] \in Stays /\ client[c] = b
      BY DEF Linked, Stays
    <2> QED BY <1>1, <2>1
  <1> QED BY <1>1, <1>2

LEMMA TypesStep ==
  ASSUME Typed, OwnBlocks, Names, Rounds, [Next]_vars
  PROVE  Typed'
  <1> USE ChatAssumption DEF Typed, heap, receivers, net, queue, Goto, Die, Places
  <1>2. \A c \in Clients : Has(c) => client[c] \in Blocks
    BY DEF OwnBlocks
  <1>3. \A S \in SUBSET Linked : NamesIn(S) \in SUBSET Clients
    BY LinkedNames DEF NamesIn
  <1>4. \A t \in Threads : temp[t] \in Named \cup {Null}
    BY DEF Names
  <1>5. ASSUME NEW c \in Clients, Bye(c) \/ Leave(c) PROVE Typed'
    <2>1. CASE Bye(c)
      BY <2>1 DEF Bye
    <2>2. CASE Leave(c)
      <3>1. peer' \in [Clients -> {"open", "closed", "reset"}]
        BY <2>2 DEF Leave
      <3>2. bye' \in SUBSET Clients
        BY <2>2 DEF Leave
      <3> QED BY <2>2, <3>1, <3>2 DEF Leave
    <2> QED BY <1>5, <2>1, <2>2
  <1>6. ASSUME NEW c \in Clients, Accept(c) PROVE Typed'
    <2>1. PICK f \in Fds, b \in Blocks :
             /\ socket' = [socket EXCEPT ![f] = c] /\ member' = [member EXCEPT ![b].fd = f]
             /\ members' = [members EXCEPT !.prev[b] = Null, !.next[b] = Null]
             /\ allocated' = allocated \cup {b} /\ client' = [client EXCEPT ![c] = b]
      BY <1>6 DEF Accept
    <2>2. members' \in Lists(Blocks)
      BY <2>1 DEF Lists
    <2>3. member' \in [Blocks -> Records]
      BY <2>1, RecordsKept
    <2> QED BY <1>6, <2>1, <2>2, <2>3 DEF Accept
  <1>7. ASSUME NEW c \in Clients, PromptFails(c) \/ CountFails(c) \/ CountAgain(c) \/ ListMembers(c)
        PROVE  Typed'
    <2>1. CASE PromptFails(c)
      <3>1. server' \in Endings
        BY <2>1 DEF PromptFails, Endings
      <3> QED BY <2>1, <3>1 DEF PromptFails
    <2>3. CASE CountFails(c)
      BY <2>3 DEF CountFails, Endings
    <2>4. CASE ListMembers(c)
      <3>1. CASE Die("null")
        BY <3>1 DEF Endings
      <3>2. CASE ~Die("null")
        <4>1. /\ pc' = [pc EXCEPT ![c] = "group"]
              /\ UNCHANGED <<heap, client, i, temp, owed, net, memberMutex, queue,
                             misrouted, server>>
          BY <2>4, <3>2 DEF ListMembers
        <4>2. pc' \in [Clients -> Places]
          BY <4>1
        <4> QED BY <4>1, <4>2
      <3> QED BY <3>1, <3>2
    <2>2. CASE CountAgain(c)
      <3>1. temp' \in [Threads -> Blocks \cup {Null}]
        BY <2>2 DEF CountAgain, Lists
      <3> QED BY <2>2, <3>1 DEF CountAgain
    <2> QED BY <1>7, <2>1, <2>2, <2>3, <2>4
  <1>25. ASSUME NEW c \in Clients, CountMember(c) PROVE Typed'
    <2>1. PICK b \in Blocks \cup {Null} : b = members.next[temp[c]]
      <3>1. c \in Threads /\ temp[c] \in Named
        BY <1>4, <1>25 DEF CountMember, Threads, Names
      <3> QED BY <3>1 DEF Lists, Named
    <2>2. temp' = [temp EXCEPT ![c] = b]
      BY <1>25, <2>1 DEF CountMember
    <2>3. temp' \in [Threads -> Blocks \cup {Null}]
      BY <2>1, <2>2
    <2>4. pc' \in [Clients -> Places]
      <3>1. \/ UNCHANGED pc
            \/ \E place \in {"again", "list"} : pc' = [pc EXCEPT ![c] = place]
        BY <1>25 DEF CountMember
      <3> QED BY <3>1
    <2>5. UNCHANGED <<heap, client, i, owed, net, memberMutex, queue, misrouted, server>>
      BY <1>25 DEF CountMember
    <2> QED BY <2>3, <2>4, <2>5
  <1>8. ASSUME NEW c \in Clients, Name(c) PROVE Typed'
    <2>1. member' \in [Blocks -> Records]
      BY <1>2, <1>8, RecordsKept DEF Name, Has, Joins
    <2>2. temp' \in [Threads -> Blocks \cup {Null}]
      BY <1>8 DEF Name, Lists
    <2> QED BY <1>8, <2>1, <2>2 DEF Name, Prompt
  <1>9. ASSUME NEW c \in Clients, SelectGroup(c) PROVE Typed'
    <2>1. member' \in [Blocks -> Records]
      <3>1. PICK g \in Groups \cup {NoGroup} : member' = [member EXCEPT ![client[c]].group = g]
        BY <1>9 DEF SelectGroup
      <3>2. client[c] \in Blocks
        BY <1>2, <1>9 DEF SelectGroup, Has, Joins
      <3> QED BY <3>1, <3>2, RecordsKept
    <2>2. temp' \in [Threads -> Blocks \cup {Null}] /\ owed' \in [Threads -> SUBSET Clients]
      BY <1>3, <1>9 DEF SelectGroup, Lists
    <2> QED BY <1>9, <2>1, <2>2 DEF SelectGroup, Prompt
  <1>10. ASSUME NEW c \in Clients, Say(c) PROVE Typed'
    <2>1. member[client[c]].group \in Groups \cup {NoGroup}
      <3>1. client[c] \in Blocks
        BY <1>2, <1>10 DEF Say, Has, Stays
      <3> QED BY <3>1 DEF Records
    <2>2. PICK to \in Says :
             messages' = <<[group |-> member[client[c]].group, to |-> to]>> \o messages
      BY <1>10 DEF Say
    <2>3. [group |-> member[client[c]].group, to |-> to] \in Line
      BY <2>1 DEF Line
    <2>4. messages' \in Seq(Line) /\ Len(messages') = Len(messages) + 1
      BY <2>2, <2>3, Pushed
    <2>5. said' \in 0..MaxSaid /\ Len(messages') <= said'
      BY <1>10, <2>4, LenProperties DEF Say
    <2> QED BY <1>10, <2>4, <2>5 DEF Say
  <1>11. ASSUME NEW c \in Clients, LoginLock(c) \/ LoginToldAll(c) PROVE Typed'
    <2>1. temp' \in [Threads -> Blocks \cup {Null}]
      BY <1>11 DEF LoginLock, LoginToldAll
    <2>2. i' \in [Clients -> 0..Cardinality(Clients)]
      <3>1. i' = i \/ i' = [i EXCEPT ![c] = 0]
        BY <1>11 DEF LoginLock, LoginToldAll
      <3> DEFINE K == Cardinality(Clients)
      <3>2. K \in Nat /\ i \in [Clients -> 0..K]
        BY SizeOfLinked
      <3> HIDE DEF K, Typed
      <3>3. i' \in [Clients -> 0..K]
        BY <3>1, <3>2
      <3> QED BY <3>3 DEF K
    <2>3. memberMutex' \in Threads \cup {NoOne} /\ pc' \in [Clients -> Places]
      BY <1>11 DEF LoginLock, LoginToldAll, Threads
    <2> QED BY <1>11, <2>1, <2>2, <2>3 DEF LoginLock, LoginToldAll
  <1>12. ASSUME NEW c \in Clients, LoginTell(c) PROVE Typed'
    <2>1. temp[c] \in Named /\ c \in Threads
      BY <1>4, <1>12 DEF LoginTell, Threads
    <2>2. /\ peer' \in [Clients -> {"open", "closed", "reset"}]
          /\ owed' \in [Threads -> SUBSET Clients]
          /\ misrouted' \in SUBSET (Clients \X Clients)
      BY <1>12, <2>1, SendTypes DEF LoginTell
    <2>3. i' \in [Clients -> 0..Cardinality(Clients)]
      BY <1>12, SizeOfLinked DEF LoginTell
    <2>4. temp' \in [Threads -> Blocks \cup {Null}]
      <3>1. members.next[temp[c]] \in Blocks \cup {Null}
        BY <2>1 DEF Lists, Named
      <3> QED BY <1>12, <2>1, <3>1 DEF LoginTell
    <2>5. memberMutex' \in Threads \cup {NoOne} /\ pc' \in [Clients -> Places]
      BY <1>12 DEF LoginTell
    <2> QED BY <1>12, <2>2, <2>3, <2>4, <2>5 DEF LoginTell
  <1>13. ASSUME NEW c \in Clients, ExitTell(c) PROVE Typed'
    <2>1. c \in Threads /\ temp[c] \in Named \cup {Null} /\ SendBy(c, temp[c])
      BY <1>4, <1>13 DEF ExitTell, Threads
    <2>2. temp[c] \in Named
      <3>1. pc[c] = "exit"
        BY <1>13 DEF ExitTell
      <3> QED BY <2>1, <3>1 DEF Names
    <2>3. /\ peer' \in [Clients -> {"open", "closed", "reset"}]
          /\ owed' \in [Threads -> SUBSET Clients]
          /\ misrouted' \in SUBSET (Clients \X Clients)
      BY <2>1, <2>2, SendTypes
    <2>4. PICK b \in Blocks \cup {Null} : b = members.next[temp[c]]
      BY <2>2 DEF Lists, Named
    <2>5. \/ temp' = [temp EXCEPT ![c] = Null] /\ pc' = [pc EXCEPT ![c] = "close"]
          \/ temp' = [temp EXCEPT ![c] = b] /\ pc' = pc
      BY <1>13, <2>4 DEF ExitTell, Goto
    <2>6. temp' \in [Threads -> Blocks \cup {Null}]
      BY <2>4, <2>5
    <2>7. pc' \in [Clients -> Places]
      BY <2>5
    <2> QED BY <1>13, <2>3, <2>6, <2>7 DEF ExitTell
  <1>14. ASSUME NEW c \in Clients, BroadcastFails(c) PROVE Typed'
    BY <1>14 DEF BroadcastFails, Endings
  <1>15. ASSUME NEW c \in Clients, LinkMember(c) PROVE Typed'
    <2>1. LinkToList(members, client[c]) \in Lists(Blocks)
      BY <1>2, <1>15 DEF LinkMember, LinkToList, Lists, Has, Joins
    <2> QED BY <1>15, <2>1 DEF LinkMember, Lists
  <1>16. ASSUME NEW c \in Clients, Usage(c) PROVE Typed'
    BY <1>16 DEF Usage, Prompt, Endings
  <1>17. ASSUME NEW c \in Clients, EndOfChat(c) PROVE Typed'
    <2>1. temp' \in [Threads -> Blocks \cup {Null}] /\ owed' \in [Threads -> SUBSET Clients]
      BY <1>3, <1>17 DEF EndOfChat, Lists
    <2> QED BY <1>17, <2>1 DEF EndOfChat
  <1>18. ASSUME NEW c \in Clients, Close(c) PROVE Typed'
    BY <1>18 DEF Close
  <1>19. ASSUME NEW c \in Clients, UnlinkMember(c) PROVE Typed'
    <2>1. DislinkFromList(members, client[c]) \in Lists(Blocks)
      BY <1>2, <1>19 DEF UnlinkMember, DislinkFromList, Lists, Has, Stays
    <2> QED BY <1>19, <2>1 DEF UnlinkMember, Lists
  <1>20. CASE SenderLock \/ SenderFails
    BY <1>20 DEF SenderLock, SenderFails, Endings
  <1>21. CASE SenderPick
    <2>1. CASE Newest.to = NoArgs
      BY <1>21, <2>1 DEF SenderPick, Endings
    <2>2. CASE Newest.to # NoArgs
      <3>1. {b \in Linked : IsMeantFor(Newest, b)} \in SUBSET Linked
        OBVIOUS
      <3>2. temp' \in [Threads -> Blocks \cup {Null}]
        BY <1>21, <2>2 DEF SenderPick, Lists
      <3>3. owed' \in [Threads -> SUBSET Clients]
        <4> DEFINE N == NamesIn({b \in Linked : IsMeantFor(Newest, b)})
        <4>1. owed' = [owed EXCEPT ![Sender] = N] /\ N \in SUBSET Clients
          BY <1>3, <1>21, <2>2, <3>1 DEF SenderPick
        <4> HIDE DEF N
        <4> QED BY <4>1
      <3>4. carried' \in Seq(Line)
        <4>1. messages \in Seq(Line) /\ messages # <<>>
          BY <1>21, EmptySeq DEF SenderPick, Rounds
        <4>2. Newest \in Line
          BY <4>1 DEF Newest
        <4>3. carried' = Append(carried, Newest) /\ carried \in Seq(Line)
          BY <1>21, <2>2 DEF SenderPick
        <4> HIDE DEF Typed
        <4> QED BY <4>2, <4>3
      <3> QED BY <1>21, <2>2, <3>2, <3>3, <3>4 DEF SenderPick, Threads
    <2> QED BY <2>1, <2>2
  <1>22. CASE SenderTell
    <2>1. /\ peer' \in [Clients -> {"open", "closed", "reset"}]
          /\ owed' \in [Threads -> SUBSET Clients]
          /\ misrouted' \in SUBSET (Clients \X Clients)
      <3>1. Sender \in Threads /\ temp[Sender] \in Named \cup {Null}
        BY <1>4 DEF Threads
      <3>2. CASE temp[Sender] # Null /\ IsMeantFor(Newest, temp[Sender])
        BY <1>22, <3>1, <3>2, SendTypes DEF SenderTell
      <3>3. CASE ~(temp[Sender] # Null /\ IsMeantFor(Newest, temp[Sender]))
        BY <1>22, <3>3 DEF SenderTell
      <3> QED BY <3>2, <3>3
    <2>2. temp' \in [Threads -> Blocks \cup {Null}]
      BY <1>22, <1>4 DEF SenderTell, Lists, Threads, Named
    <2> QED BY <1>22, <2>1, <2>2 DEF SenderTell, Threads
  <1>23. CASE SenderNext
    <2>1. messages' \in Seq(Line) /\ Len(messages') <= said
      <3>1. messages' = messages \/ messages' = <<>>
        BY <1>23 DEF SenderNext
      <3>2. <<>> \in Seq(Line) /\ Len(<<>>) = 0
        OBVIOUS
      <3>3. messages \in Seq(Line) /\ Len(messages) <= said /\ 0 <= said
        OBVIOUS
      <3> HIDE DEF Typed
      <3> QED BY <3>1, <3>2, <3>3
    <2>2. round' \in {0} \cup 1..(MaxSaid - 1)
      <3>1. round' = 0 \/ (round' = round + 1 /\ round + 1 < Len(messages))
        BY <1>23 DEF SenderNext
      <3>2. Len(messages) \in Nat /\ Len(messages) <= said /\ said <= MaxSaid /\ said \in Nat
            /\ MaxSaid \in Nat /\ (round = 0 \/ round \in 1..(MaxSaid - 1))
        BY LenProperties
      <3> HIDE DEF Typed
      <3> QED BY <3>1, <3>2
    <2>3. carried' \in Seq(Line)
      <3>1. carried' = carried \/ carried' = <<>>
        BY <1>23 DEF SenderNext
      <3>2. <<>> \in Seq(Line) /\ carried \in Seq(Line)
        OBVIOUS
      <3> HIDE DEF Typed
      <3> QED BY <3>1, <3>2
    <2> QED BY <1>23, <2>1, <2>2, <2>3 DEF SenderNext
  <1>24. CASE UNCHANGED vars
    BY <1>24 DEF vars
  <1> QED BY <1>5, <1>6, <1>7, <1>8, <1>9, <1>10, <1>11, <1>12, <1>13, <1>14, <1>15, <1>16,
             <1>17, <1>18, <1>19, <1>20, <1>21, <1>22, <1>23, <1>24, <1>25
          DEF Next, LoggingIn, Broadcasting, Joining, Leaving, ReceiverStep, SenderStep

-----------------------------------------------------------------------------
(* Blocks and the list.                                                    *)

(* What a step does that is not of accept(), link or unlink.               *)
HeapStays ==
  /\ UNCHANGED <<members, allocated, client>>
  /\ \A c \in Clients : \/ pc'[c] = pc[c]
                        \/ pc[c] \in Joins /\ pc'[c] \in Joins \ {"name"}
                        \/ pc[c] \in Stays /\ pc'[c] \in Stays \ {"usage"}

LEMMA HeapSteps ==
  ASSUME Typed, [Next]_vars
  PROVE  HeapStays \/ \E c \in Clients : Accept(c) \/ LinkMember(c) \/ UnlinkMember(c)
  <1>1. pc \in [Clients -> Places]
    BY DEF Typed
  <1> USE DEF HeapStays, heap, receivers
  <1>2. ASSUME NEW c \in Clients, NEW p, NEW q, pc[c] = p, Goto(c, q),
               UNCHANGED <<members, allocated, client>>,
               \/ p \in Joins /\ q \in Joins \ {"name"}
               \/ p \in Stays /\ q \in Stays \ {"usage"}
        PROVE  HeapStays
    BY <1>1, <1>2 DEF Goto
  <1>3. ASSUME UNCHANGED <<members, allocated, client, pc>> PROVE HeapStays
    BY <1>3
  <1>4. ASSUME NEW how, Die(how) PROVE HeapStays
    BY <1>3, <1>4 DEF Die
  <1>5. ASSUME NEW c \in Clients, LoggingIn(c) PROVE HeapStays
    <2>1. CASE PromptFails(c)
      BY <1>4, <2>1 DEF PromptFails
    <2>2. CASE Name(c)
      BY <1>2, <2>2 DEF Name, Joins
    <2>3. CASE ListMembers(c)
      <3>1. pc[c] \in {"list", "nolist"} /\ ListMembers(c)
        BY <2>3 DEF ListMembers
      <3> QED BY <1>2, <1>4, <3>1 DEF ListMembers, Joins
    <2>4. CASE SelectGroup(c)
      BY <1>2, <2>4 DEF SelectGroup, Joins
    <2>5. CASE CountMember(c)
      BY <1>2, <1>3, <2>5 DEF CountMember, Joins
    <2>6. CASE CountAgain(c)
      BY <1>2, <2>6 DEF CountAgain, Joins
    <2>7. CASE CountFails(c)
      BY <1>4, <2>7 DEF CountFails
    <2> QED BY <1>5, <2>1, <2>2, <2>3, <2>4, <2>5, <2>6, <2>7 DEF LoggingIn
  <1>6. ASSUME NEW c \in Clients, Broadcasting(c) PROVE HeapStays
    <2>1. CASE LoginLock(c)
      BY <1>2, <2>1 DEF LoginLock, Joins
    <2>2. CASE LoginTell(c)
      BY <1>2, <1>3, <2>2 DEF LoginTell, Joins
    <2>3. CASE LoginToldAll(c)
      BY <1>2, <2>3 DEF LoginToldAll, Joins
    <2>4. CASE ExitTell(c)
      BY <1>2, <1>3, <2>4 DEF ExitTell, Stays
    <2>5. CASE BroadcastFails(c)
      BY <1>4, <2>5 DEF BroadcastFails
    <2> QED BY <1>6, <2>1, <2>2, <2>3, <2>4, <2>5 DEF Broadcasting
  <1>7. ASSUME NEW c \in Clients, Usage(c) PROVE HeapStays
    BY <1>2, <1>4, <1>7 DEF Usage, Stays
  <1>8. ASSUME NEW c \in Clients, EndOfChat(c) \/ Close(c) PROVE HeapStays
    BY <1>2, <1>8 DEF EndOfChat, Close, Stays
  <1>9. ASSUME NEW c \in Clients, Bye(c) \/ Leave(c) \/ Say(c) PROVE HeapStays
    BY <1>3, <1>9 DEF Bye, Leave, Say
  <1>10. CASE SenderStep
    BY <1>3, <1>4, <1>10 DEF SenderStep, SenderLock, SenderPick, SenderTell, SenderFails, SenderNext
  <1>11. CASE UNCHANGED vars
    BY <1>3, <1>11 DEF vars
  <1> QED BY <1>5, <1>6, <1>7, <1>8, <1>9, <1>10, <1>11
          DEF Next, Joining, Leaving, ReceiverStep

LEMMA BlocksStep ==
  ASSUME Typed, OwnBlocks, [Next]_vars
  PROVE  OwnBlocks'
  <1>1. CASE HeapStays
    <2>1. \A c \in Clients : (Has(c) <=> Has(c)') /\ (pc'[c] = "out" <=> pc[c] = "out")
      BY <1>1 DEF HeapStays, Has, Joins, Stays
    <2> QED BY <1>1, <2>1 DEF HeapStays, OwnBlocks
  <1>2. ASSUME NEW c \in Clients, Accept(c) PROVE OwnBlocks'
    <2>1. PICK b \in Blocks \ allocated :
             allocated' = allocated \cup {b} /\ client' = [client EXCEPT ![c] = b]
      BY <1>2 DEF Accept
    <2>2. pc[c] = "out" /\ pc' = [pc EXCEPT ![c] = "name"]
      BY <1>2 DEF Accept, Goto
    <2>3. \A d \in Clients : /\ client'[d] = IF d = c THEN b ELSE client[d]
                             /\ pc'[d] = IF d = c THEN "name" ELSE pc[d]
      BY <2>1, <2>2 DEF Typed
    <2>4. \A d \in Clients : Has(d)' => d = c \/ (Has(d) /\ client[d] # b)
      BY <2>1, <2>3 DEF Has, OwnBlocks
    <2>5. b # Null
      BY ChatAssumption
    <2> QED BY <2>1, <2>2, <2>3, <2>4, <2>5 DEF OwnBlocks
  <1>3. ASSUME NEW c \in Clients, LinkMember(c) PROVE OwnBlocks'
    <2>1. \A d \in Clients : pc'[d] = IF d = c THEN "usage" ELSE pc[d]
      BY <1>3 DEF LinkMember, Goto, Typed
    <2>2. pc[c] = "link" /\ client' = client /\ allocated' = allocated
      BY <1>3 DEF LinkMember
    <2>3. \A d \in Clients : (Has(d) <=> Has(d)') /\ (pc'[d] = "out" <=> pc[d] = "out")
      BY <2>1, <2>2 DEF Has, Joins, Stays
    <2> QED BY <2>2, <2>3 DEF OwnBlocks
  <1>4. ASSUME NEW c \in Clients, UnlinkMember(c) PROVE OwnBlocks'
    <2>1. \A d \in Clients : pc'[d] = IF d = c THEN "gone" ELSE pc[d]
      BY <1>4 DEF UnlinkMember, Goto, Typed
    <2>2. pc[c] = "unlink" /\ client' = client /\ allocated' = allocated \ {client[c]}
      BY <1>4 DEF UnlinkMember
    <2>3. \A d \in Clients : /\ Has(d)' <=> Has(d) /\ d # c
                             /\ pc'[d] = "out" <=> pc[d] = "out"
      BY <2>1, <2>2 DEF Has, Joins, Stays
    <2>4. Has(c)
      BY <2>2 DEF Has, Stays
    <2>5. ASSUME NEW d \in Clients, Has(d)' PROVE client[d] \in allocated'
      <3>1. Has(d) /\ d # c
        BY <2>3, <2>5 DEF Has
      <3>2. client[d] \in allocated /\ client[d] # client[c]
        BY <2>4, <3>1 DEF OwnBlocks
      <3> QED BY <2>2, <3>2
    <2>6. ASSUME NEW d \in Clients, NEW e \in Clients, Has(d)', Has(e)', client[d] = client[e]
          PROVE  d = e
      <3>1. Has(d) /\ Has(e)
        BY <2>3, <2>6 DEF Has
      <3> QED BY <2>6, <3>1 DEF OwnBlocks
    <2>7. \A d \in Clients : pc'[d] = "out" <=> client[d] = Null
      BY <2>3 DEF OwnBlocks
    <2> QED BY <2>2, <2>5, <2>6, <2>7 DEF OwnBlocks
  <1> QED BY <1>1, <1>2, <1>3, <1>4, HeapSteps

\* The members between link and unlink, after each step that is of the list.
LEMMA LinkedStep ==
  ASSUME Typed, OwnBlocks
  PROVE  /\ HeapStays => Linked' = Linked
         /\ \A c \in Clients : Accept(c) => Linked' = Linked
         /\ \A c \in Clients : LinkMember(c) => Linked' = Linked \cup {client[c]}
         /\ \A c \in Clients : UnlinkMember(c) => Linked' = Linked \ {client[c]}
  <1> DEFINE L == {client[d] : d \in {e \in Clients : pc[e] \in Stays}}
  <1>0. Linked = L /\ Linked' = L'
    BY DEF Linked, Stays
  <1>1. ASSUME HeapStays PROVE L' = L
    <2>1. \A d \in Clients : pc'[d] \in Stays <=> pc[d] \in Stays
      BY <1>1 DEF HeapStays, Joins, Stays
    <2> QED BY <1>1, <2>1 DEF HeapStays
  <1>2. ASSUME NEW c \in Clients, Accept(c) PROVE L' = L
    <2>1. \A d \in Clients : /\ pc'[d] \in Stays <=> pc[d] \in Stays
                             /\ pc[d] \in Stays => client'[d] = client[d]
      BY <1>2 DEF Accept, Goto, Stays, Typed
    <2> QED BY <2>1
  <1>3. ASSUME NEW c \in Clients, LinkMember(c) PROVE L' = L \cup {client[c]}
    <2>1. client' = client /\ \A d \in Clients : pc'[d] \in Stays <=> pc[d] \in Stays \/ d = c
      BY <1>3 DEF LinkMember, Goto, Stays, Typed
    <2> QED BY <2>1
  <1>4. ASSUME NEW c \in Clients, UnlinkMember(c) PROVE L' = L \ {client[c]}
    <2>1. client' = client /\ \A d \in Clients : pc'[d] \in Stays <=> pc[d] \in Stays /\ d # c
      BY <1>4 DEF UnlinkMember, Goto, Stays, Typed
    <2>2. \A d \in Clients : pc[d] \in Stays /\ client[d] = client[c] => d = c
      BY <1>4 DEF UnlinkMember, OwnBlocks, Has, Stays
    <2> QED BY <2>1, <2>2
  <1> QED BY <1>0, <1>1, <1>2, <1>3, <1>4

\* The list has the members, and no block of a thread that has not linked it.
LEMMA NotLinked ==
  ASSUME OwnBlocks, NEW c \in Clients, pc[c] \in Joins
  PROVE  client[c] \notin Linked
  BY DEF OwnBlocks, Linked, Has, Joins, Stays

LEMMA LinkMemberList ==
  ASSUME Typed, OwnBlocks, FreshFields, NEW c \in Clients, LinkMember(c),
         NEW s \in Seq(Blocks), MembersAre(s)
  PROVE  /\ client[c] \in Blocks \ Nodes(s)
         /\ <<client[c]>> \o s \in Seq(Blocks)
         /\ MembersAre(<<client[c]>> \o s)'
         /\ \A b \in Blocks \ {client[c]} : members'.next[b] = members.next[b]
         /\ \A b \in Blocks \ Nodes(s) : members'.prev[b] = members.prev[b]
  <1> PICK n \in Blocks \cup {Null} : n = client[c]
    BY DEF Typed
  <1>1. pc[c] = "link" /\ pc[c] \in Joins /\ members' = LinkToList(members, n) /\ client' = client
    BY DEF LinkMember, Joins
  <1>2. n \in Blocks \ Nodes(s)
    <2>1. n \in allocated
      BY <1>1 DEF OwnBlocks, Has
    <2>2. n \notin Linked
      BY <1>1, NotLinked
    <2> QED BY <2>1, <2>2 DEF Typed, MembersAre
  <1>3. members.prev[n] = Null /\ members.next[n] = Null
    BY <1>1 DEF FreshFields
  <1>4. ListIs(members, s) /\ Nodes(s) = Linked /\ members \in Lists(Blocks)
    BY DEF MembersAre, Typed
  <1>5. /\ ListIs(LinkToList(members, n), <<n>> \o s)
        /\ \A b \in Blocks \ {n} : LinkToList(members, n).next[b] = members.next[b]
        /\ \A b \in Blocks \ Nodes(s) : LinkToList(members, n).prev[b] = members.prev[b]
    BY <1>2, <1>3, <1>4, LinkKeepsList, ChatAssumption
  <1>6. <<n>> \o s \in Seq(Blocks) /\ Nodes(<<n>> \o s) = Nodes(s) \cup {n}
    BY <1>2, Pushed
  <1>7. Linked' = Linked \cup {n}
    BY LinkedStep
  <1>8. MembersAre(<<n>> \o s)'
    <2> DEFINE r == <<n>> \o s
    <2>1. ListIs(members', r) /\ Nodes(r) = Linked'
      BY <1>1, <1>4, <1>5, <1>6, <1>7
    <2> HIDE DEF r
    <2>2. MembersAre(r)'
      BY <2>1 DEF MembersAre
    <2> QED BY <1>1, <2>2 DEF r
  <1>9. (<<client[c]>> \o s)' = <<n>> \o s
    BY <1>1
  <1> QED BY <1>1, <1>2, <1>5, <1>6, <1>8, <1>9

LEMMA UnlinkMemberList ==
  ASSUME Typed, OwnBlocks, NEW c \in Clients, UnlinkMember(c),
         NEW s \in Seq(Blocks), MembersAre(s)
  PROVE  \E k \in 1..Len(s) :
            /\ client[c] = s[k]
            /\ members' = DislinkFromList(members, s[k])
            /\ RemoveAt(s, k) \in Seq(Blocks)
            /\ MembersAre(RemoveAt(s, k))'
            /\ \A b \in Blocks \ Linked' :
                  members'.prev[b] = members.prev[b] /\ members'.next[b] = members.next[b]
  <1>1. pc[c] = "unlink" /\ members' = DislinkFromList(members, client[c]) /\ client' = client
    BY DEF UnlinkMember
  <1>2. client[c] \in Linked
    BY <1>1 DEF Linked
  <1>3. PICK k \in 1..Len(s) : client[c] = s[k]
    BY <1>2 DEF MembersAre, Nodes
  <1> DEFINE r == RemoveAt(s, k)
  <1>4. ListIs(members, s) /\ Nodes(s) = Linked /\ members \in Lists(Blocks)
    BY DEF MembersAre, Typed
  <1>5. /\ ListIs(DislinkFromList(members, s[k]), r)
        /\ \A b \in Blocks \ Nodes(r) :
              /\ DislinkFromList(members, s[k]).prev[b] = members.prev[b]
              /\ DislinkFromList(members, s[k]).next[b] = members.next[b]
    BY <1>4, DislinkKeepsList, ChatAssumption
  <1>6. r \in Seq(Blocks) /\ Nodes(r) = Nodes(s) \ {s[k]}
    <2>1. \A j, h \in 1..Len(s) : s[j] = s[h] => j = h
      BY <1>4 DEF ListIs
    <2> QED BY <2>1, Removed, RemovedNodes
  <1>7. Linked' = Linked \ {s[k]}
    BY <1>3, LinkedStep
  <1>8. ListIs(members', r) /\ Nodes(r) = Linked'
    BY <1>1, <1>3, <1>4, <1>5, <1>6, <1>7
  <1> HIDE DEF r
  <1>9. MembersAre(r)'
    BY <1>8 DEF MembersAre
  <1> QED BY <1>1, <1>3, <1>5, <1>6, <1>8, <1>9 DEF r

\* malloc gives a block that is not linked.
LEMMA AcceptList ==
  ASSUME Typed, OwnBlocks, NEW c \in Clients, Accept(c), NEW s \in Seq(Blocks), MembersAre(s)
  PROVE  MembersAre(s)'
  <1>1. PICK b \in Blocks \ allocated :
           members' = [members EXCEPT !.prev[b] = Null, !.next[b] = Null]
    BY DEF Accept
  <1>2. Linked \subseteq allocated
    BY DEF Linked, OwnBlocks, Has, Stays
  <1>3. ListIs(members, s) /\ Nodes(s) = Linked
    BY DEF MembersAre
  <1>4. \A j \in 1..Len(s) : s[j] # b
    BY <1>2, <1>3 DEF Nodes
  <1>5. /\ members'.first = members.first
        /\ \A a \in Blocks : a # b => /\ members'.next[a] = members.next[a]
                                      /\ members'.prev[a] = members.prev[a]
    BY <1>1 DEF Typed, Lists
  <1>6. \A j \in 1..Len(s) : s[j] \in Blocks
    BY ElementOfSeq
  <1>7. ListIs(members', s)
    BY <1>3, <1>4, <1>5, <1>6 DEF ListIs
  <1>8. Linked' = Linked
    BY LinkedStep
  <1> QED BY <1>3, <1>7, <1>8 DEF MembersAre

LEMMA FreshStep ==
  ASSUME Typed, OwnBlocks, FreshFields, NEW s \in Seq(Blocks), MembersAre(s), [Next]_vars
  PROVE  FreshFields'
  <1>1. CASE HeapStays
    <2>1. \A d \in Clients : pc'[d] \in Joins => pc[d] \in Joins
      BY <1>1 DEF HeapStays, Joins, Stays
    <2> QED BY <1>1, <2>1 DEF HeapStays, FreshFields
  <1>2. ASSUME NEW c \in Clients, Accept(c) PROVE FreshFields'
    <2>1. PICK b \in Blocks \ allocated :
             /\ members' = [members EXCEPT !.prev[b] = Null, !.next[b] = Null]
             /\ client' = [client EXCEPT ![c] = b]
      BY <1>2 DEF Accept
    <2>2. /\ members'.next[b] = Null /\ members'.prev[b] = Null
          /\ \A a \in Blocks : a # b => /\ members'.next[a] = members.next[a]
                                        /\ members'.prev[a] = members.prev[a]
      BY <2>1 DEF Typed, Lists
    <2>3. ASSUME NEW d \in Clients, d # c, pc'[d] \in Joins
          PROVE  /\ pc[d] \in Joins /\ client'[d] = client[d]
                 /\ client[d] \in Blocks /\ client[d] # b
      <3>1. pc[d] \in Joins /\ client'[d] = client[d]
        BY <1>2, <2>1, <2>3 DEF Accept, Goto, Typed
      <3>2. client[d] \in allocated
        BY <3>1 DEF OwnBlocks, Has
      <3> QED BY <3>1, <3>2, <2>1 DEF Typed
    <2>4. client'[c] = b
      BY <2>1 DEF Typed
    <2> QED BY <2>2, <2>3, <2>4 DEF FreshFields
  <1>3. ASSUME NEW c \in Clients, LinkMember(c) PROVE FreshFields'
    <2>1. ASSUME NEW d \in Clients, pc'[d] \in Joins
          PROVE  /\ pc[d] \in Joins /\ client'[d] = client[d] /\ client[d] \in Blocks
                 /\ client[d] # client[c] /\ client[d] \notin Nodes(s)
      <3>1. d # c /\ pc[d] \in Joins /\ client'[d] = client[d] /\ pc[c] \in Joins
        BY <1>3, <2>1 DEF LinkMember, Goto, Typed, Joins
      <3>2. client[d] \in allocated /\ client[d] # client[c]
        BY <3>1 DEF OwnBlocks, Has
      <3> QED BY <3>1, <3>2, NotLinked DEF Typed, MembersAre
    <2>2. /\ \A b \in Blocks \ {client[c]} : members'.next[b] = members.next[b]
          /\ \A b \in Blocks \ Nodes(s) : members'.prev[b] = members.prev[b]
      BY <1>3, LinkMemberList
    <2> QED BY <2>1, <2>2 DEF FreshFields
  <1>4. ASSUME NEW c \in Clients, UnlinkMember(c) PROVE FreshFields'
    <2>1. \A b \in Blocks \ Linked' :
             members'.prev[b] = members.prev[b] /\ members'.next[b] = members.next[b]
      BY <1>4, UnlinkMemberList
    <2>2. Linked' \subseteq Linked
      BY <1>4, LinkedStep
    <2>3. ASSUME NEW d \in Clients, pc'[d] \in Joins
          PROVE  /\ pc[d] \in Joins /\ client'[d] = client[d]
                 /\ client[d] \in Blocks \ Linked'
      <3>1. pc[d] \in Joins /\ client'[d] = client[d]
        BY <1>4, <2>3 DEF UnlinkMember, Goto, Typed, Joins
      <3>2. client[d] \in allocated
        BY <3>1 DEF OwnBlocks, Has
      <3> QED BY <3>1, <3>2, <2>2, NotLinked DEF Typed
    <2> QED BY <2>1, <2>3 DEF FreshFields
  <1> QED BY <1>1, <1>2, <1>3, <1>4, HeapSteps

-----------------------------------------------------------------------------
(* Names, and the pointers of the walks.                                   *)

NamesStay ==
  /\ \A b \in Blocks : member'[b].name = member[b].name /\ member'[b].fd = member[b].fd
  /\ \A c \in Clients : /\ client'[c] = client[c]
                        /\ pc'[c] = "out" <=> pc[c] = "out"
                        /\ pc'[c] = "name" <=> pc[c] = "name"

LEMMA NameSteps ==
  ASSUME Typed, [Next]_vars
  PROVE  NamesStay \/ \E c \in Clients : Accept(c) \/ Name(c)
  <1>1. ASSUME UNCHANGED <<member, client, pc>> PROVE NamesStay
    BY <1>1 DEF NamesStay
  <1>2. ASSUME NEW c \in Clients, NEW p, NEW q, pc[c] = p, Goto(c, q), UNCHANGED client,
               p \notin {"out", "name"}, q \notin {"out", "name"},
               member' = member \/ \E b, g : member' = [member EXCEPT ![b].group = g]
        PROVE  NamesStay
    <2>1. \A b \in Blocks : member'[b].name = member[b].name /\ member'[b].fd = member[b].fd
      <3>1. CASE \E b, g : member' = [member EXCEPT ![b].group = g]
        <4>1. PICK b, g : member' = [member EXCEPT ![b].group = g]
          BY <3>1
        <4>2. ASSUME NEW a \in Blocks
              PROVE  /\ member[a] \in Records
                     /\ member'[a] = IF a = b THEN [member[a] EXCEPT !.group = g] ELSE member[a]
          BY <4>1 DEF Typed
        <4>3. ASSUME NEW r \in Records
              PROVE  [r EXCEPT !.group = g].name = r.name /\ [r EXCEPT !.group = g].fd = r.fd
          BY DEF Records
        <4> QED BY <4>2, <4>3
      <3> QED BY <1>2, <3>1
    <2> QED BY <1>2, <2>1 DEF NamesStay, Typed, Goto
  <1> USE DEF heap, receivers
  <1>3. ASSUME NEW how, Die(how) PROVE NamesStay
    BY <1>1, <1>3 DEF Die
  <1>4. ASSUME NEW c \in Clients, PromptFails(c) \/ BroadcastFails(c) PROVE NamesStay
    BY <1>3, <1>4 DEF PromptFails, BroadcastFails
  <1>5. ASSUME NEW c \in Clients, ListMembers(c) \/ CountFails(c) PROVE NamesStay
    BY <1>2, <1>3, <1>5 DEF ListMembers, CountFails
  <1>16. ASSUME NEW c \in Clients, CountMember(c) PROVE NamesStay
    BY <1>1, <1>2, <1>16 DEF CountMember
  <1>17. ASSUME NEW c \in Clients, CountAgain(c) PROVE NamesStay
    BY <1>2, <1>17 DEF CountAgain
  <1>6. ASSUME NEW c \in Clients, SelectGroup(c) PROVE NamesStay
    BY <1>2, <1>6 DEF SelectGroup
  <1>7. ASSUME NEW c \in Clients, LoginLock(c) \/ LoginToldAll(c) PROVE NamesStay
    BY <1>2, <1>7 DEF LoginLock, LoginToldAll
  <1>8. ASSUME NEW c \in Clients, LoginTell(c) PROVE NamesStay
    BY <1>1, <1>2, <1>8 DEF LoginTell
  <1>9. ASSUME NEW c \in Clients, ExitTell(c) PROVE NamesStay
    BY <1>1, <1>2, <1>9 DEF ExitTell
  <1>10. ASSUME NEW c \in Clients, LinkMember(c) \/ UnlinkMember(c) \/ Close(c) PROVE NamesStay
    BY <1>2, <1>10 DEF LinkMember, UnlinkMember, Close
  <1>11. ASSUME NEW c \in Clients, Usage(c) PROVE NamesStay
    BY <1>2, <1>3, <1>11 DEF Usage
  <1>12. ASSUME NEW c \in Clients, EndOfChat(c) PROVE NamesStay
    BY <1>2, <1>12 DEF EndOfChat
  <1>13. ASSUME NEW c \in Clients, Bye(c) \/ Leave(c) \/ Say(c) PROVE NamesStay
    BY <1>1, <1>13 DEF Bye, Leave, Say
  <1>14. CASE SenderStep
    BY <1>1, <1>3, <1>14 DEF SenderStep, SenderLock, SenderPick, SenderTell, SenderFails, SenderNext
  <1>15. CASE UNCHANGED vars
    BY <1>1, <1>15 DEF vars
  <1> QED BY <1>4, <1>5, <1>6, <1>7, <1>8, <1>9, <1>10, <1>11, <1>12, <1>13, <1>14, <1>15, <1>16,
             <1>17
          DEF Next, LoggingIn, Broadcasting, Joining, Leaving, ReceiverStep

LEMMA TempStep ==
  ASSUME Typed, [Next]_vars, NEW t \in Threads
  PROVE  \/ temp'[t] = temp[t]
         \/ temp'[t] = Null
         \/ temp'[t] = members.first
         \/ /\ (t \in Clients /\ pc[t] \in {"exit", "count", "recount"}) \/ temp[t] # Null
            /\ temp'[t] = members.next[temp[t]]
  <1> USE DEF receivers, Typed
  <1>1. CASE SenderStep
    BY <1>1 DEF SenderStep, SenderLock, SenderPick, SenderTell, SenderFails, SenderNext, Die
  <1>2. ASSUME NEW c \in Clients, LoggingIn(c)
        PROVE  \/ temp'[t] = temp[t] \/ temp'[t] = members.first
               \/ /\ t = c /\ pc[t] \in {"count", "recount"}
                  /\ temp'[t] = members.next[temp[t]]
    BY <1>2 DEF LoggingIn, PromptFails, Name, CountFails, Counting, CountMember, CountAgain,
                ListMembers, SelectGroup, Die
  <1>3. ASSUME NEW c \in Clients, Broadcasting(c)
        PROVE  \/ temp'[t] = temp[t] \/ temp'[t] = Null
               \/ /\ pc[t] = "exit" \/ temp[t] # Null
                  /\ t = c /\ temp'[t] = members.next[temp[t]]
    BY <1>3 DEF Broadcasting, LoginLock, LoginTell, LoginToldAll, ExitTell, BroadcastFails, Die
  <1>4. ASSUME NEW c \in Clients, Joining(c) \/ Bye(c) \/ Leave(c) \/ Accept(c) \/ Say(c)
        PROVE  temp'[t] = temp[t]
    BY <1>4 DEF Joining, LinkMember, Usage, Bye, Leave, Accept, Say, Die
  <1>5. ASSUME NEW c \in Clients, Leaving(c) PROVE temp'[t] = temp[t] \/ temp'[t] = members.first
    BY <1>5 DEF Leaving, EndOfChat, Close, UnlinkMember
  <1>6. CASE UNCHANGED vars
    BY <1>6 DEF vars
  <1> QED BY <1>1, <1>2, <1>3, <1>4, <1>5, <1>6 DEF Next, ReceiverStep

\* A receiver's place, pointer, rounds and debts change in its own steps.
StepOf(c) ==
  \/ Accept(c) \/ Name(c) \/ Counting(c) \/ ListMembers(c) \/ SelectGroup(c) \/ LoginLock(c)
  \/ LoginTell(c)
  \/ LoginToldAll(c) \/ LinkMember(c) \/ Usage(c) \/ EndOfChat(c) \/ ExitTell(c) \/ Close(c)
  \/ UnlinkMember(c)

Rests(c) ==
  /\ pc'[c] = pc[c] /\ temp'[c] = temp[c] /\ i'[c] = i[c] /\ client'[c] = client[c]
  /\ owed'[c] \subseteq owed[c]

LEMMA OwnSteps ==
  ASSUME Typed, [Next]_vars, NEW c \in Clients
  PROVE  Rests(c) \/ StepOf(c)
  <1>1. c \in Threads /\ c # Sender
    BY ChatAssumption DEF Threads
  <1> USE DEF receivers
  <1>2. ASSUME UNCHANGED <<receivers, temp, owed>> PROVE Rests(c)
    BY <1>2 DEF Rests
  <1>3. ASSUME NEW how, Die(how) PROVE Rests(c)
    BY <1>2, <1>3 DEF Die
  <1>4. ASSUME NEW d \in Clients, \/ PromptFails(d) \/ CountFails(d) \/ BroadcastFails(d)
                                  \/ Bye(d) \/ Leave(d) \/ Say(d)
        PROVE  Rests(c)
    BY <1>2, <1>3, <1>4 DEF PromptFails, CountFails, BroadcastFails, Bye, Leave, Say
  <1>5. ASSUME NEW d \in Clients, Accept(d) \/ Name(d) \/ Counting(d) \/ ListMembers(d)
        \/ LoginLock(d)
                                  \/ LoginToldAll(d) \/ Usage(d), d # c
        PROVE  Rests(c)
    BY <1>1, <1>3, <1>5
    DEF Rests, Typed, Goto, Accept, Name, Counting, CountMember, CountAgain, ListMembers,
        LoginLock, LoginToldAll, Usage
  <1>6. ASSUME NEW d \in Clients, SelectGroup(d) \/ LinkMember(d) \/ EndOfChat(d) \/ Close(d), d # c
        PROVE  Rests(c)
    BY <1>1, <1>6 DEF Rests, Typed, Goto, SelectGroup, LinkMember, EndOfChat, Close
  <1>7. ASSUME NEW d \in Clients, LoginTell(d) \/ ExitTell(d), d # c
        PROVE  Rests(c)
    BY <1>1, <1>7 DEF Rests, Typed, Goto, LoginTell, ExitTell, SendBy
  <1>8. ASSUME NEW d \in Clients, UnlinkMember(d), d # c
        PROVE  Rests(c)
    BY <1>1, <1>8 DEF Rests, Typed, Goto, UnlinkMember
  <1>9. CASE SenderStep
    <2>1. CASE SenderLock \/ SenderNext \/ SenderFails
      BY <1>1, <1>3, <2>1 DEF SenderLock, SenderNext, SenderFails, Rests, Typed
    <2>2. CASE SenderPick
      BY <1>1, <1>3, <2>2 DEF SenderPick, Rests, Typed
    <2>3. CASE SenderTell
      BY <1>1, <2>3 DEF SenderTell, SendBy, Rests, Typed
    <2> QED BY <1>9, <2>1, <2>2, <2>3 DEF SenderStep
  <1>10. CASE UNCHANGED vars
    BY <1>2, <1>10 DEF vars
  <1>11. ASSUME NEW d \in Clients, \/ Bye(d) \/ Leave(d) \/ Accept(d) \/ LoggingIn(d) \/ Say(d)
                                   \/ ReceiverStep(d)
         PROVE  Rests(c) \/ StepOf(c)
    <2>1. CASE d = c
      BY <1>4, <1>11, <2>1 DEF StepOf, LoggingIn, Counting, ReceiverStep, Broadcasting, Joining,
                               Leaving
    <2>2. CASE d # c
      BY <1>4, <1>5, <1>6, <1>7, <1>8, <1>11, <2>2
      DEF LoggingIn, Counting, ReceiverStep, Broadcasting, Joining, Leaving
    <2> QED BY <2>1, <2>2
  <1> QED BY <1>9, <1>10, <1>11 DEF Next

LEMMA ExitSteps ==
  ASSUME Typed, [Next]_vars, NEW c \in Clients, pc'[c] \in {"exit", "close"}
  PROVE  EndOfChat(c) \/ ExitTell(c) \/ Rests(c)
  <1> SUFFICES ASSUME StepOf(c) PROVE EndOfChat(c) \/ ExitTell(c) \/ Rests(c)
    BY OwnSteps
  <1>1. ASSUME NEW q, Goto(c, q) PROVE q \in {"exit", "close"}
    BY <1>1 DEF Goto, Typed
  <1>2. /\ ~Accept(c) /\ ~SelectGroup(c) /\ ~LoginLock(c) /\ ~LoginToldAll(c)
        /\ ~LinkMember(c) /\ ~Close(c) /\ ~UnlinkMember(c) /\ ~Name(c)
    <2>1. \A q \in Places \ {"exit", "close"} : ~Goto(c, q)
      BY <1>1
    <2>2. ~Accept(c) /\ ~SelectGroup(c) /\ ~LoginLock(c)
      BY <2>1 DEF Accept, SelectGroup, LoginLock, Places
    <2>3. ~LoginToldAll(c) /\ ~LinkMember(c) /\ ~Close(c)
      BY <2>1 DEF LoginToldAll, LinkMember, Close, Places
    <2>4. ~UnlinkMember(c) /\ ~Name(c)
      BY <2>1 DEF UnlinkMember, Name, Places
    <2> QED BY <2>2, <2>3, <2>4
  <1>3. ~Usage(c)
    BY <1>1 DEF Usage, Die, receivers
  <1>4. ~ListMembers(c)
    BY <1>1 DEF ListMembers, Die, receivers
  <1>5. ~LoginTell(c) /\ ~Counting(c)
    BY <1>1 DEF LoginTell, Counting, CountMember, CountAgain
  <1> QED BY <1>2, <1>3, <1>4, <1>5 DEF StepOf

LEMMA CountSteps ==
  ASSUME Typed, [Next]_vars, NEW c \in Clients, pc'[c] \in {"count", "recount", "list"}
  PROVE  Name(c) \/ Counting(c) \/ Rests(c)
  <1> SUFFICES ASSUME StepOf(c) PROVE Name(c) \/ Counting(c) \/ Rests(c)
    BY OwnSteps
  <1>1. ASSUME NEW q, Goto(c, q) PROVE q \in {"count", "recount", "list"}
    BY <1>1 DEF Goto, Typed
  <1>2. ~Accept(c) /\ ~SelectGroup(c) /\ ~LoginLock(c) /\ ~LoginToldAll(c)
    <2>1. ~Accept(c) /\ ~SelectGroup(c)
      <3>1. ~Goto(c, "name") /\ ~Goto(c, "notify")
        BY <1>1
      <3> QED BY <3>1 DEF Accept, SelectGroup
    <2>2. ~LoginLock(c) /\ ~LoginToldAll(c)
      BY <1>1 DEF LoginLock, LoginToldAll
    <2> QED BY <2>1, <2>2
  <1>3. ~LinkMember(c) /\ ~Close(c) /\ ~UnlinkMember(c)
    BY <1>1 DEF LinkMember, Close, UnlinkMember
  <1>4. ~EndOfChat(c) /\ ~LoginTell(c) /\ ~ExitTell(c)
    BY <1>1 DEF EndOfChat, LoginTell, ExitTell
  <1>5. ListMembers(c) \/ Usage(c) => Rests(c)
    BY <1>1 DEF ListMembers, Usage, Die, receivers, Rests
  <1> QED BY <1>2, <1>3, <1>4, <1>5 DEF StepOf

\* The first pointer is that of a member.
LEMMA FirstIsLinked ==
  ASSUME NEW s \in Seq(Blocks), MembersAre(s)
  PROVE  members.first \in Linked \cup {Null}
  BY FromFirst, ChatAssumption DEF MembersAre

LEMMA GoneStays ==
  ASSUME Typed, [Next]_vars, NEW c \in Clients, pc[c] = "gone"
  PROVE  pc'[c] = "gone" /\ client'[c] = client[c]
  <1>1. ~StepOf(c)
    BY DEF StepOf, Accept, Name, Counting, CountMember, CountAgain, ListMembers, SelectGroup,
        LoginLock, LoginTell, LoginToldAll,
           LinkMember, Usage, EndOfChat, ExitTell, Close, UnlinkMember
  <1> QED BY <1>1, OwnSteps DEF Rests

LEMMA NamesStep ==
  ASSUME Typed, OwnBlocks, Names, NEW s \in Seq(Blocks), MembersAre(s), [Next]_vars
  PROVE  Names' /\ Named \subseteq Named'
  <1>1. members.first \in Named \cup {Null}
    <2>1. Linked \subseteq Named
      BY LinkedNames DEF Named, Linked, Typed, OwnBlocks, Has, Stays
    <2> QED BY <2>1, FirstIsLinked
  <1>2. /\ \A c \in Clients : Has(c)' /\ pc'[c] # "name" => member'[client'[c]].name = c
        /\ \A b \in Named' : /\ client'[member'[b].name] = b
                             /\ pc'[member'[b].name] \notin {"out", "name"}
        /\ Named \subseteq Named'
    <2>1. CASE NamesStay
      <3>1. Named' = Named
        BY <2>1 DEF NamesStay, Named
      <3>2. \A b \in Named : member'[b].name = member[b].name /\ member[b].name \in Clients
        BY <2>1 DEF NamesStay, Named
      <3>3. ASSUME NEW c \in Clients, Has(c)', pc'[c] # "name"
            PROVE  member'[client'[c]].name = c
        <4>1. client[c] \in Blocks /\ Has(c) /\ pc[c] # "name"
          <5>1. pc[c] # "out" /\ pc[c] # "name"
            BY <2>1, <3>3 DEF NamesStay, Has, Joins, Stays
          <5>2. pc[c] # "gone"
            BY <3>3, GoneStays DEF Has, Joins, Stays
          <5>3. Has(c)
            BY <5>1, <5>2 DEF Has, Joins, Stays, Typed, Places
          <5> QED BY <5>1, <5>3 DEF OwnBlocks, Typed
        <4> QED BY <2>1, <4>1 DEF Names, NamesStay
      <3> QED BY <2>1, <3>1, <3>2, <3>3 DEF Names, NamesStay
    <2>2. ASSUME NEW c \in Clients, Accept(c)
          PROVE  /\ \A d \in Clients : Has(d)' /\ pc'[d] # "name" => member'[client'[d]].name = d
                 /\ \A b \in Named' : /\ client'[member'[b].name] = b
                                      /\ pc'[member'[b].name] \notin {"out", "name"}
                 /\ Named \subseteq Named'
      <3>1. PICK f \in Fds, a \in Blocks : /\ member' = [member EXCEPT ![a].fd = f]
                                           /\ client' = [client EXCEPT ![c] = a]
        BY <2>2 DEF Accept
      <3>2. \A b \in Blocks : member'[b].name = member[b].name
        BY <3>1 DEF Typed, Records
      <3>3. Named' = Named
        BY <3>2 DEF Named
      <3>4. pc[c] = "out" /\ \A d \in Clients : pc'[d] = IF d = c THEN "name" ELSE pc[d]
        BY <2>2 DEF Accept, Goto, Typed
      <3>5. \A d \in Clients : d # c => client'[d] = client[d]
        BY <3>1 DEF Typed
      <3>6. \A b \in Named : member[b].name \in Clients /\ member[b].name # c
        BY <3>4 DEF Names, Named
      <3>7. \A b \in Named : b \in Blocks
        BY DEF Named
      <3>8. \A d \in Clients : d # c /\ Has(d)' => Has(d) /\ client[d] \in Blocks
        BY <3>4 DEF Has, OwnBlocks, Typed
      <3> QED BY <3>2, <3>3, <3>4, <3>5, <3>6, <3>7, <3>8 DEF Names
    <2>3. ASSUME NEW c \in Clients, Name(c)
          PROVE  /\ \A d \in Clients : Has(d)' /\ pc'[d] # "name" => member'[client'[d]].name = d
                 /\ \A b \in Named' : /\ client'[member'[b].name] = b
                                      /\ pc'[member'[b].name] \notin {"out", "name"}
                 /\ Named \subseteq Named'
      <3>1. /\ pc[c] = "name" /\ member' = [member EXCEPT ![client[c]].name = c]
            /\ client' = client
            /\ pc'[c] \in {"count", "group"} /\ \A d \in Clients : d # c => pc'[d] = pc[d]
        BY <2>3 DEF Name, Goto, Typed
      <3>2. PICK a \in Blocks : a = client[c]
        BY <3>1 DEF OwnBlocks, Has, Joins, Typed
      <3>3. \A b \in Blocks : member'[b].name = IF b = a THEN c ELSE member[b].name
        <4>1. member' = [member EXCEPT ![a].name = c]
          BY <3>1, <3>2
        <4> QED BY <4>1 DEF Typed, Records
      <3>4. Named' = Named \cup {a}
        BY <3>3 DEF Named
      <3>5. ASSUME NEW d \in Clients, d # c, Has(d)', pc'[d] # "name"
            PROVE  member'[client'[d]].name = d
        <4>1. Has(d) /\ Has(c) /\ pc[d] # "name"
          BY <3>1, <3>5 DEF Has, Joins
        <4>2. client[d] \in Blocks /\ client[d] # a
          BY <3>2, <3>5, <4>1 DEF OwnBlocks, Typed
        <4> QED BY <3>1, <3>3, <4>1, <4>2 DEF Names
      <3>6. member'[client'[c]].name = c
        BY <3>1, <3>2, <3>3
      <3>7. ASSUME NEW b \in Named' PROVE /\ client'[member'[b].name] = b
                                          /\ pc'[member'[b].name] \notin {"out", "name"}
        <4>1. CASE b = a
          BY <3>1, <3>2, <3>3, <4>1
        <4>2. CASE b # a
          <5>1. b \in Named /\ member'[b].name = member[b].name
            BY <3>3, <3>4, <4>2 DEF Named
          <5>2. member[b].name \in Clients /\ member[b].name # c
            BY <3>1, <5>1 DEF Names, Named
          <5> QED BY <3>1, <5>1, <5>2 DEF Names
        <4> QED BY <4>1, <4>2
      <3> QED BY <3>4, <3>5, <3>6, <3>7
    <2> QED BY <2>1, <2>2, <2>3, NameSteps
  <1>3. \A b \in Blocks : members'.next[b] \in Named \cup {Null}
    <2>1. CASE HeapStays
      BY <2>1 DEF HeapStays, Names
    <2>2. ASSUME NEW c \in Clients, Accept(c), NEW b \in Blocks
          PROVE  members'.next[b] \in Named \cup {Null}
      BY <2>2 DEF Accept, Names, Typed, Lists
    <2>3. ASSUME NEW c \in Clients, LinkMember(c), NEW b \in Blocks
          PROVE  members'.next[b] \in Named \cup {Null}
      BY <1>1, <2>3 DEF LinkMember, LinkToList, Names, Typed, Lists
    <2>4. ASSUME NEW c \in Clients, UnlinkMember(c), NEW b \in Blocks
          PROVE  members'.next[b] \in Named \cup {Null}
      <3>1. client[c] \in Blocks
        BY <2>4 DEF UnlinkMember, OwnBlocks, Has, Stays, Typed
      <3> QED BY <2>4, <3>1 DEF UnlinkMember, DislinkFromList, Names, Typed, Lists
    <2> QED BY <2>1, <2>2, <2>3, <2>4, HeapSteps
  <1>4. ASSUME NEW c \in Clients, pc'[c] \in {"exit", "count", "recount"} PROVE temp'[c] # Null
    <2>1. CASE EndOfChat(c) \/ ExitTell(c)
      BY <1>4, <2>1, ChatAssumption DEF EndOfChat, ExitTell, Goto, Typed, Threads
    <2>2. CASE Name(c) \/ Counting(c)
      BY <1>4, <2>2, ChatAssumption DEF Name, Counting, CountMember, CountAgain, Goto, Typed,
                                        Threads
    <2>3. CASE Rests(c)
      BY <1>4, <2>3 DEF Rests, Names
    <2> QED BY <1>4, <2>1, <2>2, <2>3, ExitSteps, CountSteps
  <1>5. ASSUME NEW t \in Threads PROVE temp'[t] \in Named \cup {Null}
    <2>1. ASSUME temp[t] # Null PROVE members.next[temp[t]] \in Named \cup {Null}
      BY <2>1 DEF Names, Typed
    <2>2. ASSUME t \in Clients, pc[t] \in {"exit", "count", "recount"} PROVE temp[t] # Null
      BY <2>2 DEF Names
    <2> QED BY <1>1, <2>1, <2>2, TempStep DEF Names
  <1> QED BY <1>2, <1>3, <1>4, <1>5 DEF Names

-----------------------------------------------------------------------------
(* Sockets and the mutex.                                                  *)

\* Who closes a descriptor has left for good.
LEMMA LeftStays ==
  ASSUME Typed, [Next]_vars, NEW c \in Clients, pc[c] \in {"unlink", "gone"}
  PROVE  pc'[c] \in {"unlink", "gone"}
  <1>1. StepOf(c) => UnlinkMember(c)
    BY DEF StepOf, Accept, Name, Counting, CountMember, CountAgain, ListMembers, SelectGroup,
        LoginLock, LoginTell, LoginToldAll,
           LinkMember, Usage, EndOfChat, ExitTell, Close, UnlinkMember
  <1>2. UnlinkMember(c) => pc'[c] = "gone"
    BY DEF UnlinkMember, Goto, Typed
  <1> QED BY <1>1, <1>2, OwnSteps DEF Rests

LEMMA StillHas ==
  ASSUME Typed, [Next]_vars, NEW c \in Clients, Has(c)', pc'[c] # "unlink"
  PROVE  Accept(c) \/ (Has(c) /\ pc[c] # "unlink" /\ client'[c] = client[c] /\ ~Close(c))
  <1>1. pc[c] \notin {"unlink", "gone"}
    BY LeftStays DEF Has, Joins, Stays
  <1>2. pc[c] = "out" => Accept(c)
    <2>1. Rests(c) => pc[c] # "out"
      BY DEF Rests, Has, Joins, Stays
    <2>2. pc[c] = "out" /\ StepOf(c) => Accept(c)
      BY DEF StepOf, Name, Counting, CountMember, CountAgain, ListMembers, SelectGroup, LoginLock,
          LoginTell, LoginToldAll,
             LinkMember, Usage, EndOfChat, ExitTell, Close, UnlinkMember
    <2> QED BY <2>1, <2>2, OwnSteps
  <1>3. ~Close(c)
    BY DEF Close, Goto, Typed
  <1>4. ~Accept(c) => client'[c] = client[c]
    <2>1. StepOf(c) /\ ~Accept(c) => client'[c] = client[c]
      BY DEF StepOf, Name, Counting, CountMember, CountAgain, ListMembers, SelectGroup, LoginLock,
          LoginTell, LoginToldAll,
             LinkMember, Usage, EndOfChat, ExitTell, Close, UnlinkMember, Die, receivers
    <2> QED BY <2>1, OwnSteps DEF Rests
  <1> QED BY <1>1, <1>2, <1>3, <1>4 DEF Has, Joins, Stays, Typed, Places

LEMMA SocketSteps ==
  ASSUME [Next]_vars
  PROVE  socket' = socket \/ \E c \in Clients : Accept(c) \/ Close(c)
  <1> USE DEF net, Die
  <1>1. ASSUME NEW c \in Clients, LoggingIn(c) \/ Broadcasting(c) \/ Joining(c)
        PROVE  socket' = socket
    BY <1>1 DEF LoggingIn, PromptFails, Name, CountFails, Counting, CountMember, CountAgain,
                ListMembers, SelectGroup, Broadcasting, LoginLock,
                LoginTell, LoginToldAll, ExitTell, BroadcastFails, Joining, LinkMember, Usage
  <1>2. ASSUME NEW c \in Clients, Bye(c) \/ Leave(c) \/ Say(c) \/ EndOfChat(c) \/ UnlinkMember(c)
        PROVE  socket' = socket
    BY <1>2 DEF Bye, Leave, Say, EndOfChat, UnlinkMember
  <1>3. SenderStep => socket' = socket
    BY DEF SenderStep, SenderLock, SenderPick, SenderTell, SenderFails, SenderNext
  <1>4. UNCHANGED vars => socket' = socket
    BY DEF vars
  <1> QED BY <1>1, <1>2, <1>3, <1>4 DEF Next, Leaving, ReceiverStep

LEMMA SocketsStep ==
  ASSUME Typed, OwnBlocks, Sockets, [Next]_vars
  PROVE  Sockets'
  <1> SUFFICES ASSUME NEW d \in Clients, Has(d)', pc'[d] # "unlink"
               PROVE  /\ member'[client'[d]].fd \in Fds
                      /\ socket'[member'[client'[d]].fd] = d
    BY DEF Sockets
  <1>1. CASE Accept(d)
    <2>1. PICK f \in Fds, b \in Blocks : /\ socket' = [socket EXCEPT ![f] = d]
                                         /\ member' = [member EXCEPT ![b].fd = f]
                                         /\ client' = [client EXCEPT ![d] = b]
      BY <1>1 DEF Accept
    <2>2. client'[d] = b /\ socket'[f] = d
      BY <2>1 DEF Typed
    <2>3. member'[b].fd = f
      BY <2>1 DEF Typed, Records
    <2> QED BY <2>2, <2>3
  <1>2. CASE ~Accept(d)
    <2>1. Has(d) /\ pc[d] # "unlink" /\ client'[d] = client[d] /\ ~Close(d)
      BY <1>2, StillHas
    <2> PICK b \in Blocks : b = client[d]
      BY <2>1 DEF OwnBlocks, Typed
    <2> PICK f \in Fds : f = member[b].fd
      BY <2>1 DEF Sockets
    <2>2. socket[f] = d /\ b \in allocated
      BY <2>1 DEF Sockets, OwnBlocks
    <2>3. member'[b].fd = f
      <3>1. ASSUME NEW c \in Clients, Accept(c) PROVE member'[b].fd = f
        <4>1. PICK g \in Fds, a \in Blocks \ allocated : member' = [member EXCEPT ![a].fd = g]
          BY <3>1 DEF Accept
        <4> QED BY <2>2, <4>1 DEF Typed
      <3>2. ASSUME NEW c \in Clients, Name(c) PROVE member'[b].fd = f
        <4>1. member' = [member EXCEPT ![client[c]].name = c]
          BY <3>2 DEF Name
        <4> QED BY <4>1 DEF Typed, Records
      <3> QED BY <3>1, <3>2, NameSteps DEF NamesStay
    <2>4. socket'[f] = d
      <3>1. ASSUME NEW c \in Clients, Accept(c) PROVE socket'[f] = d
        <4>1. PICK g \in Fds : socket' = [socket EXCEPT ![g] = c] /\ socket[g] = NoOne
          BY <3>1 DEF Accept
        <4> QED BY <2>2, <4>1, ChatAssumption DEF Typed
      <3>2. ASSUME NEW c \in Clients, Close(c) PROVE socket'[f] = d
        <4>1. c # d /\ socket' = [socket EXCEPT ![member[client[c]].fd] = NoOne]
          BY <2>1, <3>2 DEF Close
        <4>2. member[client[c]].fd \in Fds /\ socket[member[client[c]].fd] = c
          BY <3>2 DEF Close, Sockets, Has, Stays
        <4> QED BY <2>2, <4>1, <4>2 DEF Typed
      <3> QED BY <2>2, <3>1, <3>2, SocketSteps
    <2> QED BY <2>1, <2>3, <2>4
  <1> QED BY <1>1, <1>2

\* The mutex is taken and released where the code locks and unlocks it.
LEMMA MutexSteps ==
  ASSUME Typed, [Next]_vars
  PROVE  \/ /\ memberMutex' = memberMutex
            /\ sender' = "tell" <=> sender = "tell"
            /\ \A c \in Clients : pc'[c] = "tell" <=> pc[c] = "tell"
            /\ i' = i
         \/ SenderPick \/ SenderTell
         \/ \E c \in Clients : LoginLock(c) \/ LoginTell(c) \/ LoginToldAll(c)
  <1> DEFINE Same == /\ memberMutex' = memberMutex
                     /\ sender' = "tell" <=> sender = "tell"
                     /\ \A c \in Clients : pc'[c] = "tell" <=> pc[c] = "tell"
                     /\ i' = i
  <1> USE DEF receivers, queue
  <1>1. ASSUME NEW how, Die(how) PROVE Same
    BY <1>1 DEF Die
  <1>2. ASSUME NEW c \in Clients, NEW p, NEW q, pc[c] = p, Goto(c, q), p # "tell", q # "tell"
        PROVE  \A d \in Clients : pc'[d] = "tell" <=> pc[d] = "tell"
    BY <1>2 DEF Goto, Typed
  <1>3. ASSUME NEW c \in Clients, Accept(c) \/ Name(c) \/ Counting(c) \/ ListMembers(c)
        \/ SelectGroup(c)
        PROVE  Same
    BY <1>1, <1>2, <1>3 DEF Accept, Name, Counting, CountMember, CountAgain, ListMembers,
                            SelectGroup
  <1>4. ASSUME NEW c \in Clients, LinkMember(c) \/ Usage(c) \/ EndOfChat(c) \/ Close(c)
        \/ UnlinkMember(c)
        PROVE  Same
    BY <1>1, <1>2, <1>4 DEF LinkMember, Usage, EndOfChat, Close, UnlinkMember
  <1>5. ASSUME NEW c \in Clients, ExitTell(c) PROVE Same
    BY <1>2, <1>5 DEF ExitTell
  <1>6. ASSUME NEW c \in Clients, \/ PromptFails(c) \/ CountFails(c) \/ BroadcastFails(c)
                                  \/ Bye(c) \/ Leave(c) \/ Say(c)
        PROVE  Same
    BY <1>1, <1>6 DEF PromptFails, CountFails, BroadcastFails, Bye, Leave, Say
  <1>7. SenderLock \/ SenderFails \/ SenderNext => Same
    BY <1>1 DEF SenderLock, SenderFails, SenderNext
  <1>8. UNCHANGED vars => Same
    BY DEF vars
  <1> QED BY <1>3, <1>4, <1>5, <1>6, <1>7, <1>8
          DEF Next, LoggingIn, Counting, Broadcasting, Joining, Leaving, ReceiverStep, SenderStep

LEMMA MutexStep ==
  ASSUME Typed, Mutex, [Next]_vars
  PROVE  Mutex'
  <1> USE ChatAssumption DEF Mutex, Typed
  <1>1. CASE /\ memberMutex' = memberMutex
             /\ sender' = "tell" <=> sender = "tell"
             /\ \A c \in Clients : pc'[c] = "tell" <=> pc[c] = "tell"
             /\ i' = i
    BY <1>1
  <1>2. CASE SenderPick
    BY <1>2 DEF SenderPick, Die, receivers, queue
  <1>3. CASE SenderTell
    BY <1>3 DEF SenderTell, receivers
  <1>4. ASSUME NEW c \in Clients, LoginLock(c) PROVE Mutex'
    BY <1>4 DEF LoginLock, Goto, queue
  <1>5. ASSUME NEW c \in Clients, LoginToldAll(c) PROVE Mutex'
    <2>1. /\ pc[c] = "tell" /\ memberMutex' = NoOne /\ sender' = sender
          /\ \A d \in Clients : pc'[d] = IF d = c THEN "link" ELSE pc[d]
          /\ \A d \in Clients : i'[d] = IF d = c THEN 0 ELSE i[d]
      BY <1>5 DEF LoginToldAll, Goto, queue
    <2> QED BY <2>1
  <1>6. ASSUME NEW c \in Clients, LoginTell(c) PROVE Mutex'
    BY <1>6 DEF LoginTell, Goto, queue
  <1> QED BY <1>1, <1>2, <1>3, <1>4, <1>5, <1>6, MutexSteps

\* From the end of the list, or from a member to the next.
LEMMA FromSteps ==
  ASSUME Typed, NEW s \in Seq(Blocks), MembersAre(s)
  PROVE  /\ From(s, Null) = {} /\ From(s, members.first) = Linked
         /\ members.first \in Linked \cup {Null}
         /\ IsFiniteSet(Linked)
         /\ \A b \in Linked : /\ From(s, b) = {b} \cup From(s, members.next[b])
                              /\ b \notin From(s, members.next[b])
                              /\ members.next[b] \in Linked \cup {Null}
                              /\ From(s, b) \subseteq Linked
  <1>1. ListIs(members, s) /\ Nodes(s) = Linked
    BY DEF MembersAre
  <1>2. \A j, h \in 1..Len(s) : s[j] = s[h] => j = h
    BY <1>1 DEF ListIs
  <1>3. IsFiniteSet(Linked)
    BY <1>1, <1>2, NodesOnce
  <1>4. ASSUME NEW b \in Nodes(s)
        PROVE  /\ From(s, b) = {b} \cup From(s, members.next[b])
               /\ b \notin From(s, members.next[b])
               /\ members.next[b] \in Nodes(s) \cup {Null}
               /\ From(s, b) \subseteq Nodes(s)
    BY <1>1, FromNext, ChatAssumption
  <1> QED BY <1>1, <1>3, <1>4, FromFirst, ChatAssumption

-----------------------------------------------------------------------------
(* Who leaves, and what fails only then.                                   *)

\* A client that has left stays so.  Nobody leaves but in Bye and Leave.
LEMMA PeerSteps ==
  ASSUME Typed, Names, [Next]_vars
  PROVE  /\ \A d \in Clients : peer'[d] = "open" => peer[d] = "open"
         /\ bye \subseteq bye'
  <1> USE DEF net, Typed
  <1>1. ASSUME UNCHANGED <<peer, bye>>
        PROVE  (\A d \in Clients : peer'[d] = "open" => peer[d] = "open") /\ bye' = bye
    BY <1>1
  <1>2. ASSUME NEW c \in Clients, Prompt(c)
        PROVE  \A d \in Clients : peer'[d] = "open" => peer[d] = "open"
    BY <1>2 DEF Prompt
  <1>3. ASSUME NEW t \in Threads, temp[t] # Null, SendBy(t, temp[t])
        PROVE  \A d \in Clients : peer'[d] = "open" => peer[d] = "open"
    <2>1. temp[t] \in Named
      BY <1>3 DEF Names
    <2> HIDE DEF Typed
    <2> QED BY <1>3, <2>1, SendTypes
  <1>4. ASSUME NEW c \in Clients, Bye(c) \/ Leave(c)
        PROVE  (\A d \in Clients : peer'[d] = "open" => peer[d] = "open") /\ bye \subseteq bye'
    BY <1>4 DEF Bye, Leave
  <1>5. ASSUME NEW c \in Clients, \/ PromptFails(c) \/ CountFails(c) \/ Counting(c)
                                  \/ ListMembers(c) \/ LoginLock(c) \/ LoginToldAll(c)
                                  \/ BroadcastFails(c) \/ LinkMember(c) \/ Accept(c) \/ Say(c)
                                  \/ EndOfChat(c) \/ Close(c) \/ UnlinkMember(c)
        PROVE  UNCHANGED <<peer, bye>>
    BY <1>5 DEF PromptFails, CountFails, Counting, CountMember, CountAgain, ListMembers, LoginLock,
                LoginToldAll, BroadcastFails, LinkMember, Accept,
                Say, EndOfChat, Close, UnlinkMember, Die
  <1>6. ASSUME NEW c \in Clients, Name(c) \/ SelectGroup(c)
        PROVE  (\A d \in Clients : peer'[d] = "open" => peer[d] = "open") /\ bye' = bye
    BY <1>2, <1>6 DEF Name, SelectGroup
  <1>7. ASSUME NEW c \in Clients, Usage(c)
        PROVE  (\A d \in Clients : peer'[d] = "open" => peer[d] = "open") /\ bye' = bye
    BY <1>2, <1>7 DEF Usage, Die
  <1>8. ASSUME NEW c \in Clients, LoginTell(c) \/ ExitTell(c)
        PROVE  (\A d \in Clients : peer'[d] = "open" => peer[d] = "open") /\ bye' = bye
    <2>1. c \in Threads /\ temp[c] # Null /\ SendBy(c, temp[c]) /\ bye' = bye
      BY <1>8 DEF LoginTell, ExitTell, Threads, Names
    <2> QED BY <1>3, <2>1
  <1>9. ASSUME SenderTell
        PROVE  (\A d \in Clients : peer'[d] = "open" => peer[d] = "open") /\ bye' = bye
    <2>1. Sender \in Threads
      BY DEF Threads
    <2> QED BY <1>3, <1>9, <2>1 DEF SenderTell
  <1>10. ASSUME SenderLock \/ SenderPick \/ SenderFails \/ SenderNext \/ UNCHANGED vars
         PROVE  UNCHANGED <<peer, bye>>
    BY <1>10 DEF SenderLock, SenderPick, SenderFails, SenderNext, Die, vars
  <1> HIDE DEF Typed
  <1> QED BY <1>1, <1>4, <1>5, <1>6, <1>7, <1>8, <1>9, <1>10
          DEF Next, LoggingIn, Counting, Broadcasting, Joining, Leaving, ReceiverStep, SenderStep

LEMMA LeavesStep ==
  ASSUME Typed, Names, NobodyLeaves, [Next]_vars
  PROVE  NobodyLeaves' /\ (NobodyLeft' => NobodyLeft)
  <1> SUFFICES ASSUME NobodyLeft' PROVE /\ NobodyLeft
                                        /\ \A c \in Clients : 
                                              pc'[c] \in {"out", "usage", "chat"} \cup Joins
    BY DEF NobodyLeaves
  <1>1. NobodyLeft
    BY PeerSteps DEF NobodyLeft
  <1>2. \A c \in Clients : pc[c] \in {"out", "usage", "chat"} \cup Joins
    BY <1>1 DEF NobodyLeaves
  <1>3. ASSUME NEW c \in Clients PROVE pc'[c] \in {"out", "usage", "chat"} \cup Joins
    <2>1. Rests(c) => pc'[c] = pc[c]
      BY DEF Rests
    <2>2. ~EndOfChat(c)
      BY <1>1, <1>2 DEF EndOfChat, NobodyLeft
    <2>3. ~ExitTell(c) /\ ~Close(c) /\ ~UnlinkMember(c)
      BY <1>2 DEF ExitTell, Close, UnlinkMember, Joins
    <2>4. Accept(c) \/ Name(c) \/ SelectGroup(c) \/ LoginLock(c) \/ LoginToldAll(c) \/ LinkMember(c)
            => pc'[c] \in {"usage"} \cup Joins
      BY DEF Accept, Name, SelectGroup, LoginLock, LoginToldAll, LinkMember, Goto, Typed, Joins
    <2>5. ListMembers(c) \/ LoginTell(c) \/ Usage(c) => pc'[c] \in {"chat", "usage"} \cup Joins
      BY DEF ListMembers, LoginTell, Usage, Goto, Die, receivers, Typed, Joins
    <2>6. Counting(c) => pc'[c] \in Joins
      BY DEF Counting, CountMember, CountAgain, Goto, Typed, Joins
    <2> QED BY <1>2, <2>1, <2>2, <2>3, <2>4, <2>5, <2>6, OwnSteps DEF StepOf
  <1> QED BY <1>1, <1>2, <1>3

\* While all are connected, send() to a member's own connection does not fail.
LEMMA OpenSends ==
  ASSUME Sockets, NobodyLeft, NEW c \in Clients, Has(c), pc[c] # "unlink"
  PROVE  ~SendFails(client[c]) /\ Reached(client[c]) = c
  BY ChatAssumption DEF Sockets, SendFails, Reached, NobodyLeft

LEMMA OpenLinked ==
  ASSUME Typed, OwnBlocks, Sockets, NobodyLeaves, NobodyLeft, NEW b \in Linked
  PROVE  ~SendFails(b) /\ b \in allocated
  <1>1. PICK c \in Clients : pc[c] \in Stays /\ client[c] = b
    BY DEF Linked, Stays
  <1>2. pc[c] # "unlink" /\ Has(c)
    BY <1>1 DEF NobodyLeaves, Joins, Has
  <1> QED BY <1>1, <1>2, OpenSends DEF OwnBlocks

\* Before anybody leaves, the members only become more.
LEMMA LinkedGrows ==
  ASSUME Typed, OwnBlocks, Names, NobodyLeaves, [Next]_vars, NobodyLeft'
  PROVE  Linked \subseteq Linked'
  <1>1. NobodyLeft
    BY LeavesStep
  <1>2. ASSUME NEW c \in Clients PROVE ~UnlinkMember(c)
    BY <1>1 DEF UnlinkMember, NobodyLeaves, Joins
  <1> QED BY <1>2, LinkedStep, HeapSteps

LEMMA CountWalkStep ==
  ASSUME Typed, OwnBlocks, Names, NobodyLeaves, CountWalk, [Next]_vars,
         NEW s \in Seq(Blocks), MembersAre(s)
  PROVE  CountWalk'
  <1> SUFFICES ASSUME NobodyLeft', NEW c \in Clients
               PROVE  /\ pc'[c] \in {"count", "recount"} => temp'[c] \in Linked
                      /\ pc'[c] \in {"recount", "list"} => Linked # {}
    BY LinkedGrows DEF CountWalk
  <1>1. /\ pc[c] \in {"count", "recount"} => temp[c] \in Linked
        /\ pc[c] \in {"recount", "list"} => Linked # {}
    BY LeavesStep DEF CountWalk
  <1>2. members.first \in Linked \cup {Null}
    BY FirstIsLinked
  <1>3. c \in Threads
    BY DEF Threads
  <1>4. CASE Rests(c)
    BY <1>1, <1>4 DEF Rests
  <1>5. CASE Name(c)
    BY <1>2, <1>3, <1>5 DEF Name, Goto, Typed
  <1>6. CASE CountAgain(c)
    BY <1>2, <1>3, <1>6 DEF CountAgain, Goto, Typed
  <1>7. CASE CountMember(c)
    <2>1. temp[c] \in Linked /\ temp'[c] = members.next[temp[c]]
      BY <1>1, <1>3, <1>7 DEF CountMember, Typed
    <2>2. members.next[temp[c]] \in Linked \cup {Null}
      BY <2>1, FromSteps
    <2>3. \/ members.next[temp[c]] # Null /\ pc'[c] = pc[c]
          \/ members.next[temp[c]] = Null /\ pc'[c] \in {"again", "list"}
      BY <1>7 DEF CountMember, Goto, Typed
    <2> QED BY <2>1, <2>2, <2>3
  <1> QED BY <1>4, <1>5, <1>6, <1>7, CountSteps DEF Counting

LEMMA NullStartStep ==
  ASSUME Typed, Mutex, NullStart, [Next]_vars
  PROVE  NullStart'
  <1> SUFFICES ASSUME NEW c \in Clients, pc'[c] = "tell", temp'[c] = Null PROVE i'[c] = 0
    BY DEF NullStart
  <1>1. c \in Threads
    BY DEF Threads
  <1>2. CASE Rests(c)
    BY <1>2 DEF Rests, NullStart
  <1>3. CASE LoginLock(c)
    BY <1>3 DEF LoginLock, Mutex
  <1>4. ~LoginTell(c)
    BY <1>1 DEF LoginTell, Goto, Typed
  <1>5. StepOf(c) => LoginLock(c) \/ LoginTell(c) \/ Rests(c)
    <2>1. ASSUME NEW q, Goto(c, q) PROVE q = "tell"
      BY <2>1 DEF Goto, Typed
    <2>2. ~Accept(c) /\ ~Name(c) /\ ~SelectGroup(c) /\ ~LoginToldAll(c)
      BY <2>1 DEF Accept, Name, SelectGroup, LoginToldAll
    <2>3. ~LinkMember(c) /\ ~Close(c) /\ ~UnlinkMember(c) /\ ~EndOfChat(c)
      BY <2>1 DEF LinkMember, Close, UnlinkMember, EndOfChat
    <2>4. ~ExitTell(c) /\ ~Counting(c)
      BY <2>1 DEF ExitTell, Counting, CountMember, CountAgain
    <2>5. ListMembers(c) \/ Usage(c) => Rests(c)
      BY <2>1 DEF ListMembers, Usage, Die, receivers, Rests
    <2> QED BY <2>2, <2>3, <2>4, <2>5 DEF StepOf
  <1> QED BY <1>2, <1>3, <1>4, <1>5, OwnSteps

\* The steps that end the process.
LEMMA DieSteps ==
  ASSUME Next, server' # "up"
  PROVE  /\ UNCHANGED <<heap, receivers, temp, owed, net, memberMutex, queue, misrouted>>
         /\ \/ \E c \in Clients : PromptFails(c) \/ CountFails(c) \/ BroadcastFails(c)
            \/ \E c \in Clients : pc[c] = "usage" /\ SendFails(client[c])
            \/ \E c \in Clients : pc[c] = "list" /\ members.first = Null
            \/ SenderFails
            \/ sender = "pick" /\ Newest.to = NoArgs /\ server' = "null"
  <1>1. ASSUME NEW c \in Clients, PromptFails(c) \/ CountFails(c) \/ BroadcastFails(c)
        PROVE  UNCHANGED <<heap, receivers, temp, owed, net, memberMutex, queue, misrouted>>
    BY <1>1 DEF PromptFails, CountFails, BroadcastFails, Die
  <1>2. ASSUME NEW c \in Clients, ListMembers(c)
        PROVE  /\ UNCHANGED <<heap, receivers, temp, owed, net, memberMutex, queue, misrouted>>
               /\ pc[c] = "list" /\ members.first = Null
    BY <1>2 DEF ListMembers, Die
  <1>3. ASSUME NEW c \in Clients, Usage(c)
        PROVE  /\ UNCHANGED <<heap, receivers, temp, owed, net, memberMutex, queue, misrouted>>
               /\ pc[c] = "usage" /\ SendFails(client[c])
    BY <1>3 DEF Usage, Die
  <1>4. ASSUME SenderPick
        PROVE  /\ UNCHANGED <<heap, receivers, temp, owed, net, memberMutex, queue, misrouted>>
               /\ sender = "pick" /\ Newest.to = NoArgs /\ server' = "null"
    BY <1>4 DEF SenderPick, Die
  <1>5. ASSUME SenderFails
        PROVE  UNCHANGED <<heap, receivers, temp, owed, net, memberMutex, queue, misrouted>>
    BY <1>5 DEF SenderFails, Die
  <1>6. ~SenderLock /\ ~SenderTell /\ ~SenderNext
    BY DEF SenderLock, SenderTell, SenderNext
  <1>7. ASSUME NEW c \in Clients, \/ Bye(c) \/ Leave(c) \/ Accept(c) \/ Say(c) \/ Leaving(c)
                                  \/ Name(c) \/ Counting(c) \/ SelectGroup(c) \/ LinkMember(c)
                                  \/ LoginLock(c) \/ LoginTell(c) \/ LoginToldAll(c) \/ ExitTell(c)
        PROVE  FALSE
    BY <1>7 DEF Bye, Leave, Accept, Say, Leaving, EndOfChat, Close, UnlinkMember, Name, Counting,
                CountMember, CountAgain, SelectGroup, LinkMember, LoginLock, LoginTell,
                LoginToldAll, ExitTell
  <1> QED BY <1>1, <1>2, <1>3, <1>4, <1>5, <1>6, <1>7
          DEF Next, LoggingIn, Counting, Broadcasting, Joining, ReceiverStep, SenderStep

LEMMA EndsStep ==
  ASSUME Typed, OwnBlocks, Names, Sockets, NobodyLeaves, CountWalk, NullStart,
         OnlyLeaversBreakIt, [Next]_vars,
         NEW s \in Seq(Blocks), MembersAre(s), SenderWalk(s), LoginWalk(s)
  PROVE  OnlyLeaversBreakIt'
  <1> SUFFICES ASSUME NobodyLeft', server' # "up"
               PROVE  /\ server' = "null"
                      /\ \/ \E c \in Clients : MetAtEmptyList(c)'
                         \/ sender' = "pick" /\ Newest'.to = NoArgs
    BY DEF OnlyLeaversBreakIt
  <1> USE DEF heap, receivers, queue
  <1>1. CASE UNCHANGED vars
    <2>1. NobodyLeft /\ server # "up"
      BY <1>1, LeavesStep DEF vars
    <2>2. Linked' = Linked /\ Newest' = Newest
      BY <1>1 DEF vars, Linked, Newest
    <2> QED BY <1>1, <2>1, <2>2 DEF OnlyLeaversBreakIt, MetAtEmptyList, vars
  <1>2. CASE Next
    <2>1. NobodyLeft
      BY LeavesStep
    <2>2. UNCHANGED <<heap, receivers, temp, owed, net, memberMutex, queue, misrouted>>
      BY <1>2, DieSteps
    <2>3. Linked' = Linked /\ Newest' = Newest
      BY <2>2 DEF Linked, Newest
    <2>4. ASSUME NEW c \in Clients
          PROVE  ~PromptFails(c) /\ ~(pc[c] = "usage" /\ SendFails(client[c]))
      BY <2>1, OpenSends DEF PromptFails, NobodyLeft, Has, Joins, Stays
    <2>5. ASSUME NEW c \in Clients PROVE ~CountFails(c)
      <3>1. pc[c] \in {"count", "recount"} => temp[c] \in Linked
        BY <2>1 DEF CountWalk
      <3> QED BY <2>1, <3>1, OpenLinked DEF CountFails
    <2>6. ASSUME NEW c \in Clients, pc[c] = "list", members.first = Null PROVE FALSE
      BY <2>1, <2>6, FromSteps DEF CountWalk
    <2>7. ~SenderFails
      BY <2>1, OpenLinked DEF SenderWalk, SenderFails
    <2>8. ASSUME NEW c \in Clients, BroadcastFails(c) PROVE server' = "null" /\ MetAtEmptyList(c)
      <3>1. pc[c] = "tell" /\ i[c] < Cardinality(Linked)
        BY <2>1, <2>8 DEF BroadcastFails, NobodyLeaves, Joins
      <3>2. /\ temp[c] \in Linked \cup {Null}
            /\ \A x \in owed[c] : \E b \in From(s, temp[c]) : member[b].name = x
        BY <2>1, <3>1 DEF LoginWalk
      <3>3. temp[c] \in Linked => ~SendFails(temp[c]) /\ temp[c] \in allocated
        BY <2>1, OpenLinked
      <3>4. temp[c] = Null /\ server' = "null"
        BY <2>8, <3>2, <3>3, ChatAssumption DEF BroadcastFails, Die
      <3>5. owed[c] = {}
        BY <3>2, <3>4, FromSteps
      <3>6. i[c] = 0
        BY <3>1, <3>4 DEF NullStart
      <3>7. Linked # {}
        <4>1. Cardinality({}) = 0
          BY FS_EmptySet
        <4>2. 0 < Cardinality(Linked)
          BY <3>1, <3>6
        <4> DEFINE n == Cardinality(Linked)
        <4>3. n # 0
          BY <4>2, SizeOfLinked
        <4> QED BY <4>1, <4>3
      <3> QED BY <3>1, <3>4, <3>5, <3>6, <3>7 DEF MetAtEmptyList
    <2>9. \/ \E c \in Clients : server' = "null" /\ MetAtEmptyList(c)
          \/ sender = "pick" /\ Newest.to = NoArgs /\ server' = "null"
      BY <1>2, <2>4, <2>5, <2>6, <2>7, <2>8, DieSteps
    <2>10. ASSUME NEW c \in Clients, MetAtEmptyList(c) PROVE MetAtEmptyList(c)'
      BY <2>2, <2>3, <2>10 DEF MetAtEmptyList
    <2> QED BY <2>2, <2>3, <2>9, <2>10
  <1> QED BY <1>1, <1>2

LEMMA WrongEarStep ==
  ASSUME Typed, Names, Sockets, WrongEarAfterClose, [Next]_vars
  PROVE  WrongEarAfterClose'
  <1>1. ASSUME misrouted' = misrouted PROVE WrongEarAfterClose'
    <2>1. \A m \in misrouted : m[1] \in Clients
      BY DEF Typed
    <2> QED BY <1>1, <2>1, LeftStays DEF WrongEarAfterClose
  <1>2. ASSUME NEW t \in Threads, temp[t] # Null, SendBy(t, temp[t]) PROVE WrongEarAfterClose'
    <2>1. temp[t] \in Named
      BY <1>2 DEF Names
    <2> PICK b \in Named : b = temp[t]
      BY <2>1
    <2>2. /\ Reached(b) \in Clients
          /\ misrouted' \subseteq misrouted \cup
               (IF member[b].name = Reached(b) THEN {} ELSE {<<member[b].name, Reached(b)>>})
      BY <1>2, SendTypes
    <2> PICK d \in Clients : d = member[b].name
      BY DEF Named
    <2>3. client[d] = b /\ pc[d] \notin {"out", "name"}
      BY DEF Names
    <2>4. d # Reached(b) => pc[d] \in {"unlink", "gone"}
      <3>1. Has(d) /\ pc[d] # "unlink" => Reached(b) = d
        BY <2>3 DEF Sockets, Reached
      <3>2. pc[d] \in Places
        BY DEF Typed
      <3> QED BY <2>3, <3>1, <3>2 DEF Has, Joins, Stays, Places
    <2>5. ASSUME NEW m \in misrouted' PROVE m[1] \in Clients /\ pc[m[1]] \in {"unlink", "gone"}
      <3>1. CASE m \in misrouted
        BY <3>1 DEF Typed, WrongEarAfterClose
      <3>2. CASE m \notin misrouted
        BY <2>2, <2>4, <3>2
      <3> QED BY <3>1, <3>2
    <2> QED BY <2>5, LeftStays DEF WrongEarAfterClose
  <1>3. ASSUME NEW c \in Clients, LoginTell(c) \/ ExitTell(c) PROVE WrongEarAfterClose'
    <2>1. c \in Threads /\ temp[c] # Null /\ SendBy(c, temp[c])
      BY <1>3 DEF LoginTell, ExitTell, Threads, Names
    <2> QED BY <1>2, <2>1
  <1>4. CASE SenderTell
    <2>1. Sender \in Threads
      BY DEF Threads
    <2> QED BY <1>1, <1>2, <1>4, <2>1 DEF SenderTell
  <1>5. ASSUME NEW c \in Clients, \/ Bye(c) \/ Leave(c) \/ Accept(c) \/ LoggingIn(c) \/ Say(c)
                                  \/ Joining(c)
                                  \/ Leaving(c) \/ LoginLock(c) \/ LoginToldAll(c)
                                  \/ BroadcastFails(c)
        PROVE  misrouted' = misrouted
    BY <1>5 DEF Bye, Leave, Accept, LoggingIn, PromptFails, Name, CountFails, Counting,
                CountMember, CountAgain, ListMembers, SelectGroup, Say, Joining,
                LinkMember, Usage, Leaving, EndOfChat, Close, UnlinkMember, LoginLock, LoginToldAll,
                BroadcastFails, Die
  <1>6. SenderLock \/ SenderPick \/ SenderFails \/ SenderNext \/ UNCHANGED vars
           => misrouted' = misrouted
    BY DEF SenderLock, SenderPick, SenderFails, SenderNext, Die, vars
  <1> QED BY <1>1, <1>3, <1>4, <1>5, <1>6 DEF Next, ReceiverStep, Broadcasting, SenderStep

-----------------------------------------------------------------------------
(* The list together with the walks along it.                              *)

LEMMA LinkedRecords ==
  ASSUME Typed, OwnBlocks, [Next]_vars, NEW b \in Linked
  PROVE  member'[b] = member[b] /\ b \in Blocks
  <1>1. b \in allocated /\ b \in Blocks
    BY DEF Linked, OwnBlocks, Has, Stays, Typed
  <1>2. ASSUME NEW c \in Clients, Accept(c) PROVE member'[b] = member[b]
    <2>1. PICK f \in Fds, a \in Blocks \ allocated : member' = [member EXCEPT ![a].fd = f]
      BY <1>2 DEF Accept
    <2> QED BY <1>1, <2>1 DEF Typed
  <1>3. ASSUME NEW c \in Clients, Name(c) PROVE member'[b] = member[b]
    <2>1. client[c] # b
      BY <1>3, NotLinked DEF Name, Joins
    <2> QED BY <1>1, <1>3, <2>1 DEF Name, Typed
  <1>4. ASSUME NEW c \in Clients, SelectGroup(c) PROVE member'[b] = member[b]
    <2>1. client[c] # b
      BY <1>4, NotLinked DEF SelectGroup, Joins
    <2>2. PICK g : member' = [member EXCEPT ![client[c]].group = g]
      BY <1>4 DEF SelectGroup
    <2> QED BY <1>1, <2>1, <2>2 DEF Typed
  <1> USE DEF heap, Die
  <1>5. ASSUME NEW c \in Clients, \/ PromptFails(c) \/ CountFails(c) \/ Counting(c)
                                  \/ ListMembers(c) \/ Broadcasting(c)
        PROVE  member' = member
    BY <1>5 DEF PromptFails, CountFails, Counting, CountMember, CountAgain, ListMembers,
                Broadcasting, LoginLock, LoginTell, LoginToldAll, ExitTell,
                BroadcastFails
  <1>6. ASSUME NEW c \in Clients, Bye(c) \/ Leave(c) \/ Say(c) \/ Joining(c) \/ Leaving(c)
        PROVE  member' = member
    BY <1>6 DEF Bye, Leave, Say, Joining, LinkMember, Usage, Leaving, EndOfChat, Close, UnlinkMember
  <1>7. SenderStep \/ UNCHANGED vars => member' = member
    BY DEF SenderStep, SenderLock, SenderPick, SenderTell, SenderFails, SenderNext, vars
  <1> QED BY <1>1, <1>2, <1>3, <1>4, <1>5, <1>6, <1>7 DEF Next, LoggingIn, Counting, ReceiverStep

\* The sender's place, pointer and debts change in its own steps, and the
\* messages do not while it is at work on them.
LEMMA SenderSteps ==
  ASSUME Typed, [Next]_vars
  PROVE  \/ /\ sender' = sender /\ temp'[Sender] = temp[Sender]
            /\ owed'[Sender] \subseteq owed[Sender]
            /\ sender # "idle" => messages' = messages
         \/ SenderLock \/ SenderPick \/ SenderTell \/ SenderNext
  <1> DEFINE Same == /\ sender' = sender /\ temp'[Sender] = temp[Sender]
                     /\ owed'[Sender] \subseteq owed[Sender]
                     /\ sender # "idle" => messages' = messages
  <1>1. Sender \in Threads /\ \A c \in Clients : c # Sender
    BY ChatAssumption DEF Threads
  <1> USE DEF queue
  <1>2. ASSUME NEW how, Die(how) PROVE Same
    BY <1>2 DEF Die
  <1>3. ASSUME NEW c \in Clients, LoggingIn(c) PROVE Same
    BY <1>1, <1>2, <1>3 DEF LoggingIn, PromptFails, Name, CountFails, Counting, CountMember,
                            CountAgain, ListMembers, SelectGroup, Typed
  <1>4. ASSUME NEW c \in Clients, LoginLock(c) \/ LoginToldAll(c) \/ BroadcastFails(c) PROVE Same
    BY <1>1, <1>2, <1>4 DEF LoginLock, LoginToldAll, BroadcastFails, Typed
  <1>5. ASSUME NEW c \in Clients, LoginTell(c) \/ ExitTell(c) PROVE Same
    BY <1>1, <1>5 DEF LoginTell, ExitTell, SendBy, Typed
  <1>6. ASSUME NEW c \in Clients, Joining(c) \/ Leaving(c) PROVE Same
    BY <1>1, <1>2, <1>6 DEF Joining, LinkMember, Usage, Leaving, EndOfChat, Close, UnlinkMember,
                            Typed
  <1>7. ASSUME NEW c \in Clients, Bye(c) \/ Leave(c) \/ Accept(c) \/ Say(c) PROVE Same
    BY <1>7 DEF Bye, Leave, Accept, Say
  <1>8. SenderFails \/ UNCHANGED vars => Same
    BY <1>2 DEF SenderFails, vars
  <1> QED BY <1>3, <1>4, <1>5, <1>6, <1>7, <1>8 DEF Next, Broadcasting, ReceiverStep, SenderStep

LEMMA SenderWalkStep ==
  ASSUME Typed, OwnBlocks, Names, NEW s \in Seq(Blocks), MembersAre(s), SenderWalk(s), [Next]_vars,
         Linked' = Linked
  PROVE  SenderWalk(s)'
  <1>0. Sender \in Threads
    BY DEF Threads
  <1>1. \A b \in Linked : member'[b] = member[b]
    BY LinkedRecords
  <1> SUFFICES ASSUME sender' = "tell"
               PROVE  /\ temp'[Sender] \in Linked \cup {Null}
                      /\ \A x \in owed'[Sender] : \E b \in From(s, temp'[Sender]) :
                            IsMeantFor(Newest, b)' /\ member'[b].name = x
    BY DEF SenderWalk
  <1>2. CASE /\ sender' = sender /\ temp'[Sender] = temp[Sender]
             /\ owed'[Sender] \subseteq owed[Sender]
             /\ sender # "idle" => messages' = messages
    <2>1. temp[Sender] \in Linked \cup {Null} /\ messages' = messages
      BY <1>2 DEF SenderWalk
    <2>2. From(s, temp[Sender]) \subseteq Linked
      BY <2>1, FromSteps
    <2>3. ASSUME NEW x \in owed'[Sender]
          PROVE  \E b \in From(s, temp'[Sender]) : IsMeantFor(Newest, b)' /\ member'[b].name = x
      <3>1. PICK b \in From(s, temp[Sender]) : IsMeantFor(Newest, b) /\ member[b].name = x
        BY <1>2, <2>3 DEF SenderWalk
      <3>2. member'[b] = member[b]
        BY <1>1, <2>2
      <3>3. IsMeantFor(Newest, b)' /\ member'[b].name = x
        BY <2>1, <3>1, <3>2 DEF IsMeantFor, Newest
      <3> QED BY <1>2, <3>3
    <2> QED BY <1>2, <2>1, <2>3
  <1>3. CASE SenderPick
    <2>1. /\ temp' = [temp EXCEPT ![Sender] = members.first] /\ messages' = messages
          /\ owed' = [owed EXCEPT ![Sender] = NamesIn({b \in Linked : IsMeantFor(Newest, b)})]
          /\ member' = member
      <3>1. Newest.to # NoArgs
        BY <1>3 DEF SenderPick, Die, queue
      <3> QED BY <1>3, <3>1 DEF SenderPick, heap
    <2>2. temp'[Sender] = members.first /\ From(s, temp'[Sender]) = Linked
      BY <1>0, <2>1, FromSteps DEF Typed
    <2>3. owed'[Sender] = NamesIn({b \in Linked : IsMeantFor(Newest, b)})
      BY <1>0, <2>1 DEF Typed
    <2>4. \A b \in Linked : IsMeantFor(Newest, b)' <=> IsMeantFor(Newest, b)
      BY <2>1 DEF IsMeantFor, Newest
    <2>5. \A x \in owed'[Sender] : \E b \in Linked : IsMeantFor(Newest, b)' /\ member'[b].name = x
      BY <2>1, <2>3, <2>4 DEF NamesIn
    <2>6. members.first \in Linked \cup {Null}
      BY FromSteps
    <2> QED BY <2>2, <2>5, <2>6
  <1>4. CASE SenderTell
    <2> PICK b \in Linked \cup {Null} : b = temp[Sender]
      BY <1>4 DEF SenderTell, SenderWalk
    <2>1. /\ sender = "tell" /\ b # Null /\ members.next[b] # Null
          /\ temp' = [temp EXCEPT ![Sender] = members.next[@]]
          /\ messages' = messages /\ member' = member
          /\ IF IsMeantFor(Newest, b) THEN SendBy(Sender, b) ELSE owed' = owed
      BY <1>4 DEF SenderTell, heap
    <2>2. temp'[Sender] = members.next[b] /\ members.next[b] \in Linked
          /\ From(s, b) = {b} \cup From(s, members.next[b])
      BY <1>0, <2>1, FromSteps DEF Typed
    <2>3. /\ owed'[Sender] \subseteq owed[Sender]
          /\ IsMeantFor(Newest, b) => member[b].name \notin owed'[Sender]
      <3>1. CASE IsMeantFor(Newest, b)
        <4>1. owed' = [owed EXCEPT ![Sender] = @ \ {member[b].name}]
          BY <2>1, <3>1 DEF SendBy
        <4> QED BY <1>0, <4>1 DEF Typed
      <3>2. CASE ~IsMeantFor(Newest, b)
        BY <2>1, <3>2
      <3> QED BY <3>1, <3>2
    <2>4. ASSUME NEW x \in owed'[Sender]
          PROVE  \E a \in From(s, temp'[Sender]) : IsMeantFor(Newest, a)' /\ member'[a].name = x
      <3>1. PICK a \in From(s, b) : IsMeantFor(Newest, a) /\ member[a].name = x
        BY <2>1, <2>3, <2>4 DEF SenderWalk
      <3>2. a # b
        BY <2>3, <2>4, <3>1
      <3>3. IsMeantFor(Newest, a)' /\ member'[a].name = x
        BY <2>1, <3>1 DEF IsMeantFor, Newest
      <3> QED BY <2>2, <3>1, <3>2, <3>3
    <2> QED BY <2>2, <2>4
  <1>5. ~SenderLock /\ ~SenderNext
    BY DEF SenderLock, SenderNext
  <1> QED BY <1>2, <1>3, <1>4, <1>5, SenderSteps

\* The sender stops when none that it owes is before it.
LEMMA EveryMatchStep ==
  ASSUME Typed, NEW s \in Seq(Blocks), MembersAre(s), SenderWalk(s), EveryMatchServed, [Next]_vars
  PROVE  EveryMatchServed'
  <1> SUFFICES ASSUME sender' = "next" PROVE owed'[Sender] = {}
    BY DEF EveryMatchServed
  <1>0. Sender \in Threads
    BY DEF Threads
  <1>1. CASE sender' = sender /\ owed'[Sender] \subseteq owed[Sender]
    BY <1>1 DEF EveryMatchServed
  <1>2. CASE SenderTell
    <2> PICK b \in Linked \cup {Null} : b = temp[Sender]
      BY <1>2 DEF SenderTell, SenderWalk
    <2>1. \A x \in owed[Sender] : \E a \in From(s, b) : IsMeantFor(Newest, a) /\ member[a].name = x
      BY <1>2 DEF SenderTell, SenderWalk
    <2>2. CASE b = Null
      <3>1. owed[Sender] = {}
        BY <2>1, <2>2, FromSteps
      <3> QED BY <1>2, <2>2, <3>1 DEF SenderTell
    <2>3. CASE b # Null
      <3>1. members.next[b] = Null /\ From(s, b) = {b}
        BY <1>2, <2>3, FromSteps DEF SenderTell
      <3>2. CASE IsMeantFor(Newest, b)
        <4>1. owed' = [owed EXCEPT ![Sender] = @ \ {member[b].name}]
          BY <1>2, <2>3, <3>2 DEF SenderTell, SendBy
        <4>2. owed'[Sender] = owed[Sender] \ {member[b].name}
          BY <1>0, <4>1 DEF Typed
        <4> QED BY <2>1, <3>1, <4>2
      <3>3. CASE ~IsMeantFor(Newest, b)
        <4>1. owed' = owed
          BY <1>2, <3>3 DEF SenderTell
        <4> QED BY <2>1, <3>1, <3>3, <4>1
      <3> QED BY <3>2, <3>3
    <2> QED BY <2>2, <2>3
  <1>3. CASE SenderLock \/ SenderPick \/ SenderNext
    <2>1. ~SenderLock /\ ~SenderNext
      BY DEF SenderLock, SenderNext
    <2>2. ~SenderPick
      BY DEF SenderPick, Die, queue
    <2> QED BY <1>3, <2>1, <2>2
  <1> QED BY <1>1, <1>2, <1>3, SenderSteps

\* A login broadcast, in a step that leaves the list as it is.
LEMMA LoginWalkStep ==
  ASSUME Typed, OwnBlocks, Names, Mutex, NobodyLeaves, [Next]_vars,
         NEW s \in Seq(Blocks), MembersAre(s), LoginWalk(s), Linked' = Linked
  PROVE  LoginWalk(s)'
  <1> DEFINE Goes(c) ==
        /\ pc'[c] \in {"notify", "tell"} =>
              /\ temp'[c] \in Linked \cup {Null}
              /\ \A x \in owed'[c] : \E b \in From(s, temp'[c]) : member'[b].name = x
              /\ i'[c] + Cardinality(From(s, temp'[c])) <= Cardinality(Linked)
        /\ pc'[c] = "link" => owed'[c] = {}
  <1> SUFFICES ASSUME NobodyLeft', NEW c \in Clients PROVE Goes(c)
    BY DEF LoginWalk
  <1>0. c \in Threads /\ NobodyLeft
    BY LeavesStep DEF Threads
  <1>1. \A b \in Linked : member'[b] = member[b]
    BY LinkedRecords
  <1>2. /\ pc[c] \in {"notify", "tell"} =>
              /\ temp[c] \in Linked \cup {Null}
              /\ \A x \in owed[c] : \E b \in From(s, temp[c]) : member[b].name = x
              /\ i[c] + Cardinality(From(s, temp[c])) <= Cardinality(Linked)
        /\ pc[c] = "link" => owed[c] = {}
    BY <1>0 DEF LoginWalk
  <1>3. \A b \in Linked \cup {Null} :
           From(s, b) \subseteq Linked /\ Cardinality(From(s, b)) \in Nat /\ IsFiniteSet(From(s, b))
    <2>1. \A b \in Linked \cup {Null} : From(s, b) \in SUBSET Linked
      BY FromSteps
    <2> QED BY <2>1, FromSteps, FS_Subset, FS_CardinalityType
  <1>4. ASSUME pc'[c] = pc[c], temp'[c] = temp[c], i'[c] = i[c], owed'[c] \subseteq owed[c]
        PROVE  Goes(c)
    BY <1>1, <1>2, <1>3, <1>4
  <1>5. CASE SelectGroup(c)
    <2>1. /\ pc[c] = "group" /\ pc'[c] = "notify" /\ temp'[c] = members.first /\ i' = i
          /\ owed'[c] = NamesIn(Linked)
      BY <1>0, <1>5 DEF SelectGroup, Goto, Typed
    <2>2. i[c] = 0 /\ Cardinality(Linked) \in Nat
      BY <2>1, SizeOfLinked DEF Mutex
    <2>3. From(s, members.first) = Linked /\ members.first \in Linked \cup {Null}
      BY FromSteps
    <2>4. \A x \in NamesIn(Linked) : \E b \in Linked : member'[b].name = x
      BY <1>1 DEF NamesIn
    <2> QED BY <2>1, <2>2, <2>3, <2>4
  <1>6. CASE LoginLock(c)
    <2>1. /\ pc[c] = "notify" /\ pc'[c] = "tell" /\ temp'[c] = temp[c] /\ i'[c] = i[c]
          /\ owed'[c] = owed[c]
      BY <1>6 DEF LoginLock, Goto, Typed
    <2>2. \A b \in From(s, temp[c]) : member'[b] = member[b]
      BY <1>1, <1>2, <1>3, <2>1
    <2> QED BY <1>2, <2>1, <2>2
  <1>7. CASE LoginTell(c)
    <2> PICK b \in Linked : b = temp[c]
      BY <1>2, <1>7 DEF LoginTell
    <2>1. /\ From(s, b) = {b} \cup From(s, members.next[b])
          /\ b \notin From(s, members.next[b])
          /\ members.next[b] \in Linked \cup {Null} /\ From(s, Null) = {}
      BY FromSteps
    <2>2. owed'[c] = owed[c] \ {member[b].name}
      BY <1>0, <1>7 DEF LoginTell, SendBy, Typed
    <2>3. /\ \A x \in owed[c] : \E a \in From(s, b) : member[a].name = x
          /\ i[c] + Cardinality(From(s, b)) <= Cardinality(Linked)
      BY <1>2, <1>7 DEF LoginTell
    <2>4. \A x \in owed'[c] : \E a \in From(s, members.next[b]) : member'[a].name = x
      <3> SUFFICES ASSUME NEW x \in owed'[c]
                   PROVE  \E a \in From(s, members.next[b]) : member'[a].name = x
        OBVIOUS
      <3>1. PICK a \in From(s, b) : member[a].name = x
        BY <2>2, <2>3
      <3>2. a # b /\ member'[a] = member[a]
        BY <1>1, <1>3, <2>2, <3>1
      <3> QED BY <2>1, <3>1, <3>2
    <2>5. CASE members.next[b] = Null
      <3>1. owed'[c] = {}
        BY <2>1, <2>4, <2>5
      <3>2. pc'[c] = "link"
        BY <1>7, <2>5 DEF LoginTell, Goto, Typed
      <3> QED BY <3>1, <3>2
    <2>6. CASE members.next[b] # Null
      <3>1. /\ temp'[c] = members.next[b] /\ pc'[c] = "tell" /\ i'[c] = i[c] + 1 /\ i[c] \in Nat
        BY <1>0, <1>7, <2>6, SizeOfLinked DEF LoginTell, Typed
      <3>2. Cardinality(From(s, b)) = Cardinality(From(s, members.next[b])) + 1
        <4> DEFINE F == From(s, members.next[b])
        <4>1. IsFiniteSet(F) /\ b \notin F /\ From(s, b) = F \cup {b}
          BY <1>3, <2>1
        <4> HIDE DEF F
        <4>2. Cardinality(F \cup {b}) = Cardinality(F) + 1
          BY <4>1, FS_AddElement
        <4> QED BY <4>1, <4>2 DEF F
      <3>3. i'[c] + Cardinality(From(s, members.next[b])) <= Cardinality(Linked)
        BY <1>3, <2>1, <2>3, <3>1, <3>2, SizeOfLinked
      <3> QED BY <2>1, <2>4, <3>1, <3>3
    <2> QED BY <2>5, <2>6
  <1>8. CASE LoginToldAll(c)
    <2>1. /\ pc[c] = "tell" /\ pc'[c] = "link" /\ owed' = owed
          /\ i[c] >= Cardinality(Linked) /\ i[c] \in Nat
      BY <1>8, SizeOfLinked DEF LoginToldAll, Goto, Typed
    <2> DEFINE F == From(s, temp[c])
    <2>2. IsFiniteSet(F) /\ Cardinality(F) \in Nat /\ i[c] + Cardinality(F) <= Cardinality(Linked)
      BY <1>2, <1>3, <2>1
    <2> HIDE DEF F
    <2>3. Cardinality(F) = 0
      BY <2>1, <2>2, SizeOfLinked
    <2>4. F = {}
      BY <2>2, <2>3, FS_EmptySet
    <2>5. owed[c] = {}
      BY <1>2, <2>1, <2>4 DEF F
    <2> QED BY <2>1, <2>5
  <1>9. CASE Accept(c) \/ Name(c) \/ Counting(c) \/ LinkMember(c) \/ EndOfChat(c) \/ Close(c)
        \/ UnlinkMember(c)
    <2>1. pc'[c] \notin {"notify", "tell", "link"}
      BY <1>9 DEF Accept, Name, Counting, CountMember, CountAgain, LinkMember, EndOfChat, Close,
                  UnlinkMember, Goto, Typed
    <2> QED BY <2>1
  <1>10. CASE ListMembers(c) \/ Usage(c) \/ ExitTell(c)
    <2>1. pc'[c] \notin {"notify", "tell", "link"}
      BY <1>10 DEF ListMembers, Usage, ExitTell, Goto, Typed, Die, receivers
    <2> QED BY <2>1
  <1> QED BY <1>4, <1>5, <1>6, <1>7, <1>8, <1>9, <1>10, OwnSteps DEF StepOf, Rests

\* A member linked by another thread enters behind the broadcast.
LEMMA LoginWalkLink ==
  ASSUME Typed, OwnBlocks, FreshFields, NobodyLeaves, Names, [Next]_vars,
         NEW s \in Seq(Blocks), MembersAre(s), LoginWalk(s),
         NEW d \in Clients, LinkMember(d), NEW n, n = client[d]
  PROVE  LoginWalk(<<n>> \o s)'
  <1> DEFINE r == <<n>> \o s
  <1>1. n \in Blocks \ Nodes(s) /\ Nodes(s) = Linked /\ r \in Seq(Blocks) /\ MembersAre(r)'
    <2>1. client' = client
      BY DEF LinkMember
    <2> QED BY <2>1, LinkMemberList DEF MembersAre
  <1>2. \A b \in Linked : From(r, b) = From(s, b)
    BY <1>1, FromPushed
  <1>3. From(r, Null) = {} /\ From(s, Null) = {}
    <2>1. ListIs(members', r)
      BY <1>1 DEF MembersAre
    <2> QED BY <1>1, <2>1, FromFirst, FromSteps, ChatAssumption
  <1> HIDE DEF r
  <1> SUFFICES ASSUME NobodyLeft', NEW c \in Clients
               PROVE  /\ pc'[c] \in {"notify", "tell"} =>
                            /\ temp'[c] \in Linked' \cup {Null}
                            /\ \A x \in owed'[c] : \E b \in From(r, temp'[c]) : member'[b].name = x
                            /\ i'[c] + Cardinality(From(r, temp'[c])) <= Cardinality(Linked')
                      /\ pc'[c] = "link" => owed'[c] = {}
    BY DEF LoginWalk, r
  <1>5. NobodyLeft
    BY LeavesStep
  <1>6. pc'[d] = "usage" /\ (d # c => Rests(c)) /\ member' = member
    BY ChatAssumption DEF LinkMember, Goto, Typed, Rests, Threads
  <1>7. Linked \subseteq Linked' /\ Cardinality(Linked) <= Cardinality(Linked')
        /\ Cardinality(Linked) \in Nat /\ Cardinality(Linked') \in Nat
    <2>1. Linked' = Linked \cup {n} /\ IsFiniteSet(Linked)
      BY <1>1, LinkedStep, FromSteps
    <2>2. IsFiniteSet(Linked')
      BY <2>1, FS_AddElement
    <2> QED BY <2>1, <2>2, FS_Subset, FS_CardinalityType
  <1>8. ASSUME c # d, pc[c] \in {"notify", "tell"}
        PROVE  /\ temp[c] \in Linked \cup {Null} /\ From(r, temp[c]) = From(s, temp[c])
               /\ \A x \in owed[c] : \E b \in From(r, temp[c]) : member[b].name = x
               /\ i[c] + Cardinality(From(r, temp[c])) <= Cardinality(Linked)
    <2>1. temp[c] \in Linked \cup {Null}
      BY <1>5, <1>8 DEF LoginWalk
    <2>2. From(r, temp[c]) = From(s, temp[c])
      BY <1>2, <1>3, <2>1
    <2> QED BY <1>5, <1>8, <2>1, <2>2 DEF LoginWalk
  <1>9. c # d /\ pc[c] \in {"notify", "tell"} =>
           i[c] + Cardinality(From(r, temp[c])) <= Cardinality(Linked')
    <2>1. c # d /\ pc[c] \in {"notify", "tell"} => 
             i[c] \in Nat /\ Cardinality(From(r, temp[c])) \in Nat
      <3>1. temp[c] \in Linked \cup {Null} => From(s, temp[c]) \in SUBSET Linked
        BY FromSteps
      <3> QED BY <1>8, <3>1, SizeOfLinked, FromSteps, FS_Subset, FS_CardinalityType DEF Typed
    <2> QED BY <1>7, <1>8, <2>1
  <1> QED BY <1>5, <1>6, <1>7, <1>8, <1>9 DEF Rests, LoginWalk

LEMMA Lists1Step ==
  ASSUME Typed, OwnBlocks, FreshFields, Names, Mutex, NobodyLeaves, Lists1, [Next]_vars
  PROVE  Lists1'
  <1> PICK s \in Seq(Blocks) : MembersAre(s) /\ SenderWalk(s) /\ LoginWalk(s)
    BY DEF Lists1
  <1>1. CASE HeapStays \/ \E c \in Clients : Accept(c)
    <2>1. Linked' = Linked
      BY <1>1, LinkedStep
    <2>2. MembersAre(s)'
      <3>1. HeapStays => MembersAre(s)'
        BY <2>1 DEF HeapStays, MembersAre
      <3> QED BY <1>1, <3>1, AcceptList
    <2> QED BY <2>1, <2>2, SenderWalkStep, LoginWalkStep DEF Lists1
  <1>2. ASSUME NEW c \in Clients, LinkMember(c) PROVE Lists1'
    <2> PICK n \in Blocks \cup {Null} : n = client[c]
      BY DEF Typed
    <2> DEFINE r == <<n>> \o s
    <2>1. r \in Seq(Blocks) /\ MembersAre(r)'
      <3>1. client' = client
        BY <1>2 DEF LinkMember
      <3> QED BY <1>2, <3>1, LinkMemberList
    <2>2. LoginWalk(r)'
      BY <1>2, LoginWalkLink
    <2>3. SenderWalk(r)'
      <3>1. sender' # "tell"
        BY <1>2, ChatAssumption DEF LinkMember, Mutex, queue
      <3> QED BY <3>1 DEF SenderWalk
    <2> HIDE DEF r
    <2> QED BY <2>1, <2>2, <2>3 DEF Lists1
  <1>3. ASSUME NEW c \in Clients, UnlinkMember(c) PROVE Lists1'
    <2>1. PICK k \in 1..Len(s) : RemoveAt(s, k) \in Seq(Blocks) /\ MembersAre(RemoveAt(s, k))'
      BY <1>3, UnlinkMemberList
    <2> DEFINE r == RemoveAt(s, k)
    <2>2. sender' # "tell"
      BY <1>3, ChatAssumption DEF UnlinkMember, Mutex, queue
    <2>3. ~NobodyLeft'
      BY <1>3, LeavesStep DEF UnlinkMember, NobodyLeaves, Joins
    <2>4. r \in Seq(Blocks) /\ MembersAre(r)'
      BY <2>1
    <2> HIDE DEF r
    <2> QED BY <2>2, <2>3, <2>4 DEF Lists1, SenderWalk, LoginWalk
  <1> QED BY <1>1, <1>2, <1>3, HeapSteps

-----------------------------------------------------------------------------
(* The exit broadcast.                                                     *)

LEMMA ReusedStays ==
  ASSUME Typed, OwnBlocks, [Next]_vars, NEW c \in Clients, Reused(c)
  PROVE  Reused(c)'
  <1>1. PICK d \in Clients \ {c}, e \in Clients \ {c} :
           d # e /\ pc[d] = "gone" /\ client[e] = client[d]
    BY DEF Reused
  <1>2. pc'[d] = "gone" /\ client'[d] = client[d]
    BY <1>1, GoneStays
  <1>3. pc[e] # "out"
    BY <1>1 DEF OwnBlocks
  <1>4. client'[e] = client[e]
    <2>1. StepOf(e) => client'[e] = client[e]
      BY <1>3 DEF StepOf, Accept, Name, Counting, CountMember, CountAgain, ListMembers,
                  SelectGroup, LoginLock, LoginTell, LoginToldAll,
             LinkMember, Usage, EndOfChat, ExitTell, Close, UnlinkMember, Die, receivers
    <2> QED BY <2>1, OwnSteps DEF Rests
  <1> QED BY <1>1, <1>2, <1>4 DEF Reused

LEMMA ListedStays ==
  ASSUME Typed, [Next]_vars
  PROVE  BeenListed \subseteq BeenListed'
  <1>1. ASSUME NEW c \in Clients, pc[c] \in Stays \cup {"gone"}
        PROVE  pc'[c] \in Stays \cup {"gone"} /\ client'[c] = client[c]
    <2>1. Accept(c) \/ Name(c) \/ Counting(c) \/ ListMembers(c) \/ SelectGroup(c)
          \/ LoginLock(c) \/ LoginTell(c)
            \/ LoginToldAll(c) \/ LinkMember(c) => FALSE
      BY <1>1 DEF Accept, Name, Counting, CountMember, CountAgain, ListMembers, SelectGroup,
                  LoginLock, LoginTell, LoginToldAll,
             LinkMember, Stays
    <2>2. EndOfChat(c) \/ Close(c) \/ UnlinkMember(c)
            => pc'[c] \in Stays \cup {"gone"} /\ client' = client
      BY DEF EndOfChat, Close, UnlinkMember, Goto, Typed, Stays
    <2>3. Usage(c) \/ ExitTell(c) => pc'[c] \in Stays \cup {"gone"} /\ client' = client
      BY DEF Usage, ExitTell, Goto, Typed, Stays, Die, receivers
    <2> QED BY <1>1, <2>1, <2>2, <2>3, OwnSteps DEF StepOf, Rests
  <1> QED BY <1>1 DEF BeenListed

\* Memory that was a member's and is that of a client logging in is reused.
LEMMA JoinedAgain ==
  ASSUME OwnBlocks, NEW c \in Clients, pc[c] \in Stays,
         NEW d \in Clients, pc[d] \in Joins, client[d] \in BeenListed
  PROVE  Reused(c)
  <1>1. PICK e \in Clients : pc[e] \in Stays \cup {"gone"} /\ client[e] = client[d]
    BY DEF BeenListed
  <1>2. pc[e] = "gone"
    BY <1>1 DEF OwnBlocks, Has, Joins, Stays
  <1> QED BY <1>1, <1>2 DEF Reused, Joins, Stays

\* A path, when another thread moves.
LEMMA PathStep ==
  ASSUME Typed, OwnBlocks, FreshFields, Names, NEW s \in Seq(Blocks), MembersAre(s), [Next]_vars,
         NEW c \in Clients, pc[c] = "exit", Rests(c),
         NEW w \in Seq(Blocks), ExitPath(c, w)
  PROVE  Reused(c)' \/ \E v \in Seq(Blocks) : ExitPath(c, v)'
  <1> SUFFICES ASSUME ~Reused(c)' PROVE \E v \in Seq(Blocks) : ExitPath(c, v)'
    OBVIOUS
  <1>1. ~Reused(c) /\ pc[c] \in Stays
    BY ReusedStays DEF Stays
  <1>2. /\ Path(members, w) /\ w # <<>> /\ w[1] = temp[c]
        /\ Nodes(w) \subseteq BeenListed
        /\ \A x \in owed[c] : \E b \in Nodes(w) : member[b].name = x
    BY DEF ExitPath
  <1>3. temp'[c] = temp[c] /\ owed'[c] \subseteq owed[c]
    BY DEF Rests
  <1>4. \A b \in Nodes(w) : b \in Blocks
    BY ElementOfSeq DEF Nodes
  <1>5. ASSUME NEW d \in Clients, pc[d] \in Joins PROVE client[d] \notin Nodes(w)
    BY <1>1, <1>2, <1>5, JoinedAgain
  <1>6. \A b \in Nodes(w) : member'[b].name = member[b].name
    <2>1. ASSUME NEW d \in Clients, Accept(d), NEW b \in Nodes(w)
          PROVE  member'[b].name = member[b].name
      <3>1. PICK f \in Fds, a \in Blocks : member' = [member EXCEPT ![a].fd = f]
        BY <2>1 DEF Accept
      <3> QED BY <1>4, <3>1 DEF Typed, Records
    <2>2. ASSUME NEW d \in Clients, Name(d), NEW b \in Nodes(w)
          PROVE  member'[b].name = member[b].name
      <3>1. client[d] # b /\ member' = [member EXCEPT ![client[d]].name = d]
        BY <1>5, <2>2 DEF Name, Joins
      <3> QED BY <1>4, <3>1 DEF Typed
    <2> QED BY <1>4, <2>1, <2>2, NameSteps DEF NamesStay
  <1>7. ASSUME \A b \in Nodes(w) : members'.next[b] = members.next[b]
        PROVE  ExitPath(c, w)'
    <2>1. Path(members', w)
      BY <1>2, <1>7, PathSame
    <2>2. Nodes(w) \subseteq BeenListed'
      BY <1>2, ListedStays
    <2> QED BY <1>2, <1>3, <1>6, <2>1, <2>2 DEF ExitPath
  <1>8. CASE HeapStays
    BY <1>7, <1>8 DEF HeapStays
  <1>9. ASSUME NEW d \in Clients, Accept(d) PROVE ExitPath(c, w)'
    <2>1. PICK a \in Blocks \ allocated :
             /\ members' = [members EXCEPT !.prev[a] = Null, !.next[a] = Null]
             /\ client' = [client EXCEPT ![d] = a]
      BY <1>9 DEF Accept
    <2>2. ASSUME a \in Nodes(w) PROVE FALSE
      <3>1. PICK e \in Clients : pc[e] \in Stays \cup {"gone"} /\ client[e] = a
        BY <1>2, <2>2 DEF BeenListed
      <3>2. pc[e] = "gone" /\ pc[d] = "out"
        BY <1>9, <3>1, <2>1 DEF OwnBlocks, Has, Accept
      <3>3. pc'[e] = "gone" /\ client'[e] = a /\ client'[d] = a
        BY <2>1, <3>1, <3>2, GoneStays DEF Typed
      <3> QED BY <1>1, <3>2, <3>3 DEF Reused, Stays
    <2> QED BY <1>4, <1>7, <2>1, <2>2 DEF Typed, Lists
  <1>10. ASSUME NEW d \in Clients, LinkMember(d) PROVE ExitPath(c, w)'
    <2>1. client[d] \notin Nodes(w)
      BY <1>5, <1>10 DEF LinkMember, Joins
    <2>2. \A b \in Blocks \ {client[d]} : members'.next[b] = members.next[b]
      BY <1>10, LinkMemberList
    <2> QED BY <1>4, <1>7, <2>1, <2>2
  <1>11. ASSUME NEW d \in Clients, UnlinkMember(d) PROVE \E v \in Seq(Blocks) : ExitPath(c, v)'
    <2>1. PICK k \in 1..Len(s) : client[d] = s[k] /\ members' = DislinkFromList(members, s[k])
      BY <1>11, UnlinkMemberList
    <2>2. ListIs(members, s) /\ members \in Lists(Blocks)
      BY DEF MembersAre, Typed
    <2>3. PICK v \in Seq(Blocks) : /\ Path(DislinkFromList(members, s[k]), v)
                                   /\ v # <<>> /\ v[1] = w[1]
                                   /\ Nodes(v) \subseteq Nodes(w)
                                   /\ Nodes(w) \ {s[k]} \subseteq Nodes(v)
      BY <1>2, <2>2, PathDislink, ChatAssumption
    <2>4. member[s[k]].name = d /\ d \notin owed'[c]
      <3>1. Has(d) /\ pc[d] # "name" /\ owed' = [t \in Threads |-> owed[t] \ {d}] /\ c \in Threads
        BY <1>11 DEF UnlinkMember, Has, Stays, Threads
      <3> QED BY <2>1, <3>1 DEF Names
    <2>5. ASSUME NEW x \in owed'[c] PROVE \E b \in Nodes(v) : member'[b].name = x
      <3>1. PICK b \in Nodes(w) : member[b].name = x
        BY <1>2, <1>3, <2>5
      <3>2. b # s[k]
        BY <2>4, <2>5, <3>1
      <3> QED BY <1>6, <2>3, <3>1, <3>2
    <2>6. Nodes(v) \subseteq BeenListed'
      BY <1>2, <2>3, ListedStays
    <2>7. ExitPath(c, v)'
      BY <1>2, <1>3, <2>1, <2>3, <2>5, <2>6 DEF ExitPath
    <2> QED BY <2>7
  <1> QED BY <1>8, <1>9, <1>10, <1>11, <1>7, HeapSteps DEF HeapStays

LEMMA ExitWalkStep ==
  ASSUME Typed, OwnBlocks, FreshFields, Names, NEW s \in Seq(Blocks), MembersAre(s), ExitWalk,
      [Next]_vars
  PROVE  ExitWalk'
  <1> SUFFICES ASSUME NEW c \in Clients, ~Reused(c)'
               PROVE  /\ pc'[c] = "exit" => \E w \in Seq(Blocks) : ExitPath(c, w)'
                      /\ pc'[c] = "close" => owed'[c] = {}
    BY DEF ExitWalk
  <1>0. c \in Threads /\ ~Reused(c)
    BY ReusedStays DEF Threads
  <1>1. CASE Rests(c)
    <2>1. pc'[c] = "exit" => \E w \in Seq(Blocks) : ExitPath(c, w)'
      BY <1>0, <1>1, PathStep DEF Rests, ExitWalk
    <2> QED BY <1>0, <1>1, <2>1 DEF Rests, ExitWalk
  <1>2. CASE EndOfChat(c)
    <2>1. /\ pc[c] = "chat" /\ temp'[c] = members.first /\ owed'[c] = NamesIn(Linked)
          /\ members' = members /\ member' = member
          /\ pc'[c] = IF members.first = Null THEN "close" ELSE "exit"
      BY <1>0, <1>2 DEF EndOfChat, Goto, Typed, heap
    <2>2. client[c] \in Nodes(s) /\ Nodes(s) = Linked
      BY <2>1 DEF Linked, MembersAre
    <2>3. Path(members, s) /\ s # <<>> /\ s[1] = members.first /\ s[1] \in Blocks
      <3>1. 1 \in 1..Len(s) /\ s # <<>>
        BY <2>2, EmptySeq, LenProperties DEF Nodes
      <3> QED BY <3>1, ElementOfSeq DEF MembersAre, ListIs, Path
    <2>4. Nodes(s) \subseteq BeenListed'
      <3>1. Linked \subseteq BeenListed
        BY DEF Linked, BeenListed, Stays
      <3> QED BY <2>2, <3>1, ListedStays
    <2>5. ExitPath(c, s)'
      BY <2>1, <2>2, <2>3, <2>4 DEF ExitPath, NamesIn
    <2> QED BY <2>1, <2>3, <2>5, ChatAssumption
  <1>3. CASE ExitTell(c)
    <2>1. PICK w \in Seq(Blocks) : ExitPath(c, w)
      BY <1>0, <1>3 DEF ExitTell, ExitWalk
    <2> DEFINE t == Tail(w)
    <2>2. w # <<>> /\ w[1] = temp[c] /\ Path(members, w)
      BY <2>1 DEF ExitPath
    <2>3. /\ t \in Seq(Blocks) /\ Path(members, t)
          /\ Nodes(w) = {w[1]} \cup Nodes(t)
          /\ IF t = <<>> THEN members.next[w[1]] = Null
             ELSE members.next[w[1]] = t[1] /\ t[1] \in Blocks
      BY <2>2, PathTail, ChatAssumption
    <2> HIDE DEF t
    <2>4. /\ members' = members /\ member' = member
          /\ owed'[c] = owed[c] \ {member[w[1]].name}
          /\ IF t = <<>> THEN pc'[c] = "close" ELSE pc'[c] = "exit" /\ temp'[c] = t[1]
      BY <1>0, <1>3, <2>2, <2>3, ChatAssumption DEF ExitTell, SendBy, Goto, Typed, heap
    <2>5. ASSUME NEW x \in owed'[c] PROVE \E b \in Nodes(t) : member'[b].name = x
      <3>1. PICK b \in Nodes(w) : member[b].name = x
        BY <2>1, <2>4, <2>5 DEF ExitPath
      <3> QED BY <2>3, <2>4, <2>5, <3>1
    <2>6. t = <<>> => owed'[c] = {}
      <3>1. t = <<>> => Nodes(t) = {}
        BY <2>3, EmptySeq DEF Nodes
      <3> QED BY <2>5, <3>1
    <2>7. t # <<>> => ExitPath(c, t)'
      <3>1. Nodes(t) \subseteq BeenListed'
        BY <2>1, <2>3, ListedStays DEF ExitPath
      <3> QED BY <2>3, <2>4, <2>5, <3>1 DEF ExitPath
    <2> QED BY <2>3, <2>4, <2>6, <2>7
  <1> QED BY <1>1, <1>2, <1>3, ExitSteps

-----------------------------------------------------------------------------
(* The queue.                                                              *)

(* What the steps of every thread besides these leave alone.               *)
LEMMA QueueSteps ==
  ASSUME [Next]_vars
  PROVE  \/ UNCHANGED queue
         \/ SenderLock \/ SenderPick \/ SenderTell \/ SenderNext
         \/ \E c \in Clients : Say(c)
  <1> USE DEF queue
  <1>1. ASSUME NEW how, Die(how) PROVE UNCHANGED queue
    BY <1>1 DEF Die
  <1>2. ASSUME NEW c \in Clients, LoggingIn(c) PROVE UNCHANGED queue
    <2>1. CASE PromptFails(c) \/ CountFails(c) \/ Counting(c) \/ ListMembers(c)
      BY <1>1, <2>1 DEF PromptFails, CountFails, Counting, CountMember, CountAgain, ListMembers
    <2>2. CASE Name(c) \/ SelectGroup(c)
      BY <2>2 DEF Name, SelectGroup
    <2> QED BY <1>2, <2>1, <2>2 DEF LoggingIn, Counting
  <1>3. ASSUME NEW c \in Clients, Broadcasting(c) PROVE UNCHANGED queue
    <2>1. CASE LoginLock(c) \/ LoginTell(c) \/ LoginToldAll(c) \/ ExitTell(c)
      BY <2>1 DEF LoginLock, LoginTell, LoginToldAll, ExitTell
    <2>2. CASE BroadcastFails(c)
      BY <1>1, <2>2 DEF BroadcastFails
    <2> QED BY <1>3, <2>1, <2>2 DEF Broadcasting
  <1>4. ASSUME NEW c \in Clients, Joining(c) \/ Leaving(c) PROVE UNCHANGED queue
    <2>1. CASE LinkMember(c) \/ EndOfChat(c) \/ Close(c) \/ UnlinkMember(c)
      BY <2>1 DEF LinkMember, EndOfChat, Close, UnlinkMember
    <2>2. CASE Usage(c)
      BY <1>1, <2>2 DEF Usage
    <2> QED BY <1>4, <2>1, <2>2 DEF Joining, Leaving
  <1>5. ASSUME NEW c \in Clients, Bye(c) \/ Leave(c) \/ Accept(c) PROVE UNCHANGED queue
    BY <1>5 DEF Bye, Leave, Accept
  <1>6. ASSUME SenderFails PROVE UNCHANGED queue
    BY <1>1, <1>6 DEF SenderFails
  <1>7. CASE UNCHANGED vars
    BY <1>7 DEF vars
  <1> QED BY <1>2, <1>3, <1>4, <1>5, <1>6, <1>7 DEF Next, SenderStep, ReceiverStep

LEMMA RoundsStep ==
  ASSUME Typed, Rounds, [Next]_vars PROVE Rounds'
  <1>1. Len(messages) \in Nat /\ round \in Nat /\ messages \in Seq(Line) /\ carried \in Seq(Line)
    BY ChatAssumption DEF Typed
  <1>2. CASE UNCHANGED queue
    BY <1>2 DEF queue, Rounds
  <1>3. CASE SenderLock
    BY <1>1, <1>3, EmptySeq DEF SenderLock, Rounds
  <1>4. CASE SenderPick
    <2>1. \/ UNCHANGED queue
          \/ /\ sender' = "tell" /\ sender = "pick" /\ UNCHANGED <<messages, round>>
             /\ carried' = Append(carried, Newest)
      BY <1>4 DEF SenderPick, Die, queue
    <2>2. Len(Append(carried, Newest)) = Len(carried) + 1
      BY <1>1
    <2> QED BY <1>2, <2>1, <2>2 DEF Rounds
  <1>5. CASE SenderTell
    <2>1. sender = "tell" /\ sender' \in {"tell", "next"} /\ UNCHANGED <<messages, round, carried>>
      BY <1>5 DEF SenderTell
    <2> QED BY <2>1 DEF Rounds
  <1>6. CASE SenderNext
    BY <1>6 DEF SenderNext, Rounds
  <1>7. ASSUME NEW c \in Clients, Say(c) PROVE Rounds'
    BY <1>7 DEF Say, Rounds
  <1> QED BY <1>2, <1>3, <1>4, <1>5, <1>6, <1>7, QueueSteps

-----------------------------------------------------------------------------
(* The invariant is inductive.                                             *)

LEMMA InitIInv == Init => IInv
  <1> SUFFICES ASSUME Init PROVE IInv
    OBVIOUS
  <1> USE ChatAssumption
  <1>1. /\ \A c \in Clients : pc[c] = "out" /\ client[c] = Null /\ i[c] = 0 /\ peer[c] = "open"
        /\ \A t \in Threads : temp[t] = Null
        /\ \A b \in Blocks : member[b].name = NoOne
        /\ sender = "idle" /\ memberMutex = NoOne /\ bye = {} /\ server = "up" /\ misrouted = {}
        /\ members = EmptyList(Blocks)
    BY DEF Init
  <1>2. Linked = {} /\ Named = {}
    BY <1>1 DEF Linked, Named
  <1>3. Typed
    <2>1. Cardinality(Clients) \in Nat /\ members \in Lists(Blocks)
      BY <1>1, FS_CardinalityType DEF EmptyList, Lists
    <2>2. member \in [Blocks -> Records]
      BY DEF Init, Records
    <2>3. /\ allocated \in SUBSET Blocks /\ client \in [Clients -> Blocks \cup {Null}]
          /\ pc \in [Clients -> Places] /\ temp \in [Threads -> Blocks \cup {Null}]
          /\ owed \in [Threads -> SUBSET Clients]
      BY DEF Init, Places
    <2>4. i \in [Clients -> 0..Cardinality(Clients)]
      BY <2>1 DEF Init
    <2>5. /\ socket \in [Fds -> Clients \cup {NoOne}]
          /\ peer \in [Clients -> {"open", "closed", "reset"}] /\ bye \in SUBSET Clients
          /\ memberMutex \in Threads \cup {NoOne}
      BY DEF Init
    <2>6. /\ messages \in Seq(Line) /\ Len(messages) <= said /\ said \in 0..MaxSaid
          /\ carried \in Seq(Line)
      BY DEF Init
    <2> QED BY <1>1, <2>1, <2>2, <2>3, <2>4, <2>5, <2>6 DEF Typed, Init, Endings
  <1>4. OwnBlocks /\ FreshFields /\ Names /\ Sockets
    BY <1>1, <1>2 DEF OwnBlocks, FreshFields, Names, Sockets, Has, Joins, Stays, EmptyList
  <1>5. Mutex /\ Rounds /\ NobodyLeaves /\ ExitWalk /\ CountWalk /\ NullStart
    BY <1>1 DEF Init, Mutex, Rounds, NobodyLeaves, ExitWalk, CountWalk, NullStart
  <1>7. OnlyLeaversBreakIt /\ WrongEarAfterClose /\ EveryMatchServed
    BY <1>1 DEF OnlyLeaversBreakIt, WrongEarAfterClose, EveryMatchServed
  <1>6. Lists1
    <2>1. <<>> \in Seq(Blocks) /\ Len(<<>>) = 0
      OBVIOUS
    <2>2. Nodes(<<>>) = {} /\ ListIs(members, <<>>)
      BY <1>1, <2>1 DEF Nodes, ListIs, EmptyList
    <2> QED BY <1>1, <1>2, <2>1, <2>2 DEF Lists1, MembersAre, SenderWalk, LoginWalk
  <1> QED BY <1>3, <1>4, <1>5, <1>6, <1>7 DEF IInv

LEMMA StepIInv == IInv /\ [Next]_vars => IInv'
  <1> SUFFICES ASSUME IInv, [Next]_vars PROVE IInv'
    OBVIOUS
  <1> USE DEF IInv
  <1>1. PICK s \in Seq(Blocks) : MembersAre(s) /\ SenderWalk(s) /\ LoginWalk(s)
    BY DEF Lists1
  <1>2. Typed' /\ OwnBlocks'
    BY TypesStep, BlocksStep
  <1>3. FreshFields' /\ Names' /\ Sockets' /\ Mutex' /\ Rounds'
    BY <1>1, FreshStep, NamesStep, SocketsStep, MutexStep, RoundsStep
  <1>4. Lists1' /\ ExitWalk'
    BY <1>1, Lists1Step, ExitWalkStep
  <1>5. NobodyLeaves' /\ CountWalk' /\ NullStart'
    BY <1>1, LeavesStep, CountWalkStep, NullStartStep
  <1>6. OnlyLeaversBreakIt' /\ WrongEarAfterClose' /\ EveryMatchServed'
    BY <1>1, EndsStep, WrongEarStep, EveryMatchStep
  <1> QED BY <1>2, <1>3, <1>4, <1>5, <1>6

LEMMA IInvHolds == Spec => []IInv
  BY InitIInv, StepIInv, PTL DEF Spec

-----------------------------------------------------------------------------
(* What follows, for any number of clients, blocks and messages.           *)

(* Every variable of the server keeps its type.                            *)
THEOREM TypesHold == Spec => []TypeOK
  <1>1. IInv => TypeOK
    BY TypedIsTypeOK DEF IInv
  <1> QED BY <1>1, IInvHolds, PTL

(* Whatever the threads do in whatever order, the list has exactly the     *)
(* members between MemberLinkToList and MemberDislinkFromList, linked both *)
(* ways, and none of them freed.                                           *)
THEOREM ListIsOfMembers == Spec => []ListOfMembers
  <1>1. ASSUME IInv PROVE ListOfMembers
    <2>1. PICK s \in Seq(Blocks) : MembersAre(s)
      BY <1>1 DEF IInv, Lists1
    <2>2. ListIs(members, s) /\ Nodes(s) = Linked
      BY <2>1 DEF MembersAre
    <2>3. \A j, h \in 1..Len(s) : s[j] = s[h] => j = h
      BY <2>2 DEF ListIs
    <2>4. s \in SetToSeqs(Linked)
      BY <2>2, <2>3, NodesOnce
    <2>5. Linked \subseteq allocated
      BY <1>1 DEF IInv, OwnBlocks, Linked, Has, Stays
    <2> QED BY <2>2, <2>4, <2>5 DEF ListOfMembers
  <1> QED BY <1>1, IInvHolds, PTL

(* The sender, which walks under the mutex, stands on no member that has   *)
(* left the list.                                                          *)
THEOREM SenderStays == Spec => []SenderStaysOnList
  <1>1. IInv => SenderStaysOnList
    BY DEF IInv, Lists1, SenderWalk, SenderStaysOnList
  <1> QED BY <1>1, IInvHolds, PTL

(* The sender passes over no member its message is meant for.              *)
THEOREM MatchesServed == Spec => []EveryMatchServed
  <1>1. IInv => EveryMatchServed
    BY DEF IInv
  <1> QED BY <1>1, IInvHolds, PTL

(* A line reaches another client than the one meant only after that one's  *)
(* thread has closed the descriptor.                                       *)
THEOREM WrongEarClosed == Spec => []WrongEarAfterClose
  <1>1. IInv => WrongEarAfterClose
    BY DEF IInv
  <1> QED BY <1>1, IInvHolds, PTL

(* Until somebody types Bye or closes, the process ends in two ways only:  *)
(* a login broadcast of one who met another at an empty list, or a /W      *)
(* without a name.  The unlocked walks touch nothing freed, and what they  *)
(* counted is there when it is listed.                                     *)
THEOREM LeaversBreak == Spec => []OnlyLeaversBreakIt
  <1>1. IInv => OnlyLeaversBreakIt
    BY DEF IInv
  <1> QED BY <1>1, IInvHolds, PTL

(* Until somebody types Bye or closes, a login broadcast that began at a   *)
(* pointer read before the mutex was taken reaches all who were listed.    *)
THEOREM LoginIsHeard == Spec => []LoginHeard
  <1>1. ASSUME IInv PROVE LoginHeard
    BY <1>1 DEF IInv, Lists1, LoginWalk, LoginHeard
  <1> QED BY <1>1, IInvHolds, PTL

(* An exit broadcast, which takes no mutex, reaches all who stay listed,   *)
(* unless malloc has given a left member's memory to a new client.         *)
THEOREM ExitIsHeard == Spec => []ExitHeardUnlessReused
  <1>1. ASSUME IInv PROVE ExitHeardUnlessReused
    BY <1>1 DEF IInv, ExitWalk, Reused, ExitHeardUnlessReused
  <1> QED BY <1>1, IInvHolds, PTL
-----------------------------------------------------------------------------
(* The queue is that of MessageQueue.                                      *)

LEMMA QueueInit == Init => Abstract!Init
  BY DEF Init, Abstract!Init

LEMMA QueueStep ==
  ASSUME Typed, OwnBlocks, Rounds, [Next]_vars
  PROVE  [Abstract!Next]_(Abstract!vars)
  <1> USE DEF Abstract!vars
  <1>1. Len(messages) \in Nat /\ round \in Nat /\ messages \in Seq(Line) /\ carried \in Seq(Line)
    BY ChatAssumption DEF Typed
  <1>2. CASE UNCHANGED queue
    BY <1>2 DEF queue
  <1>3. CASE SenderLock
    <2>1. Abstract!BeginPass
      BY <1>3 DEF SenderLock, Abstract!BeginPass
    <2> QED BY <2>1 DEF Abstract!Next
  <1>4. CASE SenderPick
    <2>1. CASE UNCHANGED queue
      BY <1>2, <2>1
    <2>2. CASE ~UNCHANGED queue
      <3>1. /\ sender = "pick" /\ sender' = "tell" /\ messages' = messages
            /\ carried' = Append(carried, Head(messages))
        BY <1>4, <2>2 DEF SenderPick, Die, queue, Newest
      <3>2. Len(carried) < Len(messages)
        BY <3>1 DEF Rounds
      <3>3. Abstract!Send
        BY <3>1, <3>2 DEF Abstract!Send
      <3> QED BY <3>3 DEF Abstract!Next
    <2> QED BY <2>1, <2>2
  <1>5. CASE SenderTell
    BY <1>5 DEF SenderTell
  <1>6. CASE SenderNext
    <2>1. sender = "next" /\ Len(carried) = round + 1 /\ round < Len(messages)
      BY <1>6 DEF SenderNext, Rounds
    <2>2. CASE round + 1 < Len(messages)
      BY <1>6, <2>1, <2>2 DEF SenderNext
    <2>3. CASE ~(round + 1 < Len(messages))
      <3>1. sender' = "idle" /\ messages' = <<>> /\ carried' = <<>>
        BY <1>6, <2>3 DEF SenderNext
      <3>2. Len(carried) = Len(messages)
        BY <1>1, <2>1, <2>3
      <3>3. Abstract!EndPass
        BY <2>1, <3>1, <3>2 DEF Abstract!EndPass
      <3> QED BY <3>3 DEF Abstract!Next
    <2> QED BY <2>2, <2>3
  <1>7. ASSUME NEW c \in Clients, Say(c) PROVE Abstract!Next
    <2>1. PICK m \in Line : messages' = <<m>> \o messages
      <3>1. PICK to \in Says :
               messages' = <<[group |-> member[client[c]].group, to |-> to]>> \o messages
        BY <1>7 DEF Say
      <3>2. member[client[c]].group \in Groups \cup {NoGroup}
        <4>1. client[c] \in Blocks
          BY <1>7 DEF Say, Typed, OwnBlocks, Has, Stays
        <4>2. member[client[c]] \in Records
          BY <4>1 DEF Typed
        <4> QED BY <4>2 DEF Records
      <3> QED BY <3>1, <3>2 DEF Line
    <2>2. sender = "idle" /\ UNCHANGED <<sender, carried>>
      BY <1>7 DEF Say
    <2>3. Abstract!Put(m)
      BY <2>1, <2>2 DEF Abstract!Put
    <2> QED BY <2>1, <2>3 DEF Abstract!Next, Line
  <1> QED BY <1>2, <1>3, <1>4, <1>5, <1>6, <1>7, QueueSteps

(* For any number of clients, members and messages: the lines queued under *)
(* message_mutex and the sender's rounds, cut into the steps of its walks  *)
(* along a member list that others change in between, are the abstract     *)
(* queue: nothing enters during a pass, and a pass sends as often as       *)
(* messages were waiting, the newest of them every time.                   *)
THEOREM QueueImplemented == Spec => QueueServed
  <1>1. IInv => Typed /\ OwnBlocks /\ Rounds
    BY DEF IInv
  <1>2. Typed /\ OwnBlocks /\ Rounds /\ [Next]_vars => [Abstract!Next]_(Abstract!vars)
    BY QueueStep
  <1>3. Spec => Abstract!Init /\ [][Abstract!Next]_(Abstract!vars)
    BY <1>1, <1>2, QueueInit, IInvHolds, PTL DEF Spec
  <1> QED BY <1>3 DEF QueueServed, Abstract!Spec
-----------------------------------------------------------------------------
(* What LeaversGo rests on: member_mutex is released.                      *)

(* A thread that holds member_mutex is on its walk, and waits for no lock: *)
(* a receiver there does not queue a message, and the sender, which has    *)
(* message_mutex besides, has both it needs.                               *)
HolderWalks ==
  /\ memberMutex = Sender => sender = "tell"
  /\ \A c \in Clients : memberMutex = c => pc[c] = "tell"

(* The sender stands on the node that j steps along next lead to.          *)
AtNode(j) == j \in 0..Cardinality(Linked) /\ temp[Sender] = NodeAt(members, j)

(* It is led on by its own steps, and kept where it is by all others.      *)
WalkGoesOn ==
  sender = "tell" /\ sender' = "tell" =>
     \E j \in Nat : AtNode(j) /\ IF SenderTell THEN (AtNode(j + 1))' ELSE (AtNode(j))'

(* Nobody waits for a lock while it holds member_mutex, for any number of  *)
(* clients: receivers and sender cannot block each other in a circle.      *)
THEOREM NoCircle == Spec => []HolderWalks
  <1>1. ASSUME IInv PROVE HolderWalks
    BY <1>1 DEF IInv, Mutex, HolderWalks
  <1> QED BY <1>1, IInvHolds, PTL

LEMMA StaysListed ==
  ASSUME IInv, [Next]_vars, NEW s \in Seq(Blocks), MembersAre(s), memberMutex = Sender
  PROVE  MembersAre(s)' /\ Linked' = Linked
  <1>1. Typed /\ OwnBlocks
    BY DEF IInv
  <1>2. CASE HeapStays \/ \E c \in Clients : Accept(c)
    <2>1. Linked' = Linked
      BY <1>1, <1>2, LinkedStep
    <2>2. HeapStays => MembersAre(s)'
      BY <2>1 DEF HeapStays, MembersAre
    <2> QED BY <1>1, <1>2, <2>1, <2>2, AcceptList
  <1>3. ASSUME NEW c \in Clients, LinkMember(c) \/ UnlinkMember(c) PROVE FALSE
    BY <1>3, ChatAssumption DEF LinkMember, UnlinkMember
  <1> QED BY <1>1, <1>2, <1>3, HeapSteps

LEMMA WalkStep == IInv /\ [Next]_vars => WalkGoesOn
  <1> SUFFICES ASSUME IInv, [Next]_vars, sender = "tell", sender' = "tell"
               PROVE  \E j \in Nat :
                         AtNode(j) /\ IF SenderTell THEN (AtNode(j + 1))' ELSE (AtNode(j))'
    BY DEF WalkGoesOn
  <1>1. Typed /\ memberMutex = Sender /\ Sender \in Threads
    BY DEF IInv, Mutex, Threads
  <1>2. PICK s \in Seq(Blocks) : MembersAre(s) /\ SenderWalk(s)
    BY DEF IInv, Lists1
  <1>3. MembersAre(s)' /\ Linked' = Linked
    BY <1>1, <1>2, StaysListed
  <1>4. /\ ListIs(members, s) /\ ListIs(members', s) /\ Nodes(s) = Linked
        /\ Len(s) \in Nat /\ Cardinality(Linked) = Len(s)
    <2>1. ListIs(members, s) /\ ListIs(members', s) /\ Nodes(s) = Linked
      BY <1>2, <1>3 DEF MembersAre
    <2>2. \A i_, j \in 1..Len(s) : s[i_] = s[j] => i_ = j
      BY <2>1 DEF ListIs
    <2> QED BY <2>1, <2>2, NodesOnce
  <1>5. ASSUME NEW j \in Nat
        PROVE  /\ NodeAt(members, j) = IF j < Len(s) THEN s[j + 1] ELSE Null
               /\ NodeAt(members', j) = IF j < Len(s) THEN s[j + 1] ELSE Null
    BY <1>4, WalkOfList, ChatAssumption
  <1>6. PICK j \in 0..Len(s) : temp[Sender] = IF j < Len(s) THEN s[j + 1] ELSE Null
    <2>1. temp[Sender] \in Nodes(s) \cup {Null}
      BY <1>2, <1>4 DEF SenderWalk
    <2>2. CASE temp[Sender] = Null
      BY <1>4, <2>2
    <2>3. CASE temp[Sender] \in Nodes(s)
      <3>1. PICK h \in 1..Len(s) : temp[Sender] = s[h]
        BY <2>3 DEF Nodes
      <3>2. h - 1 \in 0..Len(s) /\ h - 1 < Len(s) /\ (h - 1) + 1 = h
        BY <1>4
      <3> QED BY <3>1, <3>2
    <2> QED BY <2>1, <2>2, <2>3
  <1>7. j \in Nat /\ AtNode(j)
    BY <1>4, <1>5, <1>6 DEF AtNode
  <1>8. CASE SenderTell
    <2>1. temp[Sender] # Null /\ members.next[temp[Sender]] # Null
      BY <1>8 DEF SenderTell
    <2>2. temp'[Sender] = members.next[temp[Sender]]
      BY <1>1, <1>8, <2>1 DEF SenderTell, Typed
    <2>3. j < Len(s) /\ j + 1 \in 1..Len(s) /\ temp[Sender] = s[j + 1]
      BY <1>4, <1>6, <2>1
    <2>4. members.next[s[j + 1]] = IF j + 1 < Len(s) THEN s[(j + 1) + 1] ELSE Null
      BY <1>4, <2>3 DEF ListIs
    <2>5. j + 1 < Len(s) /\ temp'[Sender] = s[(j + 1) + 1]
      BY <2>1, <2>2, <2>3, <2>4
    <2>6. AtNode(j + 1)'
      BY <1>3, <1>4, <1>5, <1>7, <2>3, <2>5 DEF AtNode
    <2> QED BY <1>7, <1>8, <2>6
  <1>9. CASE ~SenderTell
    <2>1. temp'[Sender] = temp[Sender]
      <3>1. ~SenderLock /\ ~SenderNext
        BY DEF SenderLock, SenderNext
      <3>2. SenderPick => temp' = temp
        BY DEF SenderPick, Die
      <3> QED BY <1>1, <1>9, <3>1, <3>2, SenderSteps
    <2>2. AtNode(j)'
      BY <1>3, <1>4, <1>5, <1>6, <1>7, <2>1 DEF AtNode
    <2> QED BY <1>7, <1>9, <2>2
  <1> QED BY <1>8, <1>9

(* For any number of members: while the sender holds the mutex, each of    *)
(* its steps leads one node further along a list that no other thread can  *)
(* change, so its walk has as many steps as there are members at the most. *)
THEOREM SenderAdvances == Spec => [][WalkGoesOn]_vars
  BY IInvHolds, WalkStep, PTL DEF Spec

=============================================================================

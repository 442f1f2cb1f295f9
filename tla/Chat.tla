-------------------------------- MODULE Chat --------------------------------
(***************************************************************************)
(* The HW3 chat server: the accept loop, one receiver thread for each      *)
(* client (log in, chat, leave), the sender thread, the member list they   *)
(* share, its mutex, and the sockets.  The message queue is a sequence     *)
(* here; module ChatQueue has its memory.  A step of a thread is what it   *)
(* does between two points where another thread can be seen, and a walk    *)
(* along the member list takes one step for each member.                   *)
(***************************************************************************)
EXTENDS LinkedList, FiniteSets, SequencesExt

CONSTANTS Clients,     \* who connects, each once; also the nicknames
          Groups,
          NoGroup,     \* the empty line that recv() of 0 leaves as a group
          Blocks,      \* the memory malloc has for Member records
          NoOne,       \* a socket not open, a mutex not held
          Sender,      \* the thread send_to_client
          Local,       \* a message without /W
          NoArgs,      \* a line "/W " without a name
          MaxSaid      \* bound: messages typed in a behaviour

ASSUME ChatAssumption ==
  /\ Null \notin Blocks
  /\ IsFiniteSet(Clients) /\ IsFiniteSet(Blocks)
  /\ NoOne \notin Clients /\ Sender \notin Clients /\ NoOne # Sender
  /\ NoGroup \notin Groups
  /\ {Local, NoArgs} \cap (Groups \cup Clients) = {} /\ Local # NoArgs
  /\ MaxSaid \in Nat

VARIABLES
  members,       \* MemberListFirst and the prev and next of every block
  member,        \* fd, name and group in every block
  allocated,     \* blocks given out by malloc and not freed
  client,        \* the block of each receiver thread
  pc,            \* where each receiver thread is
  temp,          \* the pointer each thread walks the list with
  i,             \* rounds of the login broadcast
  owed,          \* history: listed since a broadcast began and not yet sent to
  socket,        \* the connection behind each file descriptor
  peer,          \* the client's end: "open", "closed", or "reset" it answers
  bye,           \* the clients that typed Bye before they left
  memberMutex,   \* member_mutex: who holds it
  messages,      \* the queue, newest first
  said,          \* messages typed so far
  carried,       \* history: what each send of the sender's pass carried
  sender, round, \* where the sender is, and its k
  misrouted,     \* history: <<member meant, connection reached>>
  server         \* "up", or what ended the process

receivers == <<client, pc, i>>
heap  == <<members, member, allocated>>
net   == <<socket, peer, bye>>
queue == <<messages, said, carried, sender, round>>
vars  == <<heap, receivers, temp, owed, net, memberMutex, queue, misrouted, server>>

Threads  == Clients \cup {Sender}
Fds      == 1..Cardinality(Clients)
Says     == {Local, NoArgs} \cup Groups \cup Clients
Endings  == {"up", "send", "recv", "null", "freed"}
Places   == {"out", "name", "count", "again", "recount", "list", "nolist", "group",
             "notify", "tell", "link", "usage", "chat", "exit", "close", "unlink", "gone"}

(* The members between MemberLinkToList and MemberDislinkToList.           *)
Linked == {client[c] : c \in {d \in Clients :
             pc[d] \in {"usage", "chat", "exit", "close", "unlink"}}}

NamesIn(S) == {member[b].name : b \in S}

Init ==
  /\ members = EmptyList(Blocks)
  /\ member = [b \in Blocks |-> [fd |-> 0, name |-> NoOne, group |-> NoGroup]]
  /\ allocated = {}
  /\ client = [c \in Clients |-> Null]
  /\ pc = [c \in Clients |-> "out"]
  /\ temp = [t \in Threads |-> Null]
  /\ i = [c \in Clients |-> 0]
  /\ owed = [t \in Threads |-> {}]
  /\ socket = [f \in Fds |-> NoOne]
  /\ peer = [c \in Clients |-> "open"]
  /\ bye = {}
  /\ memberMutex = NoOne
  /\ messages = <<>>
  /\ said = 0
  /\ carried = <<>>
  /\ sender = "idle"
  /\ round = 0
  /\ misrouted = {}
  /\ server = "up"

Goto(c, place) == pc' = [pc EXCEPT ![c] = place]

(* The process ends: DIE, a signal, or an access through a bad pointer.    *)
Die(how) ==
  /\ server' = how
  /\ UNCHANGED <<heap, receivers, temp, owed, net, memberMutex, queue, misrouted>>

-----------------------------------------------------------------------------
(* send() on the descriptor in block b.  It fails on a descriptor that is  *)
(* closed and on a connection whose client has answered with a reset; on a *)
(* connection the client closed it succeeds, and the reset is the answer.  *)

Reached(b)   == IF member[b].fd \in Fds THEN socket[member[b].fd] ELSE NoOne
SendFails(b) == Reached(b) # NoOne => peer[Reached(b)] = "reset"

SendBy(t, b) ==
  LET x == Reached(b)
  IN /\ ~SendFails(b)
     /\ peer' = [peer EXCEPT ![x] = IF @ = "open" THEN "open" ELSE "reset"]
     /\ owed' = [owed EXCEPT ![t] = @ \ {member[b].name}]
     /\ misrouted' = misrouted \cup (IF member[b].name = x THEN {}
                                     ELSE {<<member[b].name, x>>})

(* The first message of the queue, and the members it is meant for: those  *)
(* of the sender's group, or those that have the name or the group after   *)
(* /W.                                                                     *)
Newest == Head(messages)

IsMeantFor(m, b) ==
  IF m.to = Local THEN member[b].group = m.group
                  ELSE m.to \in {member[b].group, member[b].name}

-----------------------------------------------------------------------------
(* Wrong variants of the actions below, each a slip in the code they model. *)

(* The descriptor is not stored in the new member.                         *)
AcceptWithoutFd(c) ==
  /\ server = "up" /\ pc[c] = "out"
  /\ \E f \in Fds, b \in Blocks \ allocated :
       /\ socket[f] = NoOne /\ \A g \in 1..(f - 1) : socket[g] # NoOne
       /\ socket' = [socket EXCEPT ![f] = c]
       /\ members' = [members EXCEPT !.prev[b] = Null, !.next[b] = Null]
       /\ allocated' = allocated \cup {b}
       /\ client' = [client EXCEPT ![c] = b]
  /\ Goto(c, "name")
  /\ UNCHANGED <<member, i, temp, owed, peer, bye, memberMutex, queue, misrouted, server>>

(* The login broadcast ends one member early.                              *)
LoginToldAllButOne(c) ==
  /\ server = "up" /\ pc[c] = "tell" /\ i[c] + 1 >= Cardinality(Linked)
  /\ memberMutex' = NoOne
  /\ i' = [i EXCEPT ![c] = 0]
  /\ temp' = [temp EXCEPT ![c] = Null]
  /\ Goto(c, "link")
  /\ UNCHANGED <<heap, client, owed, net, queue, misrouted, server>>

(* The login broadcast relies on the size, and does not end at NULL.       *)
LoginTellOn(c) ==
  /\ server = "up" /\ pc[c] = "tell" /\ i[c] < Cardinality(Linked)
  /\ temp[c] # Null
  /\ SendBy(c, temp[c])
  /\ i' = [i EXCEPT ![c] = @ + 1]
  /\ temp' = [temp EXCEPT ![c] = members.next[@]]
  /\ UNCHANGED <<heap, client, pc, memberMutex, socket, bye, queue, server>>

(* The descriptor is closed before the exit broadcast.                     *)
EndOfChatClosed(c) ==
  /\ server = "up" /\ pc[c] = "chat" /\ (c \in bye \/ peer[c] = "reset")
  /\ socket' = [socket EXCEPT ![member[client[c]].fd] = NoOne]
  /\ temp' = [temp EXCEPT ![c] = members.first]
  /\ owed' = [owed EXCEPT ![c] = NamesIn(Linked)]
  /\ Goto(c, IF members.first = Null THEN "close" ELSE "exit")
  /\ UNCHANGED <<heap, client, i, peer, bye, memberMutex, queue, misrouted, server>>

(* The pointer is advanced before the member is looked at.                 *)
ExitTellNext(c) ==
  /\ server = "up" /\ pc[c] = "exit"
  /\ IF members.next[temp[c]] = Null
       THEN /\ Goto(c, "close") /\ temp' = [temp EXCEPT ![c] = Null]
            /\ UNCHANGED <<owed, peer, misrouted>>
       ELSE /\ SendBy(c, members.next[temp[c]])
            /\ temp' = [temp EXCEPT ![c] = members.next[@]] /\ UNCHANGED pc
  /\ UNCHANGED <<heap, client, i, socket, bye, memberMutex, queue, server>>

(* The member is taken out without the mutex.                              *)
UnlinkUnlocked(c) ==
  /\ server = "up" /\ pc[c] = "unlink"
  /\ members' = DislinkFromList(members, client[c])
  /\ allocated' = allocated \ {client[c]}
  /\ owed' = [t \in Threads |-> owed[t] \ {c}]
  /\ Goto(c, "gone")
  /\ UNCHANGED <<member, client, i, temp, net, memberMutex, queue, misrouted, server>>

(* The sender's walk ends at the first member the message is meant for.    *)
SenderTellOne ==
  LET b     == temp[Sender]
      found == b # Null /\ IsMeantFor(Newest, b)
      last  == b = Null \/ found \/ members.next[b] = Null
  IN /\ server = "up" /\ sender = "tell"
     /\ IF found THEN SendBy(Sender, b) ELSE UNCHANGED <<peer, owed, misrouted>>
     /\ temp' = [temp EXCEPT ![Sender] = IF last THEN Null ELSE members.next[@]]
     /\ sender' = IF last THEN "next" ELSE "tell"
     /\ memberMutex' = IF last THEN NoOne ELSE Sender
     /\ UNCHANGED <<heap, receivers, socket, bye, messages, said, carried, round, server>>

(* The end of the sender's walk leaves the mutex locked.                   *)
SenderTellKeeps ==
  LET b    == temp[Sender]
      last == b = Null \/ members.next[b] = Null
  IN /\ server = "up" /\ sender = "tell"
     /\ IF b # Null /\ IsMeantFor(Newest, b)
          THEN SendBy(Sender, b)
          ELSE UNCHANGED <<peer, owed, misrouted>>
     /\ temp' = [temp EXCEPT ![Sender] = IF last THEN Null ELSE members.next[@]]
     /\ sender' = IF last THEN "next" ELSE "tell"
     /\ UNCHANGED <<heap, receivers, socket, bye, messages, said, carried, round, memberMutex,
                    server>>

(* k <= MessageListSize().                                                 *)
SenderNextOneMore ==
  /\ server = "up" /\ sender = "next"
  /\ IF round + 1 <= Len(messages)
       THEN sender' = "pick" /\ round' = round + 1 /\ UNCHANGED <<messages, carried>>
       ELSE sender' = "idle" /\ round' = 0 /\ messages' = <<>> /\ carried' = <<>>
  /\ owed' = [owed EXCEPT ![Sender] = {}]
  /\ UNCHANGED <<heap, receivers, temp, net, memberMutex, said, misrouted, server>>

-----------------------------------------------------------------------------
(* The clients and the accept loop.                                        *)

(* A client types Bye.                                                     *)
Bye(c) ==
  /\ server = "up" /\ pc[c] = "chat" /\ peer[c] = "open"
  /\ bye' = bye \cup {c}
  /\ UNCHANGED <<heap, receivers, temp, owed, socket, peer, memberMutex, queue,
                 misrouted, server>>

(* A client closes, after Bye or without it; it may have typed ahead of    *)
(* the prompts.  Data it has not read yet makes the close a reset at once. *)
Leave(c) ==
  /\ server = "up" /\ pc[c] \notin {"out", "gone"} /\ peer[c] = "open"
  /\ \E end \in {"closed", "reset"} : peer' = [peer EXCEPT ![c] = end]
  /\ bye' \in {bye, bye \cup {c}}
  /\ UNCHANGED <<heap, receivers, temp, owed, socket, memberMutex, queue, misrouted, server>>

(* accept() gives the lowest free descriptor, malloc any free block.       *)
Accept(c) ==
  /\ server = "up" /\ pc[c] = "out"
  /\ \E f \in Fds, b \in Blocks \ allocated :
       /\ socket[f] = NoOne /\ \A g \in 1..(f - 1) : socket[g] # NoOne
       /\ socket' = [socket EXCEPT ![f] = c]
       /\ member' = [member EXCEPT ![b].fd = f]
       /\ members' = [members EXCEPT !.prev[b] = Null, !.next[b] = Null]
       /\ allocated' = allocated \cup {b}
       /\ client' = [client EXCEPT ![c] = b]
  /\ Goto(c, "name")
  /\ UNCHANGED <<i, temp, owed, peer, bye, memberMutex, queue, misrouted, server>>

-----------------------------------------------------------------------------
(* A receiver thread, to the point where its client is a member.           *)

(* A prompt is sent to the thread's own client; recv() of the answer fails *)
(* once a reset has come.                                                  *)
Prompt(c) ==
  /\ ~SendFails(client[c])
  /\ peer' = [peer EXCEPT ![c] = IF @ = "open" THEN "open" ELSE "reset"]

PromptFails(c) ==
  /\ server = "up" /\ pc[c] \in {"name", "group"}
  /\ \/ SendFails(client[c]) /\ Die("send")
     \/ peer[c] = "closed" /\ Die("recv")

(* The nickname; then MemberListSize() sets out, without the mutex, to     *)
(* find out whether there is a list to show.                               *)
Name(c) ==
  /\ server = "up" /\ pc[c] = "name" /\ Prompt(c)
  /\ member' = [member EXCEPT ![client[c]].name = c]
  /\ temp' = [temp EXCEPT ![c] = members.first]
  /\ Goto(c, IF members.first = Null THEN "group" ELSE "count")
  /\ UNCHANGED <<members, allocated, client, i, owed, socket, bye,
                 memberMutex, queue, misrouted, server>>

(* MemberListSize() looks at one member: the first walk, to compare the    *)
(* size with 0, or the second, to have it.                                 *)
CountMember(c) ==
  /\ server = "up" /\ pc[c] \in {"count", "recount"}
  /\ temp' = [temp EXCEPT ![c] = members.next[@]]
  /\ IF members.next[temp[c]] = Null
       THEN Goto(c, IF pc[c] = "count" THEN "again" ELSE "list")
       ELSE UNCHANGED pc
  /\ UNCHANGED <<heap, client, i, owed, net, memberMutex, queue, misrouted, server>>

(* The second walk sets out; the list may be empty by now.                 *)
CountAgain(c) ==
  /\ server = "up" /\ pc[c] = "again"
  /\ temp' = [temp EXCEPT ![c] = members.first]
  /\ Goto(c, IF members.first = Null THEN "nolist" ELSE "recount")
  /\ UNCHANGED <<heap, client, i, owed, net, memberMutex, queue, misrouted, server>>

(* A walk stands on a member that has been freed, and reads what free()    *)
(* wrote; or what the member left, above.                                  *)
CountFails(c) ==
  /\ server = "up" /\ pc[c] \in {"count", "recount"}
  /\ temp[c] \in Blocks \ allocated
  /\ Die("freed")

(* As many members as were counted are listed for the client, under the    *)
(* mutex: a list emptied since then is walked from NULL.                   *)
ListMembers(c) ==
  /\ server = "up" /\ pc[c] \in {"list", "nolist"} /\ memberMutex = NoOne
  /\ IF pc[c] = "list" /\ members.first = Null
       THEN Die("null")
       ELSE /\ Goto(c, "group")
            /\ UNCHANGED <<heap, client, i, temp, owed, net, memberMutex, queue,
                           misrouted, server>>

(* The group.  The pointer for the login broadcast is read here, before    *)
(* the mutex is taken.                                                     *)
SelectGroup(c) ==
  /\ server = "up" /\ pc[c] = "group" /\ Prompt(c)
  /\ \E g \in Groups \cup (IF peer[c] = "open" THEN {} ELSE {NoGroup}) :
       member' = [member EXCEPT ![client[c]].group = g]
  /\ temp' = [temp EXCEPT ![c] = members.first]
  /\ owed' = [owed EXCEPT ![c] = NamesIn(Linked)]
  /\ Goto(c, "notify")
  /\ UNCHANGED <<members, allocated, client, i, socket, bye, memberMutex, queue,
                 misrouted, server>>

LoginLock(c) ==
  /\ server = "up" /\ pc[c] = "notify" /\ memberMutex = NoOne
  /\ memberMutex' = c
  /\ Goto(c, "tell")
  /\ UNCHANGED <<heap, client, i, temp, owed, net, queue, misrouted, server>>

(* One round of the login broadcast, mutex held.                           *)
LoginTell(c) ==
  /\ server = "up" /\ pc[c] = "tell" /\ i[c] < Cardinality(Linked)
  /\ temp[c] # Null
  /\ SendBy(c, temp[c])
  /\ i' = [i EXCEPT ![c] = IF members.next[temp[c]] = Null THEN 0 ELSE @ + 1]
  /\ IF members.next[temp[c]] = Null
       THEN Goto(c, "link") /\ memberMutex' = NoOne /\ temp' = [temp EXCEPT ![c] = Null]
       ELSE /\ temp' = [temp EXCEPT ![c] = members.next[@]]
            /\ UNCHANGED <<pc, memberMutex>>
  /\ UNCHANGED <<heap, client, socket, bye, queue, server>>

LoginToldAll(c) ==
  /\ server = "up" /\ pc[c] = "tell" /\ i[c] >= Cardinality(Linked)
  /\ memberMutex' = NoOne
  /\ i' = [i EXCEPT ![c] = 0]
  /\ temp' = [temp EXCEPT ![c] = Null]
  /\ Goto(c, "link")
  /\ UNCHANGED <<heap, client, owed, net, queue, misrouted, server>>

LinkMember(c) ==
  /\ server = "up" /\ pc[c] = "link" /\ memberMutex = NoOne
  /\ members' = LinkToList(members, client[c])
  /\ owed' = [owed EXCEPT ![c] = {}]
  /\ Goto(c, "usage")
  /\ UNCHANGED <<member, allocated, client, i, temp, net, memberMutex, queue,
                 misrouted, server>>

Usage(c) ==
  /\ server = "up" /\ pc[c] = "usage"
  /\ IF SendFails(client[c])
       THEN Die("send")
       ELSE /\ Prompt(c) /\ Goto(c, "chat")
            /\ UNCHANGED <<heap, client, i, temp, owed, socket, bye, memberMutex,
                           queue, misrouted, server>>

-----------------------------------------------------------------------------
(* A receiver thread, while its client is a member.                        *)

(* A line is queued, the newest first, under message_mutex, which the      *)
(* sender holds for the whole of its pass.  Lines typed before the client  *)
(* left are read after it has left, and the end of the stream is taken for *)
(* an empty line, again and again.                                         *)
Say(c) ==
  /\ server = "up" /\ pc[c] = "chat" /\ sender = "idle" /\ said < MaxSaid
  /\ \E to \in Says :
       messages' = <<[group |-> member[client[c]].group, to |-> to]>> \o messages
  /\ said' = said + 1
  /\ UNCHANGED <<heap, receivers, temp, owed, net, memberMutex, carried, sender,
                 round, misrouted, server>>

(* Bye, or recv() of -1.  The exit broadcast begins at MemberListFirst.    *)
EndOfChat(c) ==
  /\ server = "up" /\ pc[c] = "chat" /\ (c \in bye \/ peer[c] = "reset")
  /\ temp' = [temp EXCEPT ![c] = members.first]
  /\ owed' = [owed EXCEPT ![c] = NamesIn(Linked)]
  /\ Goto(c, IF members.first = Null THEN "close" ELSE "exit")
  /\ UNCHANGED <<heap, client, i, net, memberMutex, queue, misrouted, server>>

(* One round of the exit broadcast, without the mutex.                     *)
ExitTell(c) ==
  /\ server = "up" /\ pc[c] = "exit"
  /\ SendBy(c, temp[c])
  /\ IF members.next[temp[c]] = Null
       THEN Goto(c, "close") /\ temp' = [temp EXCEPT ![c] = Null]
       ELSE temp' = [temp EXCEPT ![c] = members.next[@]] /\ UNCHANGED pc
  /\ UNCHANGED <<heap, client, i, socket, bye, memberMutex, queue, server>>

(* The two broadcasts, at a member send() fails for, at NULL, or at freed  *)
(* memory: what is read there is what the member left, and the walk goes   *)
(* on above, or what free() wrote, and the process ends.                   *)
BroadcastFails(c) ==
  /\ server = "up"
  /\ pc[c] = "exit" \/ (pc[c] = "tell" /\ i[c] < Cardinality(Linked))
  /\ \/ temp[c] = Null /\ Die("null")
     \/ temp[c] # Null /\ SendFails(temp[c]) /\ Die("send")
     \/ temp[c] \in Blocks \ allocated /\ Die("freed")

Close(c) ==
  /\ server = "up" /\ pc[c] = "close"
  /\ socket' = [socket EXCEPT ![member[client[c]].fd] = NoOne]
  /\ owed' = [owed EXCEPT ![c] = {}]
  /\ Goto(c, "unlink")
  /\ UNCHANGED <<heap, client, i, temp, peer, bye, memberMutex, queue, misrouted,
                 server>>

(* The member is taken out of the list and freed under the mutex.          *)
UnlinkMember(c) ==
  /\ server = "up" /\ pc[c] = "unlink" /\ memberMutex = NoOne
  /\ members' = DislinkFromList(members, client[c])
  /\ allocated' = allocated \ {client[c]}
  /\ owed' = [t \in Threads |-> owed[t] \ {c}]
  /\ Goto(c, "gone")
  /\ UNCHANGED <<member, client, i, temp, net, memberMutex, queue, misrouted, server>>

-----------------------------------------------------------------------------
(* The sender thread.                                                      *)

(* message_mutex is taken; empty passes are left out.                      *)
SenderLock ==
  /\ server = "up" /\ sender = "idle" /\ messages # <<>>
  /\ sender' = "pick" /\ round' = 0
  /\ UNCHANGED <<heap, receivers, temp, owed, net, memberMutex, messages, said,
                 carried, misrouted, server>>

(* A round takes the first message, whatever the round.  A /W without a    *)
(* name copies from the NULL that strtok() returns.                        *)
SenderPick ==
  /\ server = "up" /\ sender = "pick"
  /\ IF Newest.to = NoArgs
       THEN Die("null")
       ELSE /\ memberMutex = NoOne /\ memberMutex' = Sender
            /\ temp' = [temp EXCEPT ![Sender] = members.first]
            /\ owed' = [owed EXCEPT ![Sender] =
                          NamesIn({b \in Linked : IsMeantFor(Newest, b)})]
            /\ sender' = "tell" /\ carried' = Append(carried, Newest)
            /\ UNCHANGED <<heap, receivers, net, messages, said, round, misrouted, server>>

(* One member is looked at and, if the message is meant for it, sent to.   *)
SenderTell ==
  LET b    == temp[Sender]
      last == b = Null \/ members.next[b] = Null
  IN /\ server = "up" /\ sender = "tell"
     /\ IF b # Null /\ IsMeantFor(Newest, b)
          THEN SendBy(Sender, b)
          ELSE UNCHANGED <<peer, owed, misrouted>>
     /\ temp' = [temp EXCEPT ![Sender] = IF last THEN Null ELSE members.next[@]]
     /\ sender' = IF last THEN "next" ELSE "tell"
     /\ memberMutex' = IF last THEN NoOne ELSE Sender
     /\ UNCHANGED <<heap, receivers, socket, bye, messages, said, carried, round, server>>

SenderFails ==
  /\ server = "up" /\ sender = "tell" /\ temp[Sender] # Null
  /\ IsMeantFor(Newest, temp[Sender]) /\ SendFails(temp[Sender])
  /\ Die("send")

(* The next round, or the whole queue is freed and the mutex released.     *)
SenderNext ==
  /\ server = "up" /\ sender = "next"
  /\ IF round + 1 < Len(messages)
       THEN sender' = "pick" /\ round' = round + 1 /\ UNCHANGED <<messages, carried>>
       ELSE sender' = "idle" /\ round' = 0 /\ messages' = <<>> /\ carried' = <<>>
  /\ owed' = [owed EXCEPT ![Sender] = {}]
  /\ UNCHANGED <<heap, receivers, temp, net, memberMutex, said, misrouted, server>>

SenderStep == SenderLock \/ SenderPick \/ SenderTell \/ SenderFails \/ SenderNext

-----------------------------------------------------------------------------

LoggingIn(c) ==
  PromptFails(c) \/ Name(c) \/ CountMember(c) \/ CountAgain(c) \/ CountFails(c)
  \/ ListMembers(c) \/ SelectGroup(c)

Broadcasting(c) ==
  LoginLock(c) \/ LoginTell(c) \/ LoginToldAll(c) \/ ExitTell(c) \/ BroadcastFails(c)

Joining(c) == LinkMember(c) \/ Usage(c)

Leaving(c) == EndOfChat(c) \/ Close(c) \/ UnlinkMember(c)

(* The steps a receiver takes without waiting for its client.              *)
ReceiverStep(c) == Broadcasting(c) \/ Joining(c) \/ Leaving(c)

Next ==
  \/ SenderStep
  \/ \E c \in Clients : Bye(c) \/ Leave(c)
  \/ \E c \in Clients : Accept(c) \/ LoggingIn(c) \/ Say(c) \/ ReceiverStep(c)

Spec == Init /\ [][Next]_vars

FairSpec == Spec /\ WF_vars(SenderStep) /\ \A c \in Clients : WF_vars(ReceiverStep(c))

-----------------------------------------------------------------------------

Abstract == INSTANCE MessageQueue WITH
  Messages <- [group : Groups \cup {NoGroup}, to : Says],
  queue    <- messages,
  busy     <- sender # "idle"

(* The receivers' lines and the sender's rounds, spread over the steps of  *)
(* its walks along the members, are the abstract queue.                    *)
QueueServed == Abstract!Spec

(* Types of the variables of the server.                                   *)
TypeOK ==
  /\ members \in [first : Blocks \cup {Null},
                  prev : [Blocks -> Blocks \cup {Null}],
                  next : [Blocks -> Blocks \cup {Null}]]
  /\ member \in [Blocks -> [fd : Fds \cup {0}, name : Clients \cup {NoOne},
                            group : Groups \cup {NoGroup}]]
  /\ allocated \in SUBSET Blocks
  /\ client \in [Clients -> Blocks \cup {Null}]
  /\ pc \in [Clients -> Places]
  /\ temp \in [Threads -> Blocks \cup {Null}]
  /\ i \in [Clients -> 0..Cardinality(Clients)]
  /\ owed \in [Threads -> SUBSET Clients]
  /\ socket \in [Fds -> Clients \cup {NoOne}]
  /\ peer \in [Clients -> {"open", "closed", "reset"}]
  /\ bye \in SUBSET Clients
  /\ memberMutex \in Threads \cup {NoOne}
  /\ messages \in BoundedSeq([group : Groups \cup {NoGroup}, to : Says], MaxSaid)
  /\ said \in 0..MaxSaid
  /\ carried \in BoundedSeq([group : Groups \cup {NoGroup}, to : Says], MaxSaid)
  /\ sender \in {"idle", "pick", "tell", "next"}
  /\ round \in {0} \cup 1..(MaxSaid - 1)
  /\ misrouted \in SUBSET (Clients \X Clients)
  /\ server \in Endings

(* The list is, at every step of every thread, a doubly linked list of     *)
(* exactly the members between link and unlink, none of them freed.        *)
ListOfMembers ==
  /\ Linked \subseteq allocated
  /\ \E s \in SetToSeqs(Linked) : ListIs(members, s)

(* The sender, which reads the first pointer inside the mutex, never       *)
(* stands on a member that has left the list.  (Those that can are the two *)
(* broadcasts and, before a login, MemberListSize().)                      *)
SenderStaysOnList ==
  sender = "tell" => temp[Sender] \in Linked \cup {Null}

(* When the sender has walked the list, no member that was meant and has   *)
(* been listed since the walk began has been passed over.                  *)
EveryMatchServed == sender = "next" => owed[Sender] = {}

(* A connection gets what was meant for another member only when that      *)
(* member's own thread has closed its descriptor.                          *)
WrongEarAfterClose ==
  \A m \in misrouted : pc[m[1]] \in {"unlink", "gone"}

(* Nobody has typed Bye or closed.                                         *)
NobodyLeft == bye = {} /\ \A c \in Clients : peer[c] = "open"

(* Two log in at once to an empty list: c has read the pointer for its     *)
(* broadcast when nobody was listed, and now somebody is.                  *)
MetAtEmptyList(c) == pc[c] = "tell" /\ owed[c] = {} /\ i[c] = 0 /\ Linked # {}

(* Before anybody leaves, no send() or recv() fails, no walk touches freed *)
(* memory, none that was counted is gone when it is to be listed, and no   *)
(* NULL is followed but that of a broadcast of one who met another at an   *)
(* empty list, or that of a /W without a name, which strtok() returned.    *)
OnlyLeaversBreakIt ==
  NobodyLeft /\ server # "up" =>
    /\ server = "null"
    /\ \/ \E c \in Clients : MetAtEmptyList(c)
       \/ sender = "pick" /\ Newest.to = NoArgs

(* A thread whose client has left the chat ends, and its member leaves the *)
(* list, or the server is down: no mutex is kept for ever.                 *)
LeaversGo == \A c \in Clients : pc[c] = "exit" ~> (pc[c] = "gone" \/ server # "up")

(* Broadcast to All Member someone name login group: a member listed when  *)
(* the pointer for the broadcast was read is sent to, however the members  *)
(* linked since then have moved it down the list, until somebody leaves.   *)
(* (Those linked since then are not sent to.)                              *)
LoginHeard == \A c \in Clients : pc[c] = "link" /\ NobodyLeft => owed[c] = {}

(* Broadcast to All Member someone Exit: a member listed from the          *)
(* beginning of the broadcast to its end is sent to, unless the walk,      *)
(* which takes no mutex, was standing on a member whose memory has gone to *)
(* a new connection.  (The one that leaves is listed and sent to, too.)    *)
ExitHeardUnlessReused ==
  \A c \in Clients : pc[c] = "close" /\ owed[c] # {} =>
    \E d, e \in Clients \ {c} : d # e /\ pc[d] = "gone" /\ client[e] = client[d]

=============================================================================

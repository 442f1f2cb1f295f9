---------------------------- MODULE MyftpServer ----------------------------
(***************************************************************************)
(* Discovery and dispatch of HW5.  The server process answers the boot     *)
(* broadcasts of clients with a port (listenClient) and forks a child for  *)
(* every datagram it gets (main); the child binds that port and serves     *)
(* whoever sends it a file request (startMyftpServer).  A client           *)
(* broadcasts until it is answered (findServerAddr), then talks to the     *)
(* port (startMyftpClient).                                                *)
(*                                                                         *)
(* MyftpTransfer has the block-by-block protocol of one client over a      *)
(* worse network; here several clients may come to talk to one child.      *)
(* Time is in seconds: datagrams and the scheduler need less than one.     *)
(***************************************************************************)
EXTENDS Integers, Sequences, FiniteSets

CONSTANTS
    Clients,        \* client processes
    Asks,           \* what each of them may ask for
    Lengths,        \* the blocks the served file may have, the last one short
    Restart,        \* 65000: the block number after which 2 comes again
    Ports,          \* what port + rand() % 1000 + 33 may be
    Elsewhere,      \* the port an uninitialised tempPort stands for
    NoPort,         \* a client has no port yet
    MaxTimeouts,    \* the bound in the tests TimeoutNum > 10
    MaxChildren,    \* bound: children at one time
    Lossy,          \* the kinds of datagram the network may lose
    MaxLosses       \* and how many of them

\* The name a client asks for: the served one, two kinds of longer ones that
\* start with it, or any other, which is as good as the empty one of a retry.
\* A child receives no more of a FRQ than one with the served name has.  The
\* bytes it cuts off a longer one ("cut") are missing from the sum, unless they
\* add nothing to it ("alike"): of a name one character longer than one of an
\* even length only the final NUL is cut off.
Names == {"served", "alike", "cut", "other"}

ASSUME ServerAssumption ==
    /\ Asks \subseteq [Clients -> Names]
    /\ Lengths \subseteq Nat \ {0}
    /\ Restart \in Nat /\ Restart > 3
    /\ Elsewhere \notin Ports /\ NoPort \notin Ports \cup {Elsewhere}
    /\ MaxTimeouts \in Nat /\ MaxLosses \in Nat
    /\ MaxChildren \in Nat \ {0}

VARIABLES
    length,                         \* of the file
    asks,                           \* per client: the name it asks for
    cPc, cPort, cTimeouts, cClock,  \* place, servaddr's port, TimeoutNum,
                                    \* seconds to the time-out
    cBlock, cFile,                  \* block, and the parts written
    tempPort,                       \* tempPort of the server's main()
    child,                          \* the children, by slot
    net,                            \* datagrams in flight
    losses,
    restarted                       \* history: a child's block numbers have

setup == <<length, asks>>
clientVars == <<cPc, cPort, cTimeouts, cClock, cBlock, cFile>>
vars == <<setup, clientVars, tempPort, child, net, losses, restarted>>

Slots == 1 .. MaxChildren
Free == [st |-> "free"]

\* part is what fread() has last read: past the end of the file, nothing.
Child(st, port, peer, clock) ==
    [st |-> st, port |-> port, peer |-> peer, timeouts |-> 0, clock |-> clock,
     block |-> 1, part |-> 1]
PastEnd == length + 1
Short(part) == part >= length

Datagram(kind, c, port, name, block, part) ==
    [kind |-> kind, client |-> c, port |-> port, name |-> name,
     block |-> block, part |-> part]
Boot(c, name) == Datagram("BOOT", c, NoPort, name, 0, 0)
Reply(c, port) == Datagram("REPLY", c, port, "served", 0, 0)
Frq(c, port) == Datagram("FRQ", c, port, asks[c], 0, 0)
Ack(c, port, block) == Datagram("ACK", c, port, "served", block, 0)
Error(c, port, block) == Datagram("ERROR", c, port, "served", block, 0)
DataFrom(ch) == Datagram("DATA", ch.peer, ch.port, "served", ch.block, ch.part)

Replace(m, sends) == net' = (net \ {m}) \cup sends

Bound(i) == child[i].st \in {"wait", "serve"}
BoundPorts == {child[i].port : i \in {j \in Slots : Bound(j)}}

Init ==
    /\ length \in Lengths
    /\ asks \in Asks
    /\ cBlock = [c \in Clients |-> 0]
    /\ cFile = [c \in Clients |-> <<>>]
    /\ restarted = FALSE
    /\ cPc = [c \in Clients |-> "idle"]
    /\ cPort = [c \in Clients |-> NoPort]
    /\ cTimeouts = [c \in Clients |-> 0]
    /\ cClock = [c \in Clients |-> 0]
    /\ tempPort = Elsewhere
    /\ child = [i \in Slots |-> Free]
    /\ net = {} /\ losses = 0
-----------------------------------------------------------------------------
(* The client. *)

\* A turn of client c leaves it at pc with the given port and TimeoutNum, in a
\* fresh recvfrom() of 1 second.
ClientTurn(c, pc, port, timeouts) ==
    /\ cPc' = [cPc EXCEPT ![c] = pc]
    /\ cPort' = [cPort EXCEPT ![c] = port]
    /\ cTimeouts' = [cTimeouts EXCEPT ![c] = timeouts]
    /\ cClock' = [cClock EXCEPT ![c] = 1]
    /\ UNCHANGED <<setup, tempPort, child, losses, restarted>>

NoData == UNCHANGED <<cBlock, cFile>>

\* findServerAddr() broadcasts the file name.
Broadcast(c) ==
    /\ cPc[c] = "idle"
    /\ ClientTurn(c, "find", NoPort, 0)
    /\ net' = net \cup {Boot(c, asks[c])}
    /\ NoData

\* No reply: the packet has been zeroed, and is broadcast again as it is.
FindTimeout(c) ==
    /\ cPc[c] = "find" /\ cClock[c] = 0
    /\ IF cTimeouts[c] > MaxTimeouts
         THEN ClientTurn(c, "notfound", NoPort, cTimeouts[c]) /\ UNCHANGED net
         ELSE /\ ClientTurn(c, "find", NoPort, cTimeouts[c] + 1)
              /\ net' = net \cup {Boot(c, "other")}
    /\ NoData

\* The reply names the port; startMyftpClient() sends its FRQ there.
FindReply(c, m) ==
    /\ cPc[c] = "find" /\ m.kind = "REPLY" /\ m.client = c
    /\ ClientTurn(c, "fetch", m.port, 0)
    /\ Replace(m, {Frq(c, m.port)})
    /\ NoData

\* Wrong: a time-out before the first DATA is only counted.
SilentFetchTimeout(c) ==
    /\ cPc[c] = "fetch" /\ cClock[c] = 0
    /\ IF cTimeouts[c] > MaxTimeouts
         THEN ClientTurn(c, "gaveup", cPort[c], cTimeouts[c])
         ELSE ClientTurn(c, "fetch", cPort[c], cTimeouts[c] + 1)
    /\ UNCHANGED net /\ NoData

\* No DATA: the FRQ is sent again, or an ERROR with the last block.
FetchTimeout(c) ==
    /\ cPc[c] = "fetch" /\ cClock[c] = 0
    /\ IF cTimeouts[c] > MaxTimeouts
         THEN ClientTurn(c, "gaveup", cPort[c], cTimeouts[c]) /\ UNCHANGED net
         ELSE /\ ClientTurn(c, "fetch", cPort[c], cTimeouts[c] + 1)
              /\ net' = net \cup {IF cBlock[c] = 0 THEN Frq(c, cPort[c])
                                   ELSE Error(c, cPort[c], cBlock[c])}
    /\ NoData

IsForFetch(c, m) == cPc[c] = "fetch" /\ m.kind = "DATA" /\ m.client = c

\* A block out of turn is acknowledged under its own number.
FetchOldData(c, m) ==
    /\ IsForFetch(c, m) /\ m.block # cBlock[c] + 1
    /\ ClientTurn(c, "fetch", cPort[c], 0)
    /\ Replace(m, {Ack(c, m.port, m.block)})
    /\ NoData

\* Wrong: the block expected is not looked at.
FetchAnyData(c, m) ==
    /\ IsForFetch(c, m)
    /\ ClientTurn(c, IF Short(m.part) THEN "finished" ELSE "fetch", cPort[c], 0)
    /\ cFile' = [cFile EXCEPT ![c] = IF m.part = PastEnd THEN @ ELSE Append(@, m.part)]
    /\ cBlock' = [cBlock EXCEPT ![c] = m.block]
    /\ Replace(m, {Ack(c, m.port, IF Short(m.part) THEN 0 ELSE m.block)})

\* The next block is written; a short one ends the file.
FetchData(c, m) ==
    /\ IsForFetch(c, m) /\ m.block = cBlock[c] + 1
    /\ ClientTurn(c, IF Short(m.part) THEN "finished" ELSE "fetch", cPort[c], 0)
    /\ cFile' = [cFile EXCEPT ![c] = IF m.part = PastEnd THEN @ ELSE Append(@, m.part)]
    /\ cBlock' = [cBlock EXCEPT ![c] = IF Short(m.part) THEN 0
                                        ELSE IF m.block = Restart - 1 THEN 1 ELSE m.block]
    /\ Replace(m, {Ack(c, m.port, IF Short(m.part) THEN 0 ELSE m.block)})
-----------------------------------------------------------------------------
(* The server process. *)

\* strncmp() over the length of the served name.
Matches(name) == name # "other"

\* listenClient() answers a matching request with a random port and ignores
\* another one, but returns 0 in both cases; main() forks.
Listen(m, port, i) ==
    /\ m.kind = "BOOT"
    /\ child[i] = Free /\ \A j \in Slots : j < i => child[j] # Free
    /\ IF Matches(m.name)
         THEN port \in Ports /\ Replace(m, {Reply(m.client, port)})
         ELSE port = tempPort /\ Replace(m, {})
    /\ tempPort' = port
    /\ child' = [child EXCEPT ![i] = Child("born", port, m.client, 0)]
    /\ UNCHANGED <<setup, clientVars, losses, restarted>>
-----------------------------------------------------------------------------
(* A child. *)

ChildTurn(i, c) ==
    /\ child' = [child EXCEPT ![i] = c]
    /\ UNCHANGED <<setup, clientVars, tempPort, losses>>

NoRestart == UNCHANGED restarted

\* bind() fails, and the child exits, while another child has the port.
ChildBind(i) ==
    /\ child[i].st = "born"
    /\ ChildTurn(i, IF child[i].port \in BoundPorts THEN Free
                    ELSE [child[i] EXCEPT !.st = "wait", !.clock = 2])
    /\ UNCHANGED net /\ NoRestart

\* Wrong: the checksum of the request is not looked at.
FrqUnchecked(m) == m.name \in Names

\* in_cksum() over as many bytes as a FRQ with the served name has: an ACK or
\* ERROR is padded with zeroes and sums to 0.  The opcode is not looked at.
Passing == {"served", "alike"}
FrqPasses(m) == m.name \in Passing

\* A datagram for the port of a child that has bound it; its sender becomes
\* the child's peer.
ToChild(i, m) == Bound(i) /\ m.kind \in {"FRQ", "ACK", "ERROR"} /\ m.port = child[i].port

ChildReceiveFrq(i, m) ==
    /\ child[i].st = "wait" /\ ToChild(i, m)
    /\ LET ch == Child(IF FrqPasses(m) THEN "serve" ELSE "wait", m.port, m.client, 2)
       IN /\ ChildTurn(i, IF FrqPasses(m) THEN ch
                          ELSE [ch EXCEPT !.timeouts = child[i].timeouts])
          /\ Replace(m, IF FrqPasses(m) THEN {DataFrom(ch)} ELSE {})
    /\ NoRestart

\* A serving child has received m: its sender is the peer from now on.
Heard(i, m) == [child[i] EXCEPT !.peer = m.client, !.timeouts = 0, !.clock = 2]

\* A late FRQ, an ACK or an ERROR for another block.
Ignored(i, m) ==
    \/ m.kind = "FRQ"
    \/ m.kind = "ERROR" /\ m.block # child[i].block - 1
    \/ m.kind = "ACK" /\ m.block \notin {0, child[i].block}

ChildIgnore(i, m) ==
    /\ child[i].st = "serve" /\ ToChild(i, m) /\ Ignored(i, m)
    /\ ChildTurn(i, Heard(i, m))
    /\ Replace(m, {}) /\ NoRestart

ChildReceiveError(i, m) ==
    /\ child[i].st = "serve" /\ ToChild(i, m)
    /\ m.kind = "ERROR" /\ m.block = child[i].block - 1
    /\ ChildTurn(i, Heard(i, m))
    /\ Replace(m, {DataFrom(Heard(i, m))}) /\ NoRestart

\* The next block, which past the end of the file is an empty one.
ChildReceiveAck(i, m) ==
    /\ child[i].st = "serve" /\ ToChild(i, m)
    /\ m.kind = "ACK" /\ m.block = child[i].block
    /\ LET next == m.block + 1
           ch == [Heard(i, m) EXCEPT
                    !.block = IF next = Restart THEN 2 ELSE next,
                    !.part = IF @ = PastEnd THEN PastEnd ELSE @ + 1]
       IN /\ ChildTurn(i, ch)
          /\ Replace(m, {DataFrom(ch)})
          /\ restarted' = (restarted \/ next = Restart)

\* ACK 0 ends the transfer, the child and its hold on the port.
ChildReceiveFinalAck(i, m) ==
    /\ child[i].st = "serve" /\ ToChild(i, m) /\ m.kind = "ACK" /\ m.block = 0
    /\ ChildTurn(i, Free)
    /\ Replace(m, {}) /\ NoRestart

\* Wrong: the time-outs of a child are not counted.
UncountedChildTimeout(i) ==
    /\ Bound(i) /\ child[i].clock = 0
    /\ ChildTurn(i, [child[i] EXCEPT !.clock = 2])
    /\ net' = net \cup (IF child[i].st = "serve" THEN {DataFrom(child[i])} ELSE {})
    /\ NoRestart

\* 2 seconds without a datagram: give up, wait on, or send the block again.
ChildTimeout(i) ==
    /\ Bound(i) /\ child[i].clock = 0
    /\ IF child[i].timeouts > MaxTimeouts
         THEN ChildTurn(i, Free) /\ UNCHANGED net
         ELSE /\ ChildTurn(i, [child[i] EXCEPT !.timeouts = @ + 1, !.clock = 2])
              /\ net' = net \cup (IF child[i].st = "serve" THEN {DataFrom(child[i])} ELSE {})
    /\ NoRestart
-----------------------------------------------------------------------------
(* Network and time. *)

\* Nobody holds the socket the datagram is for.
Unreceived(m) ==
    \/ m.kind = "REPLY" /\ cPc[m.client] # "find"
    \/ m.kind = "DATA" /\ cPc[m.client] # "fetch"
    \/ m.kind \in {"FRQ", "ACK", "ERROR"} /\ m.port \notin BoundPorts

Drop(m) ==
    /\ Unreceived(m)
    /\ Replace(m, {})
    /\ UNCHANGED <<setup, clientVars, tempPort, child, losses, restarted>>

Lose(m) ==
    /\ ~Unreceived(m) /\ m.kind \in Lossy /\ losses < MaxLosses
    /\ losses' = losses + 1
    /\ Replace(m, {})
    /\ UNCHANGED <<setup, clientVars, tempPort, child, restarted>>

Waiting(c) == cPc[c] \in {"find", "fetch"}

\* A child sends past the end of the file: an exchange that takes time.
Endless == \E i \in Slots : Bound(i) /\ child[i].part = PastEnd

\* A second passes, once everything that was on its way has arrived.
Tick ==
    /\ net = {} \/ Endless
    /\ \A i \in Slots : child[i].st # "born"
    /\ \A c \in Clients : Waiting(c) => cClock[c] > 0
    /\ \A i \in Slots : Bound(i) => child[i].clock > 0
    /\ (\E c \in Clients : Waiting(c)) \/ (\E i \in Slots : Bound(i))
    /\ cClock' = [c \in Clients |-> IF Waiting(c) THEN cClock[c] - 1 ELSE cClock[c]]
    /\ child' = [i \in Slots |->
                   IF Bound(i) THEN [child[i] EXCEPT !.clock = @ - 1] ELSE child[i]]
    /\ UNCHANGED <<setup, cPc, cPort, cTimeouts, cBlock, cFile, tempPort, net, losses, restarted>>

Over(c) == cPc[c] \in {"finished", "gaveup", "notfound"}
AllOver == (\A c \in Clients : Over(c)) /\ (\A i \in Slots : child[i] = Free)

\* The server process waits for the next client.
Listening == AllOver /\ net = {} /\ UNCHANGED vars

Step ==
    \/ \E c \in Clients : \/ Broadcast(c) \/ FindTimeout(c) \/ FetchTimeout(c)
                          \/ \E m \in net : FindReply(c, m) \/ FetchOldData(c, m) \/ FetchData(c, m)
    \/ \E m \in net, i \in Slots :
          \/ \E port \in Ports \cup {Elsewhere} : Listen(m, port, i)
          \/ ChildReceiveFrq(i, m) \/ ChildIgnore(i, m) \/ ChildReceiveError(i, m)
          \/ ChildReceiveAck(i, m) \/ ChildReceiveFinalAck(i, m)
    \/ \E i \in Slots : ChildBind(i) \/ ChildTimeout(i)
    \/ \E m \in net : Drop(m) \/ Lose(m)
    \/ Tick

Next == Step \/ Listening

Spec == Init /\ [][Next]_vars

\* Processes are scheduled and time passes.
FairSpec == Spec /\ WF_vars(Step)
-----------------------------------------------------------------------------
Datagrams ==
    [kind : {"BOOT", "REPLY", "FRQ", "DATA", "ACK", "ERROR"}, client : Clients,
     port : Ports \cup {Elsewhere, NoPort}, name : Names,
     block : 0 .. Restart - 1, part : 0 .. PastEnd]

\* Every client has no port or one the server gives out, block numbers stay
\* below Restart, and no TimeoutNum, of a client or of a child, passes its bound
\* by more than the final test.
TypeOK ==
    /\ length \in Lengths /\ asks \in [Clients -> Names]
    /\ cPc \in [Clients -> {"idle", "find", "fetch", "finished", "gaveup", "notfound"}]
    /\ cPort \in [Clients -> Ports \cup {NoPort}]
    /\ cTimeouts \in [Clients -> 0 .. MaxTimeouts + 1]
    /\ cClock \in [Clients -> 0 .. 1]
    /\ cBlock \in [Clients -> 0 .. Restart - 2]
    /\ cFile \in [Clients -> Seq(1 .. length)]
    /\ tempPort \in Ports \cup {Elsewhere}
    /\ \A i \in Slots :
          \/ child[i] = Free
          \/ child[i] \in [st : {"born", "wait", "serve"},
                           port : Ports \cup {Elsewhere}, peer : Clients,
                           timeouts : 0 .. MaxTimeouts + 1, clock : 0 .. 2,
                           block : 1 .. Restart - 1, part : 1 .. PastEnd]
    /\ net \subseteq Datagrams
    /\ losses \in 0 .. MaxLosses
    /\ restarted \in BOOLEAN

\* Another client has been given the same port.
SharedBy(c, d) == d # c /\ cPort[c] = cPort[d] /\ cPort[c] # NoPort

\* A client that was given a port, and whose FRQ passes, goes away empty-handed
\* only if another client was given the same port.  The server forks before
\* bind(), so a FRQ may overtake it; and it forks for requests that do not match,
\* too, so the child of a client that asks for something else may bind the port
\* first: neither does any harm.  (While nothing is lost.)
UnservedOnlyByClash ==
    \A c \in Clients :
       losses = 0 /\ cPc[c] = "gaveup" /\ asks[c] \in Passing =>
          \E d \in Clients : SharedBy(c, d)

\* A client that asks for another file is given a port if the name starts with
\* the served one, but is not sent the file there, unless the cut-off name sums
\* to 0 nevertheless or the child on that port was first talking to another
\* client.
WrongNameNeedsClash ==
    \A c \in Clients :
       cPc[c] = "finished" /\ asks[c] \notin Passing =>
          \E d \in Clients : SharedBy(c, d) /\ asks[d] \in Passing

\* What a client has written is the beginning of the file, even when it has
\* taken over a child in the middle or its child is driven past the end by the
\* ACKs of another; and a finished client has the whole file, unless it shared
\* its child and the child's block numbers have gone round.  The file is shorter
\* than such a round: in a longer one a datagram that is late by a round is
\* taken for the one with its number in this round.
WholeUnlessRestarted ==
    length < Restart =>
       \A c \in Clients :
          /\ cFile[c] = [n \in 1 .. Len(cFile[c]) |-> n]
          /\ cPc[c] = "finished" /\ Len(cFile[c]) < length =>
                restarted /\ \E d \in Clients : SharedBy(c, d)

\* Every client returns and every child exits, and the server is left listening
\* with no child and no port in use, unless two clients share a child and the
\* file is longer than a block: the second can then keep the child, by its ACKs
\* of blocks it does not want, sending past the end of the file.
AllReturn == <>(AllOver \/ (length > 1 /\ \E c, d \in Clients : SharedBy(c, d)))

\* "[findServerAddr]::Send Broadcast Again" (myftp.c:163): the broadcast is
\* repeated so that one lost datagram does not keep a client from finding the
\* server.
RetryFindsServer ==
    \A c \in Clients :
       asks[c] = "served" /\ losses <= MaxTimeouts => cPc[c] # "notfound"
=============================================================================

------------------------- MODULE MyftpServerProofs --------------------------
(***************************************************************************)
(* What holds of MyftpServer for any number of clients, ports and children,*)
(* whatever is lost: the types, who is sent the file on the port of        *)
(* another, and what a client has written; and, while nothing is lost, who *)
(* is left unserved.                                                       *)
(***************************************************************************)
EXTENDS MyftpServer, SequenceTheorems, TLAPS

Kid ==
    [st : {"born", "wait", "serve"}, port : Ports \cup {Elsewhere}, peer : Clients,
     timeouts : 0 .. MaxTimeouts + 1, clock : 0 .. 2,
     block : 1 .. Restart - 1, part : 1 .. PastEnd]

Typed ==
    /\ TypeOK
    /\ child \in [Slots -> {Free} \cup Kid]
    /\ \A m \in net : m.kind = "DATA" => m.part # 0

\* Someone who was given port p has asked for the served file.
Served(p) == \E d \in Clients : cPort[d] = p /\ asks[d] \in Passing

Alone(c) == cPc[c] = "fetch" /\ \A d \in Clients : ~SharedBy(c, d)

\* A block carries the part with its number, or none: the file has ended.
OnCourse(block, part) ==
    part = block \/ (part = PastEnd /\ (block > length \/ restarted))

\* Client c may be sent this block from port p; when it has the child on p for
\* itself, the block is one of those it has acknowledged or the next.
Serves(c, p, block, part) ==
    /\ p \in Ports /\ cPort[c] = p /\ Served(p)
    /\ length < Restart =>
          /\ OnCourse(block, part)
          /\ Alone(c) => block <= cBlock[c] + 1 /\ part = block

GoodMail(m) ==
    /\ m.kind = "REPLY" => m.port \in Ports
    /\ m.kind \in {"FRQ", "ACK", "ERROR"} => m.port \in Ports /\ cPort[m.client] = m.port
    /\ m.kind = "FRQ" => m.name = asks[m.client]
    /\ m.kind \in {"ACK", "ERROR"} => Served(m.port)
    /\ m.kind = "DATA" => Serves(m.client, m.port, m.block, m.part)
    /\ m.kind = "ACK" /\ length < Restart /\ Alone(m.client) => m.block <= cBlock[m.client]

GoodChild(ch) == Serves(ch.peer, ch.port, ch.block, ch.part)

\* What the client has written is as long as its block says, and no longer than
\* the file.
GoodFile(c) ==
    /\ cFile[c] = [n \in 1 .. Len(cFile[c]) |-> n]
    /\ cPc[c] = "fetch" => Len(cFile[c]) = cBlock[c] /\ cBlock[c] < length
    /\ cPc[c] = "finished" =>
          \/ Len(cFile[c]) = length
          \/ restarted /\ \E d \in Clients : SharedBy(c, d)

GoodClient(c) ==
    /\ cPc[c] \in {"idle", "find", "notfound"} =>
          cPort[c] = NoPort /\ cBlock[c] = 0 /\ cFile[c] = <<>>
    /\ cPc[c] \in {"fetch", "finished", "gaveup"} => cPort[c] \in Ports
    /\ cBlock[c] # 0 \/ cPc[c] = "finished" => Served(cPort[c])
    /\ length < Restart => GoodFile(c)

Good ==
    /\ \A c \in Clients : GoodClient(c)
    /\ \A m \in net : GoodMail(m)
    /\ \A i \in Slots : child[i].st = "serve" => GoodChild(child[i])

IInv == Typed /\ Good

LEMMA InitIInv == Init => IInv
  <1> SUFFICES ASSUME Init PROVE IInv
    OBVIOUS
  <1> USE ServerAssumption DEF Init
  <1>1. TypeOK
    <2>1. length \in Lengths /\ asks \in [Clients -> Names]
      OBVIOUS
    <2>2. /\ cPc \in [Clients -> {"idle", "find", "fetch", "finished", "gaveup", "notfound"}]
          /\ cPort \in [Clients -> Ports \cup {NoPort}]
          /\ cTimeouts \in [Clients -> 0 .. MaxTimeouts + 1]
          /\ cClock \in [Clients -> 0 .. 1]
      OBVIOUS
    <2>3. cBlock \in [Clients -> 0 .. Restart - 2] /\ cFile \in [Clients -> Seq(1 .. length)]
      <3>1. 0 \in 0 .. Restart - 2 /\ <<>> \in Seq(1 .. length)
        OBVIOUS
      <3> QED BY <3>1
    <2>4. tempPort \in Ports \cup {Elsewhere} /\ losses \in 0 .. MaxLosses
      OBVIOUS
    <2>5. restarted \in BOOLEAN
      BY Zenon
    <2>6. \A i \in Slots : child[i] = Free
      OBVIOUS
    <2>7. net \subseteq Datagrams
      OBVIOUS
    <2> QED BY <2>1, <2>2, <2>3, <2>4, <2>5, <2>6, <2>7 DEF TypeOK
  <1>2. Typed
    BY <1>1 DEF Init, Typed
  <1>3. \A c \in Clients : GoodClient(c)
    BY ServerAssumption DEF Init, GoodClient, GoodFile
  <1>4. \A i \in Slots : child[i].st # "serve"
    BY DEF Init, Free
  <1> QED BY <1>2, <1>3, <1>4 DEF IInv, Good, Init

-----------------------------------------------------------------------------
(* What the datagrams and the children are made of.                        *)

LEMMA Fields ==
  ASSUME NEW k, NEW c, NEW p, NEW n, NEW b, NEW q
  PROVE  LET m == Datagram(k, c, p, n, b, q)
         IN /\ m.kind = k /\ m.client = c /\ m.port = p
            /\ m.name = n /\ m.block = b /\ m.part = q
  BY DEF Datagram

LEMMA Mail ==
  ASSUME NEW k \in {"BOOT", "REPLY", "FRQ", "DATA", "ACK", "ERROR"}, NEW c \in Clients,
         NEW p \in Ports \cup {Elsewhere, NoPort}, NEW n \in Names,
         NEW b \in 0 .. Restart - 1, NEW q \in 0 .. PastEnd
  PROVE  Datagram(k, c, p, n, b, q) \in Datagrams
  BY DEF Datagram, Datagrams

LEMMA Sizes ==
  ASSUME TypeOK
  PROVE  /\ length \in Nat \ {0} /\ PastEnd = length + 1 /\ Restart \in Nat
         /\ Restart > 3 /\ 0 \in 0 .. Restart - 1 /\ 0 \in 0 .. PastEnd
         /\ asks \in [Clients -> Names] /\ "served" \in Names /\ "other" \in Names
         /\ MaxTimeouts \in Nat /\ 0 \in 0 .. MaxTimeouts + 1
  BY ServerAssumption DEF TypeOK, PastEnd, Names

\* The slot of a child whose st is not "free" holds a child.
LEMMA Kids ==
  ASSUME Typed, NEW i \in Slots, child[i].st \in {"born", "wait", "serve"}
  PROVE  child[i] \in Kid
  <1>1. child[i] \in {Free} \cup Kid
    BY DEF Typed
  <1>2. child[i] # Free
    BY DEF Free
  <1> QED BY <1>1, <1>2

LEMMA DataMail ==
  ASSUME Typed, NEW ch \in Kid
  PROVE  /\ DataFrom(ch) \in Datagrams /\ DataFrom(ch).kind = "DATA"
         /\ DataFrom(ch).part # 0
  <1>1. /\ ch.peer \in Clients /\ ch.port \in Ports \cup {Elsewhere, NoPort}
        /\ ch.block \in 0 .. Restart - 1 /\ ch.part \in 0 .. PastEnd /\ ch.part # 0
    BY Sizes DEF Kid, Typed
  <1>2. "DATA" \in {"BOOT", "REPLY", "FRQ", "DATA", "ACK", "ERROR"} /\ "served" \in Names
    BY DEF Names
  <1>3. DataFrom(ch) \in Datagrams
    BY <1>1, <1>2, Mail DEF DataFrom
  <1> QED BY <1>1, <1>3, Fields DEF DataFrom

-----------------------------------------------------------------------------
(* The types.  A step is a client's turn, a child's, one of the network or   *)
(* a second that passes.                                                     *)

Pcs == {"idle", "find", "fetch", "finished", "gaveup", "notfound"}

LEMMA TurnTyped ==
  ASSUME Typed, NEW c \in Clients, NEW pc \in Pcs, NEW port \in Ports \cup {NoPort},
         NEW t \in 0 .. MaxTimeouts + 1, ClientTurn(c, pc, port, t),
         cBlock' \in [Clients -> 0 .. Restart - 2],
         cFile' \in [Clients -> Seq(1 .. length)],
         NEW S \in SUBSET Datagrams, \A m \in S : m.kind # "DATA",
         net' \subseteq net \cup S
  PROVE  Typed'
  <1>1. /\ length' = length /\ asks' = asks /\ child' = child /\ tempPort' = tempPort
        /\ losses' = losses /\ restarted' = restarted /\ PastEnd' = PastEnd
    BY DEF ClientTurn, setup, PastEnd
  <1>2. Datagrams' = Datagrams /\ Kid' = Kid
    BY <1>1 DEF Datagrams, Kid
  <1>3. cPc' \in [Clients -> Pcs] /\ cPort' \in [Clients -> Ports \cup {NoPort}]
    BY DEF ClientTurn, Typed, TypeOK, Pcs
  <1>4. cTimeouts' \in [Clients -> 0 .. MaxTimeouts + 1] /\ cClock' \in [Clients -> 0 .. 1]
    BY DEF ClientTurn, Typed, TypeOK
  <1>5. net' \subseteq Datagrams /\ \A m \in net' : m.kind = "DATA" => m.part # 0
    BY DEF Typed, TypeOK
  <1>6. TypeOK'
    BY <1>1, <1>2, <1>3, <1>4, <1>5 DEF Typed, TypeOK, Pcs
  <1> QED BY <1>1, <1>2, <1>5, <1>6 DEF Typed

LEMMA ChildTyped ==
  ASSUME Typed, UNCHANGED <<setup, clientVars, losses>>,
         tempPort' \in Ports \cup {Elsewhere}, restarted' \in BOOLEAN,
         NEW i \in Slots, NEW ch \in {Free} \cup Kid, child' = [child EXCEPT ![i] = ch],
         NEW S \in SUBSET Datagrams, \A m \in S : m.kind = "DATA" => m.part # 0,
         net' \subseteq net \cup S
  PROVE  Typed'
  <1>1. /\ length' = length /\ asks' = asks /\ losses' = losses /\ PastEnd' = PastEnd
        /\ cPc' = cPc /\ cPort' = cPort /\ cTimeouts' = cTimeouts /\ cClock' = cClock
        /\ cBlock' = cBlock /\ cFile' = cFile
    BY DEF setup, clientVars, PastEnd
  <1>2. Datagrams' = Datagrams /\ Kid' = Kid
    BY <1>1 DEF Datagrams, Kid
  <1>3. child' \in [Slots -> {Free} \cup Kid]
    BY DEF Typed
  <1>4. \A j \in Slots : child'[j] = Free \/ child'[j] \in Kid
    BY <1>3
  <1>5. net' \subseteq Datagrams /\ \A m \in net' : m.kind = "DATA" => m.part # 0
    BY DEF Typed, TypeOK
  <1>6. TypeOK'
    BY <1>1, <1>2, <1>4, <1>5 DEF Typed, TypeOK, Kid
  <1> QED BY <1>2, <1>3, <1>5, <1>6 DEF Typed

LEMMA BroadcastTyped ==
  ASSUME Typed, NEW c \in Clients, Broadcast(c) \/ FindTimeout(c)
  PROVE  Typed'
  <1>1. cPc[c] \in Pcs /\ NoPort \in Ports \cup {NoPort} /\ cTimeouts[c] \in 0 .. MaxTimeouts + 1
    BY DEF Typed, TypeOK, Pcs
  <1>2. cBlock' \in [Clients -> 0 .. Restart - 2] /\ cFile' \in [Clients -> Seq(1 .. length)]
    BY DEF Broadcast, FindTimeout, NoData, Typed, TypeOK
  <1> DEFINE Boots(n) == {Boot(c, n)}
  <1>3. \A n \in Names : Boots(n) \in SUBSET Datagrams /\ \A m \in Boots(n) : m.kind # "DATA"
    <2>1. "BOOT" \in {"BOOT", "REPLY", "FRQ", "DATA", "ACK", "ERROR"}
      OBVIOUS
    <2>2. 0 \in 0 .. Restart - 1 /\ 0 \in 0 .. PastEnd
      BY Sizes DEF Typed
    <2>3. ASSUME NEW n \in Names
          PROVE  Boot(c, n) \in Datagrams /\ Boot(c, n).kind # "DATA"
      BY <2>1, <2>2, Mail, Fields DEF Boot
    <2> QED BY <2>3
  <1>4. asks[c] \in Names /\ "other" \in Names /\ 0 \in 0 .. MaxTimeouts + 1
        /\ {} \in SUBSET Datagrams /\ {"find", "notfound"} \subseteq Pcs
    BY Sizes DEF Typed, Pcs
  <1> HIDE DEF Boots
  <1>5. CASE Broadcast(c)
    <2>1. ClientTurn(c, "find", NoPort, 0) /\ net' \subseteq net \cup Boots(asks[c])
      BY <1>5 DEF Broadcast, Boots
    <2> QED BY <2>1, <1>1, <1>2, <1>3, <1>4, TurnTyped
  <1>6. CASE FindTimeout(c) /\ cTimeouts[c] > MaxTimeouts
    <2>1. ClientTurn(c, "notfound", NoPort, cTimeouts[c]) /\ net' \subseteq net \cup {}
      BY <1>6 DEF FindTimeout
    <2> QED BY <2>1, <1>1, <1>2, <1>4, TurnTyped
  <1>7. CASE FindTimeout(c) /\ ~(cTimeouts[c] > MaxTimeouts)
    <2>1. ClientTurn(c, "find", NoPort, cTimeouts[c] + 1) /\ net' \subseteq net \cup Boots("other")
      BY <1>7 DEF FindTimeout, Boots
    <2>2. cTimeouts[c] + 1 \in 0 .. MaxTimeouts + 1
      BY <1>1, <1>7, ServerAssumption
    <2> QED BY <2>1, <2>2, <1>1, <1>2, <1>3, <1>4, TurnTyped
  <1> QED BY <1>5, <1>6, <1>7

LEMMA FetchTimeoutTyped ==
  ASSUME Typed, NEW c \in Clients, FetchTimeout(c)
  PROVE  Typed'
  <1>1. /\ cPort[c] \in Ports \cup {NoPort} /\ cTimeouts[c] \in 0 .. MaxTimeouts + 1
        /\ cBlock[c] \in 0 .. Restart - 2 /\ asks[c] \in Names
        /\ {} \in SUBSET Datagrams /\ {"fetch", "gaveup"} \subseteq Pcs
    BY Sizes DEF Typed, TypeOK, Pcs
  <1>2. cBlock' \in [Clients -> 0 .. Restart - 2] /\ cFile' \in [Clients -> Seq(1 .. length)]
    BY DEF FetchTimeout, NoData, Typed, TypeOK
  <1>3. CASE cTimeouts[c] > MaxTimeouts
    <2>1. ClientTurn(c, "gaveup", cPort[c], cTimeouts[c]) /\ net' \subseteq net \cup {}
      BY <1>3 DEF FetchTimeout
    <2> QED BY <2>1, <1>1, <1>2, TurnTyped
  <1>4. CASE ~(cTimeouts[c] > MaxTimeouts)
    <2> DEFINE n == IF cBlock[c] = 0 THEN Frq(c, cPort[c]) ELSE Error(c, cPort[c], cBlock[c])
    <2>1. ClientTurn(c, "fetch", cPort[c], cTimeouts[c] + 1) /\ net' = net \cup {n}
      BY <1>4 DEF FetchTimeout
    <2>2. cTimeouts[c] + 1 \in 0 .. MaxTimeouts + 1
      BY <1>1, <1>4, ServerAssumption
    <2>3. /\ 0 \in 0 .. Restart - 1 /\ 0 \in 0 .. PastEnd /\ "served" \in Names
          /\ cBlock[c] \in 0 .. Restart - 1 /\ cPort[c] \in Ports \cup {Elsewhere, NoPort}
      BY <1>1, Sizes DEF Typed
    <2>4. {"FRQ", "ERROR"} \subseteq {"BOOT", "REPLY", "FRQ", "DATA", "ACK", "ERROR"}
      OBVIOUS
    <2>5. /\ Frq(c, cPort[c]) \in Datagrams /\ Frq(c, cPort[c]).kind # "DATA"
          /\ Error(c, cPort[c], cBlock[c]) \in Datagrams
          /\ Error(c, cPort[c], cBlock[c]).kind # "DATA"
      BY <1>1, <2>3, <2>4, Mail, Fields DEF Frq, Error
    <2>6. {n} \in SUBSET Datagrams /\ \A m \in {n} : m.kind # "DATA"
      BY <2>5
    <2> HIDE DEF n
    <2> QED BY <2>1, <2>2, <2>6, <1>1, <1>2, TurnTyped
  <1> QED BY <1>3, <1>4

\* The parts of a datagram in flight.
LEMMA InFlight ==
  ASSUME Typed, NEW m \in net
  PROVE  /\ m \in Datagrams /\ m.client \in Clients
         /\ m.port \in Ports \cup {Elsewhere, NoPort}
         /\ m.name \in Names /\ m.block \in 0 .. Restart - 1 /\ m.part \in 0 .. PastEnd
         /\ m.kind = "DATA" => m.part \in 1 .. PastEnd
  <1>1. m \in Datagrams
    BY DEF Typed, TypeOK
  <1>2. /\ m.client \in Clients /\ m.port \in Ports \cup {Elsewhere, NoPort}
        /\ m.name \in Names /\ m.block \in 0 .. Restart - 1 /\ m.part \in 0 .. PastEnd
    BY <1>1 DEF Datagrams
  <1>3. m.kind = "DATA" => m.part \in 1 .. PastEnd
    BY <1>2, Sizes DEF Typed
  <1> QED BY <1>1, <1>2, <1>3

\* The answer of a client to m.
LEMMA AckMail ==
  ASSUME Typed, NEW c \in Clients, NEW m \in net, NEW b \in 0 .. Restart - 1
  PROVE  Ack(c, m.port, b) \in Datagrams /\ Ack(c, m.port, b).kind # "DATA"
  <1>1. 0 \in 0 .. PastEnd /\ "served" \in Names /\ m.port \in Ports \cup {Elsewhere, NoPort}
    BY InFlight, Sizes DEF Typed
  <1>2. "ACK" \in {"BOOT", "REPLY", "FRQ", "DATA", "ACK", "ERROR"}
    OBVIOUS
  <1> QED BY <1>1, <1>2, Mail, Fields DEF Ack

LEMMA FindReplyTyped ==
  ASSUME Typed, Good, NEW c \in Clients, NEW m \in net, FindReply(c, m)
  PROVE  Typed'
  <1>1. m.port \in Ports /\ asks[c] \in Names
    BY Sizes DEF Good, GoodMail, FindReply, Typed
  <1>2. cBlock' \in [Clients -> 0 .. Restart - 2] /\ cFile' \in [Clients -> Seq(1 .. length)]
    BY DEF FindReply, NoData, Typed, TypeOK
  <1>3. 0 \in 0 .. MaxTimeouts + 1 /\ 0 \in 0 .. Restart - 1 /\ 0 \in 0 .. PastEnd
    BY Sizes DEF Typed
  <1>4. "FRQ" \in {"BOOT", "REPLY", "FRQ", "DATA", "ACK", "ERROR"} /\ "fetch" \in Pcs
    BY DEF Pcs
  <1>5. Frq(c, m.port) \in Datagrams /\ Frq(c, m.port).kind # "DATA"
    BY <1>1, <1>3, <1>4, Mail, Fields DEF Frq
  <1>6. ClientTurn(c, "fetch", m.port, 0) /\ net' \subseteq net \cup {Frq(c, m.port)}
    BY DEF FindReply, Replace
  <1>7. {Frq(c, m.port)} \in SUBSET Datagrams /\ \A x \in {Frq(c, m.port)} : x.kind # "DATA"
    BY <1>5
  <1> QED BY <1>1, <1>2, <1>3, <1>4, <1>6, <1>7, TurnTyped

LEMMA FetchOldDataTyped ==
  ASSUME Typed, NEW c \in Clients, NEW m \in net, FetchOldData(c, m)
  PROVE  Typed'
  <1>1. cBlock' \in [Clients -> 0 .. Restart - 2] /\ cFile' \in [Clients -> Seq(1 .. length)]
    BY DEF FetchOldData, NoData, Typed, TypeOK
  <1>2. 0 \in 0 .. MaxTimeouts + 1 /\ "fetch" \in Pcs /\ cPort[c] \in Ports \cup {NoPort}
    BY Sizes DEF Typed, TypeOK, Pcs
  <1> DEFINE S == {Ack(c, m.port, m.block)}
  <1>3. S \in SUBSET Datagrams /\ \A x \in S : x.kind # "DATA"
    BY AckMail, InFlight
  <1>4. ClientTurn(c, "fetch", cPort[c], 0) /\ net' \subseteq net \cup S
    BY DEF FetchOldData, Replace
  <1> HIDE DEF S
  <1> QED BY <1>1, <1>2, <1>3, <1>4, TurnTyped

LEMMA FetchDataTyped ==
  ASSUME Typed, NEW c \in Clients, NEW m \in net, FetchData(c, m)
  PROVE  Typed'
  <1>1. m.part \in 1 .. PastEnd /\ m.block \in 0 .. Restart - 1 /\ m.block = cBlock[c] + 1
        /\ cBlock[c] \in 0 .. Restart - 2
    BY InFlight DEF FetchData, IsForFetch, Typed, TypeOK
  <1>2. cBlock' \in [Clients -> 0 .. Restart - 2]
    <2>1. (IF Short(m.part) THEN 0 ELSE IF m.block = Restart - 1 THEN 1 ELSE m.block)
             \in 0 .. Restart - 2
      BY <1>1, ServerAssumption
    <2>2. cBlock \in [Clients -> 0 .. Restart - 2]
      BY DEF Typed, TypeOK
    <2> QED BY <2>1, <2>2 DEF FetchData
  <1>3. cFile' \in [Clients -> Seq(1 .. length)]
    <2>1. cFile \in [Clients -> Seq(1 .. length)]
      BY DEF Typed, TypeOK
    <2>2. m.part # PastEnd => m.part \in 1 .. length
      BY <1>1, Sizes DEF Typed
    <2>3. cFile[c] \in Seq(1 .. length)
      BY <2>1
    <2>4. m.part # PastEnd => Append(cFile[c], m.part) \in Seq(1 .. length)
      BY <2>2, <2>3, AppendProperties
    <2>5. (IF m.part = PastEnd THEN cFile[c] ELSE Append(cFile[c], m.part)) \in Seq(1 .. length)
      BY <2>3, <2>4
    <2> QED BY <2>1, <2>5 DEF FetchData
  <1>4. 0 \in 0 .. MaxTimeouts + 1 /\ cPort[c] \in Ports \cup {NoPort}
        /\ (IF Short(m.part) THEN "finished" ELSE "fetch") \in Pcs
        /\ (IF Short(m.part) THEN 0 ELSE m.block) \in 0 .. Restart - 1
    BY <1>1, Sizes DEF Typed, TypeOK, Pcs
  <1> DEFINE S == {Ack(c, m.port, IF Short(m.part) THEN 0 ELSE m.block)}
  <1>5. S \in SUBSET Datagrams /\ \A x \in S : x.kind # "DATA"
    BY <1>4, AckMail
  <1>6. /\ ClientTurn(c, IF Short(m.part) THEN "finished" ELSE "fetch", cPort[c], 0)
        /\ net' \subseteq net \cup S
    BY DEF FetchData, Replace
  <1> HIDE DEF S
  <1> QED BY <1>2, <1>3, <1>4, <1>5, <1>6, TurnTyped

\* A child of the server, or one that has heard of a client, is still a child.
LEMMA Born ==
  ASSUME Typed, NEW st \in {"born", "wait", "serve"}, NEW p \in Ports \cup {Elsewhere},
         NEW c \in Clients, NEW t \in 0 .. 2
  PROVE  /\ Child(st, p, c, t) \in Kid
         /\ Child(st, p, c, t).st = st /\ Child(st, p, c, t).port = p
         /\ Child(st, p, c, t).peer = c
         /\ Child(st, p, c, t).block = 1 /\ Child(st, p, c, t).part = 1
  <1>1. 1 \in 1 .. Restart - 1 /\ 1 \in 1 .. PastEnd /\ 0 \in 0 .. MaxTimeouts + 1
    BY Sizes DEF Typed
  <1> QED BY <1>1 DEF Child, Kid

LEMMA HeardKid ==
  ASSUME Typed, NEW i \in Slots, child[i].st = "serve", NEW m \in net
  PROVE  /\ Heard(i, m) \in Kid /\ Heard(i, m).st = "serve"
         /\ Heard(i, m).port = child[i].port /\ Heard(i, m).peer = m.client
         /\ Heard(i, m).block = child[i].block /\ Heard(i, m).part = child[i].part
  <1>1. child[i] \in Kid
    BY Kids
  <1>2. m.client \in Clients /\ 0 \in 0 .. MaxTimeouts + 1
    BY InFlight, Sizes DEF Typed
  <1> DEFINE k == child[i]
             c == m.client
  <1>3. Heard(i, m) = [k EXCEPT !.peer = c, !.timeouts = 0, !.clock = 2]
    BY DEF Heard
  <1> HIDE DEF k, c
  <1>4. k \in Kid /\ c \in Clients
    BY <1>1, <1>2 DEF k, c
  <1>5. /\ Heard(i, m) \in Kid /\ Heard(i, m).st = k.st
        /\ Heard(i, m).port = k.port /\ Heard(i, m).peer = c
        /\ Heard(i, m).block = k.block /\ Heard(i, m).part = k.part
    <2>1. /\ k.st \in {"born", "wait", "serve"} /\ k.port \in Ports \cup {Elsewhere}
          /\ k.block \in 1 .. Restart - 1 /\ k.part \in 1 .. PastEnd /\ 2 \in 0 .. 2
      BY <1>4 DEF Kid
    <2>2. Heard(i, m) = [st |-> k.st, port |-> k.port, peer |-> c, timeouts |-> 0, clock |-> 2,
                         block |-> k.block, part |-> k.part]
      BY <1>3, <1>4 DEF Kid
    <2> QED BY <1>2, <1>4, <2>1, <2>2 DEF Kid
  <1> QED BY <1>1, <1>5 DEF k, c

\* What a child turns into when ACK m is for its block.
Next1(i, m) ==
    [Heard(i, m) EXCEPT !.block = IF m.block + 1 = Restart THEN 2 ELSE m.block + 1,
                        !.part = IF @ = PastEnd THEN PastEnd ELSE @ + 1]

LEMMA NextKid ==
  ASSUME Typed, NEW i \in Slots, child[i].st = "serve", NEW m \in net,
         m.block = child[i].block
  PROVE  /\ Next1(i, m) \in Kid /\ Next1(i, m).st = "serve"
         /\ Next1(i, m).port = child[i].port /\ Next1(i, m).peer = m.client
         /\ Next1(i, m).block = IF m.block + 1 = Restart THEN 2 ELSE m.block + 1
         /\ Next1(i, m).part = IF child[i].part = PastEnd THEN PastEnd ELSE child[i].part + 1
  <1> DEFINE h == Heard(i, m)
  <1>1. h \in Kid /\ h.block = m.block /\ h.part = child[i].part
        /\ h.st = "serve" /\ h.port = child[i].port /\ h.peer = m.client
    BY HeardKid
  <1>2. m.block \in 1 .. Restart - 1 /\ h.part \in 1 .. PastEnd
    BY <1>1 DEF Kid
  <1> DEFINE b == IF m.block + 1 = Restart THEN 2 ELSE m.block + 1
             q == IF h.part = PastEnd THEN PastEnd ELSE h.part + 1
  <1>3. b \in 1 .. Restart - 1 /\ q \in 1 .. PastEnd
    BY <1>2, Sizes DEF Typed
  <1>4. Next1(i, m) = [h EXCEPT !.block = b, !.part = q]
    BY DEF Next1
  <1> HIDE DEF h, b, q
  <1>5. Next1(i, m) \in Kid /\ Next1(i, m).st = h.st /\ Next1(i, m).port = h.port
        /\ Next1(i, m).peer = h.peer /\ Next1(i, m).block = b /\ Next1(i, m).part = q
    BY <1>1, <1>3, <1>4 DEF Kid
  <1> QED BY <1>1, <1>5 DEF b, q

LEMMA Rewound ==
  ASSUME NEW k \in Kid, NEW t \in 0 .. MaxTimeouts + 1, NEW x \in 0 .. 2,
         NEW st \in {"born", "wait", "serve"}
  PROVE  /\ [k EXCEPT !.timeouts = t] \in Kid
         /\ [k EXCEPT !.clock = x] \in Kid
         /\ [k EXCEPT !.st = st, !.clock = x] \in Kid
         /\ [k EXCEPT !.timeouts = t, !.clock = x] \in Kid
  BY DEF Kid

LEMMA ListenTyped ==
  ASSUME Typed, NEW m \in net, NEW port \in Ports \cup {Elsewhere}, NEW i \in Slots,
         Listen(m, port, i)
  PROVE  Typed'
  <1>1. m.client \in Clients /\ 0 \in 0 .. 2 /\ "born" \in {"born", "wait", "serve"}
    BY InFlight
  <1>2. Child("born", port, m.client, 0) \in Kid
    BY <1>1, Born
  <1> DEFINE ch == Child("born", port, m.client, 0)
             S == {Reply(m.client, port)}
  <1>3. /\ UNCHANGED <<setup, clientVars, losses>> /\ tempPort' \in Ports \cup {Elsewhere}
        /\ child' = [child EXCEPT ![i] = ch] /\ net' \subseteq net \cup S
    BY DEF Listen, Replace
  <1>4. restarted' \in BOOLEAN
    BY DEF Listen, Typed, TypeOK
  <1>5. S \in SUBSET Datagrams /\ \A x \in S : x.kind # "DATA"
    <2>1. "REPLY" \in {"BOOT", "REPLY", "FRQ", "DATA", "ACK", "ERROR"}
      OBVIOUS
    <2>2. 0 \in 0 .. Restart - 1 /\ 0 \in 0 .. PastEnd /\ "served" \in Names
      BY Sizes DEF Typed
    <2>3. Reply(m.client, port) \in Datagrams /\ Reply(m.client, port).kind # "DATA"
      BY <1>1, <2>1, <2>2, Mail, Fields DEF Reply
    <2> QED BY <2>3
  <1> HIDE DEF ch, S
  <1>6. ch \in {Free} \cup Kid
    BY <1>2 DEF ch
  <1> QED BY <1>3, <1>4, <1>5, <1>6, ChildTyped

\* A child's turn: its next state, and the DATA it may send.
LEMMA ChildTurnTyped ==
  ASSUME Typed, NEW i \in Slots, NEW ch \in {Free} \cup Kid, ChildTurn(i, ch),
         restarted' \in BOOLEAN,
         NEW k \in Kid, net' \subseteq net \cup {DataFrom(k)}
  PROVE  Typed'
  <1> DEFINE S == {DataFrom(k)}
  <1>1. /\ S \in SUBSET Datagrams /\ \A x \in S : x.kind = "DATA" => x.part # 0
        /\ net' \subseteq net \cup S
    BY DataMail
  <1> HIDE DEF S
  <1>2. /\ UNCHANGED <<setup, clientVars, losses>> /\ tempPort' \in Ports \cup {Elsewhere}
        /\ child' = [child EXCEPT ![i] = ch]
    BY DEF ChildTurn, Typed, TypeOK
  <1> QED BY <1>1, <1>2, ChildTyped

LEMMA ChildReceiveFrqTyped ==
  ASSUME Typed, NEW m \in net, NEW i \in Slots, ChildReceiveFrq(i, m)
  PROVE  Typed'
  <1>1. child[i] \in Kid /\ child[i].st = "wait" /\ m.port = child[i].port
    BY Kids DEF ChildReceiveFrq, ToChild
  <1>2. /\ m.port \in Ports \cup {Elsewhere} /\ m.client \in Clients /\ 2 \in 0 .. 2
        /\ {"wait", "serve"} \subseteq {"born", "wait", "serve"}
        /\ child[i].timeouts \in 0 .. MaxTimeouts + 1
    BY <1>1, InFlight DEF Kid
  <1> DEFINE c == Child("serve", m.port, m.client, 2)
             d == Child("wait", m.port, m.client, 2)
             e == [d EXCEPT !.timeouts = child[i].timeouts]
  <1>3. c \in Kid /\ d \in Kid
    BY <1>2, Born
  <1> HIDE DEF d
  <1>4. e \in Kid
    BY <1>2, <1>3 DEF Kid
  <1> HIDE DEF c, e
  <1>5. restarted' \in BOOLEAN
    BY DEF ChildReceiveFrq, NoRestart, Typed, TypeOK
  <1>6. CASE FrqPasses(m)
    <2>1. ChildTurn(i, c) /\ net' \subseteq net \cup {DataFrom(c)}
      BY <1>6 DEF ChildReceiveFrq, Replace, c
    <2> QED BY <2>1, <1>3, <1>5, ChildTurnTyped
  <1>7. CASE ~FrqPasses(m)
    <2>1. ChildTurn(i, e) /\ net' \subseteq net \cup {DataFrom(e)}
      BY <1>7 DEF ChildReceiveFrq, Replace, d, e
    <2> QED BY <2>1, <1>4, <1>5, ChildTurnTyped
  <1> QED BY <1>6, <1>7

LEMMA ServingTyped ==
  ASSUME Typed, NEW m \in net, NEW i \in Slots,
         \/ ChildIgnore(i, m) \/ ChildReceiveError(i, m)
         \/ ChildReceiveAck(i, m) \/ ChildReceiveFinalAck(i, m)
  PROVE  Typed'
  <1>1. child[i].st = "serve"
    BY DEF ChildIgnore, ChildReceiveError, ChildReceiveAck, ChildReceiveFinalAck
  <1>2. Heard(i, m) \in Kid /\ restarted \in BOOLEAN
    BY <1>1, HeardKid DEF Typed, TypeOK
  <1>3. CASE ChildIgnore(i, m)
    <2>1. ChildTurn(i, Heard(i, m)) /\ net' \subseteq net \cup {DataFrom(Heard(i, m))} /\ restarted' = restarted
      BY <1>3 DEF ChildIgnore, Replace, NoRestart
    <2> QED BY <2>1, <1>2, ChildTurnTyped
  <1>4. CASE ChildReceiveError(i, m)
    <2>1. /\ ChildTurn(i, Heard(i, m)) /\ net' \subseteq net \cup {DataFrom(Heard(i, m))}
          /\ restarted' = restarted
      BY <1>4 DEF ChildReceiveError, Replace, NoRestart
    <2> QED BY <2>1, <1>2, ChildTurnTyped
  <1>5. CASE ChildReceiveAck(i, m)
    <2>1. m.block = child[i].block
      BY <1>5 DEF ChildReceiveAck
    <2>2. Next1(i, m) \in Kid
      BY <1>1, <2>1, NextKid
    <2>3. /\ ChildTurn(i, Next1(i, m)) /\ net' \subseteq net \cup {DataFrom(Next1(i, m))}
          /\ restarted' = (restarted \/ m.block + 1 = Restart)
      BY <1>5 DEF ChildReceiveAck, Replace, Next1
    <2>4. restarted' \in BOOLEAN
      BY <2>3
    <2> QED BY <2>2, <2>3, <2>4, ChildTurnTyped
  <1>6. CASE ChildReceiveFinalAck(i, m)
    <2>1. ChildTurn(i, Free) /\ net' \subseteq net \cup {DataFrom(Heard(i, m))} /\ restarted' = restarted
      BY <1>6 DEF ChildReceiveFinalAck, Replace, NoRestart
    <2> QED BY <2>1, <1>2, ChildTurnTyped
  <1> QED BY <1>3, <1>4, <1>5, <1>6

LEMMA ChildAloneTyped ==
  ASSUME Typed, NEW i \in Slots, ChildBind(i) \/ ChildTimeout(i)
  PROVE  Typed'
  <1>1. child[i] \in Kid /\ restarted' \in BOOLEAN
    BY Kids DEF ChildBind, ChildTimeout, Bound, NoRestart, Typed, TypeOK
  <1>2. CASE ChildBind(i)
    <2> DEFINE k == [child[i] EXCEPT !.st = "wait", !.clock = 2]
               ch == IF child[i].port \in BoundPorts THEN Free ELSE k
    <2>1. k \in Kid
      <3>1. 0 \in 0 .. MaxTimeouts + 1 /\ 2 \in 0 .. 2 /\ "wait" \in {"born", "wait", "serve"}
        BY Sizes DEF Typed
      <3> QED BY <1>1, <3>1, Rewound
    <2>2. ChildTurn(i, ch) /\ net' \subseteq net \cup {DataFrom(child[i])}
      BY <1>2 DEF ChildBind
    <2> HIDE DEF k
    <2>3. ch \in {Free} \cup Kid
      BY <2>1
    <2> HIDE DEF ch
    <2> QED BY <2>2, <2>3, <1>1, ChildTurnTyped
  <1>3. CASE ChildTimeout(i) /\ child[i].timeouts > MaxTimeouts
    <2>1. ChildTurn(i, Free) /\ net' \subseteq net \cup {DataFrom(child[i])}
      BY <1>3 DEF ChildTimeout
    <2> QED BY <2>1, <1>1, ChildTurnTyped
  <1>4. CASE ChildTimeout(i) /\ ~(child[i].timeouts > MaxTimeouts)
    <2> DEFINE t == child[i].timeouts + 1
               k == [child[i] EXCEPT !.timeouts = t, !.clock = 2]
    <2>1. t \in 0 .. MaxTimeouts + 1 /\ 2 \in 0 .. 2
      BY <1>1, <1>4, ServerAssumption DEF Kid
    <2>2. ChildTurn(i, k) /\ net' \subseteq net \cup {DataFrom(child[i])}
      BY <1>4 DEF ChildTimeout
    <2> HIDE DEF t
    <2>3. k \in Kid
      BY <1>1, <2>1, Rewound
    <2> HIDE DEF k
    <2> QED BY <2>2, <2>3, <1>1, ChildTurnTyped
  <1> QED BY <1>2, <1>3, <1>4

LEMMA NetworkTyped ==
  ASSUME Typed, NEW m \in net, Drop(m) \/ Lose(m)
  PROVE  Typed'
  <1>1. /\ length' = length /\ asks' = asks /\ PastEnd' = PastEnd /\ child' = child
        /\ cPc' = cPc /\ cPort' = cPort /\ cTimeouts' = cTimeouts /\ cClock' = cClock
        /\ cBlock' = cBlock /\ cFile' = cFile /\ tempPort' = tempPort
        /\ restarted' = restarted
    BY DEF Drop, Lose, setup, clientVars, PastEnd
  <1>2. Datagrams' = Datagrams /\ Kid' = Kid
    BY <1>1 DEF Datagrams, Kid
  <1>3. net' \subseteq net /\ losses' \in 0 .. MaxLosses
    BY ServerAssumption DEF Drop, Lose, Replace, Typed, TypeOK
  <1>4. TypeOK'
    BY <1>1, <1>2, <1>3 DEF Typed, TypeOK
  <1> QED BY <1>1, <1>2, <1>3, <1>4 DEF Typed

LEMMA TickTyped ==
  ASSUME Typed, Tick
  PROVE  Typed'
  <1>1. /\ length' = length /\ asks' = asks /\ PastEnd' = PastEnd /\ net' = net
        /\ cPc' = cPc /\ cPort' = cPort /\ cTimeouts' = cTimeouts
        /\ cBlock' = cBlock /\ cFile' = cFile /\ tempPort' = tempPort
        /\ losses' = losses /\ restarted' = restarted
    BY DEF Tick, setup, PastEnd
  <1>2. Datagrams' = Datagrams /\ Kid' = Kid
    BY <1>1 DEF Datagrams, Kid
  <1>3. cClock' \in [Clients -> 0 .. 1]
    BY DEF Tick, Typed, TypeOK
  <1>4. child' \in [Slots -> {Free} \cup Kid]
    <2>1. ASSUME NEW i \in Slots, Bound(i)
          PROVE  [child[i] EXCEPT !.clock = @ - 1] \in Kid
      <3>1. child[i] \in Kid /\ child[i].clock > 0
        BY <2>1, Kids DEF Tick, Bound
      <3>2. child[i].clock - 1 \in 0 .. 2
        BY <3>1 DEF Kid
      <3> DEFINE k == child[i]
                 x == k.clock - 1
      <3>3. [child[i] EXCEPT !.clock = @ - 1] = [k EXCEPT !.clock = x]
        OBVIOUS
      <3> HIDE DEF k
      <3>4. k \in Kid /\ x \in 0 .. 2
        BY <3>1, <3>2 DEF k
      <3> HIDE DEF x
      <3>5. [k EXCEPT !.clock = x] \in Kid
        BY <3>4 DEF Kid
      <3> QED BY <3>3, <3>5
    <2>2. ASSUME NEW i \in Slots PROVE child[i] \in {Free} \cup Kid
      BY DEF Typed
    <2> QED BY <2>1, <2>2 DEF Tick
  <1>5. \A i \in Slots : child'[i] = Free \/ child'[i] \in Kid
    BY <1>4
  <1>6. TypeOK'
    BY <1>1, <1>2, <1>3, <1>5 DEF Typed, TypeOK, Kid
  <1> QED BY <1>1, <1>2, <1>4, <1>6 DEF Typed

LEMMA StepTyped == IInv /\ [Next]_vars => Typed'
  <1> SUFFICES ASSUME Typed, Good, [Next]_vars PROVE Typed'
    BY DEF IInv
  <1>1. ASSUME NEW c \in Clients, Broadcast(c) \/ FindTimeout(c) \/ FetchTimeout(c) PROVE Typed'
    BY <1>1, BroadcastTyped, FetchTimeoutTyped
  <1>2. ASSUME NEW c \in Clients, NEW m \in net,
               FindReply(c, m) \/ FetchOldData(c, m) \/ FetchData(c, m)
        PROVE  Typed'
    BY <1>2, FindReplyTyped, FetchOldDataTyped, FetchDataTyped
  <1>3. ASSUME NEW m \in net, NEW i \in Slots, NEW port \in Ports \cup {Elsewhere},
               Listen(m, port, i)
        PROVE  Typed'
    BY <1>3, ListenTyped
  <1>4. ASSUME NEW m \in net, NEW i \in Slots,
               \/ ChildReceiveFrq(i, m)
               \/ ChildIgnore(i, m) \/ ChildReceiveError(i, m)
               \/ ChildReceiveAck(i, m) \/ ChildReceiveFinalAck(i, m)
        PROVE  Typed'
    BY <1>4, ChildReceiveFrqTyped, ServingTyped
  <1>5. ASSUME NEW i \in Slots, ChildBind(i) \/ ChildTimeout(i) PROVE Typed'
    BY <1>5, ChildAloneTyped
  <1>6. ASSUME NEW m \in net, Drop(m) \/ Lose(m) PROVE Typed'
    BY <1>6, NetworkTyped
  <1>7. CASE Tick
    BY <1>7, TickTyped
  <1>8. CASE UNCHANGED vars
    BY <1>8 DEF vars, setup, clientVars, Typed, TypeOK, Kid, Datagrams, PastEnd
  <1> QED BY <1>1, <1>2, <1>3, <1>4, <1>5, <1>6, <1>7, <1>8 DEF Next, Step, Listening

-----------------------------------------------------------------------------
(* What every step does to the clients: ports and names stay, a client goes  *)
(* on fetching with the block it had or a later one, and no child's numbers  *)
(* come back from going round.  Everything that was good stays good.         *)

Onwards ==
    /\ length' = length /\ asks' = asks /\ (restarted => restarted')
    /\ \A c \in Clients :
          /\ cPort[c] # NoPort =>
                cPort'[c] = cPort[c] /\ (cPc'[c] = "fetch" => cPc[c] = "fetch")
          /\ length < Restart /\ cPc[c] = "fetch" /\ cPc'[c] = "fetch" =>
                cBlock[c] <= cBlock'[c]

LEMMA ServedStays ==
  ASSUME Onwards, NEW p, p # NoPort, Served(p)
  PROVE  Served(p)'
  BY DEF Onwards, Served

LEMMA AloneBefore ==
  ASSUME Onwards, NEW c \in Clients, cPort[c] \in Ports, Alone(c)'
  PROVE  Alone(c)
  <1>1. cPort[c] # NoPort
    BY ServerAssumption
  <1>2. cPc[c] = "fetch" /\ cPort'[c] = cPort[c]
    BY <1>1 DEF Onwards, Alone
  <1>3. ASSUME NEW d \in Clients, SharedBy(c, d)
        PROVE  SharedBy(c, d)'
    BY <1>3 DEF Onwards, SharedBy
  <1> QED BY <1>2, <1>3 DEF Alone

LEMMA ServesStays ==
  ASSUME Typed, Typed', Onwards, NEW c \in Clients, NEW p, NEW b \in Nat, NEW q,
         Serves(c, p, b, q)
  PROVE  Serves(c, p, b, q)'
  <1>1. p \in Ports /\ cPort[c] = p /\ cPort'[c] = p /\ Served(p)'
    BY ServedStays, ServerAssumption DEF Serves, Onwards
  <1>2. ASSUME length' < Restart
        PROVE  OnCourse(b, q)' /\ (Alone(c)' => b <= cBlock'[c] + 1 /\ q = b)
    <2>1. length' = length /\ OnCourse(b, q) /\ (Alone(c) => b <= cBlock[c] + 1 /\ q = b)
      BY <1>2 DEF Onwards, Serves
    <2>2. OnCourse(b, q)'
      BY <2>1 DEF Onwards, OnCourse, PastEnd
    <2>3. ASSUME Alone(c)'
          PROVE  b <= cBlock'[c] + 1 /\ q = b
      <3>1. Alone(c)
        BY <2>3, <1>1, AloneBefore
      <3>2. cBlock[c] <= cBlock'[c]
        BY <2>3, <3>1, <1>2, <2>1 DEF Alone, Onwards
      <3>3. cBlock[c] \in Nat /\ cBlock'[c] \in Nat
        BY DEF Typed, TypeOK
      <3> QED BY <2>1, <3>1, <3>2, <3>3
    <2> QED BY <2>2, <2>3
  <1> QED BY <1>1, <1>2 DEF Serves

LEMMA MailStays ==
  ASSUME Typed, Typed', Onwards, NEW m \in Datagrams, GoodMail(m)
  PROVE  GoodMail(m)'
  <1>1. m.client \in Clients /\ m.block \in Nat
    BY DEF Datagrams
  <1>2. m.kind \in {"FRQ", "ACK", "ERROR"} =>
           /\ m.port \in Ports /\ cPort[m.client] = m.port
           /\ cPort'[m.client] = m.port
    BY <1>1, ServerAssumption DEF GoodMail, Onwards
  <1>3. m.kind \in {"ACK", "ERROR"} => Served(m.port)'
    BY <1>2, ServedStays, ServerAssumption DEF GoodMail
  <1>4. m.kind = "DATA" => Serves(m.client, m.port, m.block, m.part)'
    BY <1>1, ServesStays DEF GoodMail
  <1>5. m.kind = "FRQ" => m.name = asks'[m.client]
    BY DEF GoodMail, Onwards
  <1>6. ASSUME m.kind = "ACK", length' < Restart, Alone(m.client)'
        PROVE  m.block <= cBlock'[m.client]
    <2>1. Alone(m.client) /\ length' = length
      BY <1>1, <1>2, <1>6, AloneBefore DEF Onwards
    <2>2. m.block <= cBlock[m.client] /\ cBlock[m.client] <= cBlock'[m.client]
      BY <2>1, <1>1, <1>6 DEF GoodMail, Onwards, Alone
    <2>3. cBlock[m.client] \in Nat /\ cBlock'[m.client] \in Nat
      BY <1>1 DEF Typed, TypeOK
    <2> QED BY <2>2, <2>3, <1>1
  <1> QED BY <1>2, <1>3, <1>4, <1>5, <1>6 DEF GoodMail

LEMMA ClientStays ==
  ASSUME Typed, Onwards, NEW c \in Clients, GoodClient(c),
         cPc'[c] = cPc[c], cPort'[c] = cPort[c], cBlock'[c] = cBlock[c], cFile'[c] = cFile[c]
  PROVE  GoodClient(c)'
  <1>1. length' = length
    BY DEF Onwards
  <1>2. cBlock[c] # 0 \/ cPc[c] = "finished" => cPort[c] \in Ports /\ Served(cPort[c])
    <2>1. cPc[c] \in {"idle", "find", "fetch", "finished", "gaveup", "notfound"}
      BY DEF Typed, TypeOK
    <2> QED BY <2>1 DEF GoodClient
  <1>3. cBlock'[c] # 0 \/ cPc'[c] = "finished" => Served(cPort[c])'
    <2> SUFFICES ASSUME cBlock[c] # 0 \/ cPc[c] = "finished" PROVE Served(cPort[c])'
      OBVIOUS
    <2>1. PICK p : p = cPort[c]
      OBVIOUS
    <2>2. Served(p)'
      BY <1>2, <2>1, ServedStays, ServerAssumption
    <2> QED BY <2>1, <2>2 DEF Served
  <1>4. length < Restart => GoodFile(c)'
    <2> SUFFICES ASSUME length < Restart PROVE GoodFile(c)'
      OBVIOUS
    <2>1. GoodFile(c)
      BY DEF GoodClient
    <2>2. \A d \in Clients : SharedBy(c, d) => SharedBy(c, d)'
      BY DEF SharedBy, Onwards
    <2> QED BY <1>1, <2>1, <2>2 DEF GoodFile, Onwards
  <1> QED BY <1>1, <1>3, <1>4 DEF GoodClient

-----------------------------------------------------------------------------
(* A step of one client, or of one child, that sends good datagrams.        *)

Others(c) ==
    \A d \in Clients : d # c =>
       /\ cPc'[d] = cPc[d] /\ cPort'[d] = cPort[d]
       /\ cBlock'[d] = cBlock[d] /\ cFile'[d] = cFile[d]

LEMMA ClientGood ==
  ASSUME Typed, Typed', Good, Onwards, child' = child, NEW c \in Clients, Others(c),
         GoodClient(c)', \A m \in net' \ net : GoodMail(m)'
  PROVE  Good'
  <1>1. \A d \in Clients : GoodClient(d)'
    BY ClientStays DEF Good, Others
  <1>2. ASSUME NEW m \in net' PROVE GoodMail(m)'
    <2>1. m \in net => m \in Datagrams /\ GoodMail(m)
      BY DEF Good, Typed, TypeOK
    <2> QED BY <1>2, <2>1, MailStays
  <1>3. ASSUME NEW i \in Slots, child[i].st = "serve" PROVE GoodChild(child[i])'
    <2>1. PICK k : k = child[i]
      OBVIOUS
    <2>2. k \in Kid /\ GoodChild(k)
      BY <1>3, <2>1, Kids DEF Good
    <2>3. k.peer \in Clients /\ k.block \in Nat
      BY <2>2 DEF Kid
    <2>4. Serves(k.peer, k.port, k.block, k.part)'
      BY <2>2, <2>3, ServesStays DEF GoodChild
    <2> QED BY <2>1, <2>4 DEF GoodChild, Serves, OnCourse
  <1> QED BY <1>1, <1>2, <1>3 DEF Good

LEMMA ChildGood ==
  ASSUME Typed, Typed', Good, Onwards, UNCHANGED <<cPc, cPort, cBlock, cFile>>,
         NEW i \in Slots, NEW ch, child' = [child EXCEPT ![i] = ch],
         ch.st = "serve" => GoodChild(ch)',
         \A m \in net' \ net : GoodMail(m)'
  PROVE  Good'
  <1>1. \A d \in Clients : GoodClient(d)'
    BY ClientStays DEF Good
  <1>2. ASSUME NEW m \in net' PROVE GoodMail(m)'
    <2>1. m \in net => m \in Datagrams /\ GoodMail(m)
      BY DEF Good, Typed, TypeOK
    <2> QED BY <1>2, <2>1, MailStays
  <1>3. ASSUME NEW j \in Slots, child'[j].st = "serve" PROVE GoodChild(child[j])'
    <2>1. PICK k : k = child'[j]
      OBVIOUS
    <2>2. j = i => k = ch
      BY <2>1 DEF Typed
    <2>3. j # i => k = child[j] /\ k \in Kid /\ GoodChild(k)
      <3>1. j # i => k = child[j]
        BY <2>1 DEF Typed
      <3> QED BY <1>3, <2>1, <3>1, Kids DEF Good
    <2>4. GoodChild(k)'
      <3>1. ASSUME j # i PROVE GoodChild(k)'
        <4>1. k.peer \in Clients /\ k.block \in Nat
          BY <2>3, <3>1 DEF Kid
        <4>2. Serves(k.peer, k.port, k.block, k.part)'
          BY <2>3, <3>1, <4>1, ServesStays DEF GoodChild
        <4> QED BY <4>2 DEF GoodChild
      <3> QED BY <1>3, <2>1, <2>2, <3>1
    <2> QED BY <2>1, <2>4 DEF GoodChild, Serves, OnCourse
  <1> QED BY <1>1, <1>2, <1>3 DEF Good

LEMMA TurnOnwards ==
  ASSUME Typed, Good, NEW c \in Clients, NEW pc \in Pcs, NEW port, NEW t,
         ClientTurn(c, pc, port, t),
         cPort[c] = NoPort \/ (cPort[c] = port /\ cPc[c] = "fetch"),
         \A d \in Clients : d # c => cBlock'[d] = cBlock[d] /\ cFile'[d] = cFile[d],
         length < Restart /\ cPc[c] = "fetch" /\ pc = "fetch" => cBlock[c] <= cBlock'[c]
  PROVE  /\ Onwards /\ Others(c) /\ child' = child
         /\ cPc'[c] = pc /\ cPort'[c] = port /\ restarted' = restarted
  <1>1. /\ length' = length /\ asks' = asks /\ child' = child /\ restarted' = restarted
    BY DEF ClientTurn, setup
  <1>2. cPc'[c] = pc /\ cPort'[c] = port
    BY DEF ClientTurn, Typed, TypeOK
  <1>3. \A d \in Clients : d # c => cPc'[d] = cPc[d] /\ cPort'[d] = cPort[d]
    BY DEF ClientTurn, Typed, TypeOK
  <1>4. Others(c)
    BY <1>3 DEF Others
  <1>5. \A d \in Clients : cBlock[d] \in Nat
    BY DEF Typed, TypeOK
  <1>6. ASSUME NEW d \in Clients, d = c, cPort[d] # NoPort
        PROVE  cPort'[d] = cPort[d] /\ (cPc'[d] = "fetch" => cPc[d] = "fetch")
    BY <1>2, <1>6
  <1>7. ASSUME NEW d \in Clients, d # c, cPort[d] # NoPort
        PROVE  cPort'[d] = cPort[d] /\ (cPc'[d] = "fetch" => cPc[d] = "fetch")
    BY <1>3, <1>7
  <1>8. ASSUME NEW d \in Clients, length < Restart, cPc[d] = "fetch", cPc'[d] = "fetch"
        PROVE  cBlock[d] <= cBlock'[d]
    BY <1>2, <1>5, <1>8
  <1>9. Onwards
    BY <1>1, <1>6, <1>7, <1>8 DEF Onwards
  <1> QED BY <1>1, <1>2, <1>4, <1>9

LEMMA BroadcastGood ==
  ASSUME Typed, Typed', Good, NEW c \in Clients, Broadcast(c) \/ FindTimeout(c)
  PROVE  Good'
  <1>1. cPc[c] \in {"idle", "find"} /\ cBlock' = cBlock /\ cFile' = cFile
    BY DEF Broadcast, FindTimeout, NoData
  <1>2. cPort[c] = NoPort /\ cBlock[c] = 0 /\ cFile[c] = <<>>
    BY <1>1 DEF Good, GoodClient
  <1>3. \E pc, t : pc \in {"find", "notfound"} /\ ClientTurn(c, pc, NoPort, t)
    BY DEF Broadcast, FindTimeout
  <1>4. PICK pc, t : pc \in {"find", "notfound"} /\ ClientTurn(c, pc, NoPort, t)
    BY <1>3
  <1>5. /\ Onwards /\ Others(c) /\ child' = child
        /\ cPc'[c] = pc /\ cPort'[c] = NoPort /\ restarted' = restarted
    BY <1>1, <1>2, <1>4, TurnOnwards DEF Pcs
  <1>6. GoodClient(c)'
    <2>1. length < Restart => GoodFile(c)'
      BY <1>1, <1>2, <1>4, <1>5 DEF GoodFile
    <2> QED BY <1>1, <1>2, <1>4, <1>5, <2>1 DEF GoodClient, Onwards
  <1>7. \E n \in Names : net' \subseteq net \cup {Boot(c, n)}
    BY Sizes DEF Broadcast, FindTimeout, Typed
  <1>8. PICK b : net' \subseteq net \cup {b} /\ b.kind = "BOOT"
    BY <1>7, Fields DEF Boot
  <1>9. \A m \in net' \ net : GoodMail(m)'
    <2>1. ASSUME NEW m \in net' \ net PROVE m.kind = "BOOT"
      BY <1>8
    <2> QED BY <2>1 DEF GoodMail
  <1> QED BY <1>5, <1>6, <1>9, ClientGood

LEMMA FetchTimeoutGood ==
  ASSUME Typed, Typed', Good, NEW c \in Clients, FetchTimeout(c)
  PROVE  Good'
  <1>1. cPc[c] = "fetch" /\ cBlock' = cBlock /\ cFile' = cFile /\ cBlock[c] \in Nat
    BY DEF FetchTimeout, NoData, Typed, TypeOK
  <1>2. /\ cPort[c] \in Ports /\ (cBlock[c] # 0 => Served(cPort[c]))
        /\ length < Restart => GoodFile(c)
    BY <1>1 DEF Good, GoodClient
  <1>3. PICK pc, t : pc \in {"fetch", "gaveup"} /\ ClientTurn(c, pc, cPort[c], t)
    BY DEF FetchTimeout
  <1>4. /\ Onwards /\ Others(c) /\ child' = child
        /\ cPc'[c] = pc /\ cPort'[c] = cPort[c] /\ restarted' = restarted
    BY <1>1, <1>3, TurnOnwards DEF Pcs
  <1>5. PICK p : p = cPort[c]
    OBVIOUS
  <1>6. cBlock[c] # 0 => Served(p)'
    BY <1>2, <1>4, <1>5, ServedStays, ServerAssumption
  <1>7. GoodClient(c)'
    <2>1. length < Restart => GoodFile(c)'
      BY <1>1, <1>2, <1>3, <1>4 DEF GoodFile, Onwards
    <2> QED BY <1>1, <1>2, <1>3, <1>4, <1>5, <1>6, <2>1 DEF GoodClient, Onwards, Served
  <1>8. PICK m : /\ net' \subseteq net \cup {m} /\ m.client = c /\ m.port = p
                 /\ \/ m.kind = "FRQ" /\ m.name = asks[c]
                    \/ m.kind = "ERROR" /\ cBlock[c] # 0
    <2>1. CASE net' \subseteq net \cup {Frq(c, cPort[c])}
      BY <2>1, <1>5, Fields DEF Frq
    <2>2. CASE cBlock[c] # 0 /\ net' \subseteq net \cup {Error(c, cPort[c], cBlock[c])}
      BY <2>2, <1>5, Fields DEF Error
    <2> QED BY <2>1, <2>2 DEF FetchTimeout
  <1>9. GoodMail(m)'
    BY <1>2, <1>4, <1>5, <1>6, <1>8 DEF GoodMail, Onwards
  <1>10. \A x \in net' \ net : GoodMail(x)'
    BY <1>8, <1>9
  <1> QED BY <1>4, <1>7, <1>10, ClientGood

LEMMA FindReplyGood ==
  ASSUME Typed, Typed', Good, NEW c \in Clients, NEW m \in net, FindReply(c, m)
  PROVE  Good'
  <1>1. cPc[c] = "find" /\ cBlock' = cBlock /\ cFile' = cFile /\ m.port \in Ports
    BY DEF FindReply, NoData, Good, GoodMail
  <1>2. cPort[c] = NoPort /\ cBlock[c] = 0 /\ cFile[c] = <<>>
    BY <1>1 DEF Good, GoodClient
  <1>3. ClientTurn(c, "fetch", m.port, 0)
    BY DEF FindReply
  <1>4. /\ Onwards /\ Others(c) /\ child' = child
        /\ cPc'[c] = "fetch" /\ cPort'[c] = m.port /\ restarted' = restarted
    BY <1>1, <1>2, <1>3, TurnOnwards DEF Pcs
  <1>5. GoodClient(c)'
    <2>1. length < Restart => GoodFile(c)'
      BY <1>1, <1>2, <1>4, Sizes DEF GoodFile, Typed, Onwards
    <2> QED BY <1>1, <1>2, <1>4, <2>1 DEF GoodClient, Onwards
  <1>6. PICK n : /\ net' \subseteq net \cup {n} /\ n.kind = "FRQ" /\ n.client = c
                 /\ n.port = m.port /\ n.name = asks[c]
    BY Fields DEF FindReply, Replace, Frq
  <1>7. GoodMail(n)'
    BY <1>1, <1>4, <1>6 DEF GoodMail, Onwards
  <1>8. \A x \in net' \ net : GoodMail(x)'
    BY <1>6, <1>7
  <1> QED BY <1>4, <1>5, <1>8, ClientGood

LEMMA FetchOldDataGood ==
  ASSUME Typed, Typed', Good, NEW c \in Clients, NEW m \in net, FetchOldData(c, m)
  PROVE  Good'
  <1>1. /\ cPc[c] = "fetch" /\ cBlock' = cBlock /\ cFile' = cFile /\ m.client = c
        /\ m.kind = "DATA" /\ m.block # cBlock[c] + 1
    BY DEF FetchOldData, IsForFetch, NoData
  <1>2. cBlock[c] \in Nat /\ m.block \in Nat
    BY InFlight DEF Typed, TypeOK
  <1>3. /\ cPort[c] \in Ports /\ (cBlock[c] # 0 => Served(cPort[c]))
        /\ length < Restart => GoodFile(c)
    BY <1>1 DEF Good, GoodClient
  <1>4. Serves(c, m.port, m.block, m.part)
    BY <1>1 DEF Good, GoodMail
  <1>5. ClientTurn(c, "fetch", cPort[c], 0)
    BY DEF FetchOldData
  <1>6. /\ Onwards /\ Others(c) /\ child' = child
        /\ cPc'[c] = "fetch" /\ cPort'[c] = cPort[c] /\ restarted' = restarted
    BY <1>1, <1>2, <1>5, TurnOnwards DEF Pcs
  <1>7. PICK p : p = cPort[c]
    OBVIOUS
  <1>8. m.port = p /\ Served(p) /\ Served(p)'
    BY <1>3, <1>4, <1>6, <1>7, ServedStays, ServerAssumption DEF Serves
  <1>9. GoodClient(c)'
    <2>1. length < Restart => GoodFile(c)'
      BY <1>1, <1>3, <1>6 DEF GoodFile, Onwards
    <2> QED BY <1>1, <1>3, <1>6, <1>7, <1>8, <2>1 DEF GoodClient, Onwards, Served
  <1>10. PICK n : /\ net' \subseteq net \cup {n} /\ n.kind = "ACK" /\ n.client = c
                  /\ n.port = p /\ n.block = m.block
    BY <1>8, Fields DEF FetchOldData, Replace, Ack
  <1>11. ASSUME length' < Restart, Alone(c)'
         PROVE  n.block <= cBlock'[c]
    <2>1. Alone(c) /\ length < Restart
      BY <1>3, <1>6, <1>11, AloneBefore DEF Onwards
    <2> QED BY <1>1, <1>2, <1>4, <1>10, <2>1 DEF Serves
  <1>12. GoodMail(n)'
    BY <1>3, <1>6, <1>7, <1>8, <1>10, <1>11 DEF GoodMail, Onwards
  <1>13. \A x \in net' \ net : GoodMail(x)'
    BY <1>10, <1>12
  <1> QED BY <1>6, <1>9, <1>13, ClientGood

\* To append part k to the parts before it leaves the beginning of the file.
LEMMA NextPart ==
  ASSUME NEW s, NEW S, s \in Seq(S), NEW k \in S, k = Len(s) + 1, s = [n \in 1 .. Len(s) |-> n]
  PROVE  /\ Append(s, k) = [n \in 1 .. Len(Append(s, k)) |-> n]
         /\ Len(Append(s, k)) = k
  <1> DEFINE t == Append(s, k)
  <1>1. /\ t \in Seq(S) /\ Len(t) = Len(s) + 1 /\ Len(s) \in Nat
        /\ t[Len(s) + 1] = k /\ \A n \in 1 .. Len(s) : t[n] = s[n]
    BY AppendProperties, LenProperties
  <1>2. \A n \in 1 .. Len(s) : s[n] = n
    OBVIOUS
  <1> HIDE DEF t
  <1>3. \A n \in 1 .. Len(t) : t[n] = n
    BY <1>1, <1>2
  <1>4. t = [n \in 1 .. Len(t) |-> t[n]]
    BY <1>1
  <1>5. t = [n \in 1 .. Len(t) |-> n]
    BY <1>3, <1>4
  <1> QED BY <1>1, <1>5 DEF t

LEMMA FetchDataGood ==
  ASSUME Typed, Typed', Good, NEW c \in Clients, NEW m \in net, FetchData(c, m)
  PROVE  Good'
  <1> DEFINE pc == IF Short(m.part) THEN "finished" ELSE "fetch"
             b  == IF Short(m.part) THEN 0 ELSE m.block
  <1>1. /\ cPc[c] = "fetch" /\ m.client = c /\ m.kind = "DATA" /\ m.block = cBlock[c] + 1
        /\ ClientTurn(c, pc, cPort[c], 0)
    BY DEF FetchData, IsForFetch
  <1>2. /\ cBlock[c] \in Nat /\ m.block \in Nat /\ m.part \in 1 .. PastEnd
        /\ cFile[c] \in Seq(1 .. length) /\ length \in Nat \ {0} /\ Restart \in Nat
        /\ PastEnd = length + 1
    <2>1. cBlock[c] \in Nat /\ cFile[c] \in Seq(1 .. length)
      BY ServerAssumption DEF Typed, TypeOK
    <2>2. m.block \in Nat /\ m.part \in 1 .. PastEnd
      BY <1>1, InFlight
    <2> QED BY <2>1, <2>2, Sizes DEF Typed
  <1>3. /\ cFile'[c] = IF m.part = PastEnd THEN cFile[c] ELSE Append(cFile[c], m.part)
        /\ cBlock'[c] = IF Short(m.part) THEN 0 ELSE IF m.block = Restart - 1 THEN 1 ELSE m.block
        /\ \A d \in Clients : d # c => cBlock'[d] = cBlock[d] /\ cFile'[d] = cFile[d]
    BY DEF FetchData, Typed, TypeOK
  <1>4. cPort[c] \in Ports /\ (length < Restart => GoodFile(c))
    BY <1>1 DEF Good, GoodClient
  <1>5. Serves(c, m.port, m.block, m.part)
    BY <1>1 DEF Good, GoodMail
  <1>6. ASSUME length < Restart, ~Short(m.part)
        PROVE  m.part = m.block /\ m.block < length /\ cBlock'[c] = m.block
    <2>1. OnCourse(m.block, m.part) /\ m.part < length
      BY <1>2, <1>5, <1>6 DEF Serves, Short
    <2>2. m.part = m.block
      BY <2>1, <1>2 DEF OnCourse
    <2> QED BY <2>1, <2>2, <1>2, <1>3, <1>6
  <1>7. /\ Onwards /\ Others(c) /\ child' = child
        /\ cPc'[c] = pc /\ cPort'[c] = cPort[c] /\ restarted' = restarted
    <2>1. pc \in Pcs
      BY DEF Pcs
    <2>2. length < Restart /\ pc = "fetch" => cBlock[c] <= cBlock'[c]
      BY <1>1, <1>2, <1>6
    <2> HIDE DEF pc
    <2> QED BY <1>1, <1>3, <2>1, <2>2, TurnOnwards
  <1>8. PICK p : p = cPort[c]
    OBVIOUS
  <1>9. m.port = p /\ p \in Ports /\ Served(p) /\ Served(p)'
    BY <1>4, <1>5, <1>7, <1>8, ServedStays, ServerAssumption DEF Serves
  <1>10. length < Restart => GoodFile(c)'
    <2> SUFFICES ASSUME length < Restart PROVE GoodFile(c)'
      OBVIOUS
    <2>1. /\ cFile[c] = [n \in 1 .. Len(cFile[c]) |-> n]
          /\ Len(cFile[c]) = cBlock[c] /\ cBlock[c] < length
      BY <1>1, <1>4 DEF GoodFile
    <2>2. OnCourse(m.block, m.part) /\ (Alone(c) => m.part = m.block)
      BY <1>5 DEF Serves
    <2>3. CASE m.part = PastEnd
      <3>1. Short(m.part) /\ cFile'[c] = cFile[c] /\ cPc'[c] = "finished"
        BY <2>3, <1>2, <1>3, <1>7 DEF Short
      <3>2. m.block # m.part /\ m.block <= length
        BY <2>1, <2>3, <1>1, <1>2
      <3>3. restarted /\ ~Alone(c)
        BY <2>2, <3>2, <1>2 DEF OnCourse
      <3>4. \E d \in Clients : SharedBy(c, d)
        BY <3>3, <1>1 DEF Alone
      <3>5. \E d \in Clients : SharedBy(c, d)'
        BY <3>4, <1>7 DEF SharedBy, Onwards
      <3> QED BY <2>1, <3>1, <3>3, <3>5, <1>7 DEF GoodFile
    <2>4. CASE m.part # PastEnd
      <3>1. m.part = m.block /\ m.part \in 1 .. length
        BY <2>2, <2>4, <1>2 DEF OnCourse
      <3>2. cFile'[c] = Append(cFile[c], m.part) /\ m.part = Len(cFile[c]) + 1
        BY <2>1, <2>4, <3>1, <1>1, <1>3
      <3>3. cFile'[c] = [n \in 1 .. Len(cFile'[c]) |-> n] /\ Len(cFile'[c]) = m.part
        BY <2>1, <3>1, <3>2, <1>2, NextPart
      <3>4. Short(m.part) => m.part = length /\ cPc'[c] = "finished"
        BY <3>1, <1>2, <1>7 DEF Short
      <3>5. ~Short(m.part) => cBlock'[c] = m.part /\ m.part < length /\ cPc'[c] = "fetch"
        BY <1>6, <1>7
      <3>6. length' = length
        BY <1>7 DEF Onwards
      <3> QED BY <3>3, <3>4, <3>5, <3>6 DEF GoodFile
    <2> QED BY <2>3, <2>4
  <1>11. GoodClient(c)'
    BY <1>7, <1>8, <1>9, <1>10 DEF GoodClient, Onwards, Served
  <1>12. PICK n : /\ net' \subseteq net \cup {n} /\ n.kind = "ACK" /\ n.client = c
                  /\ n.port = p /\ n.block = b
    <2>1. net' \subseteq net \cup {Ack(c, m.port, b)}
      BY DEF FetchData, Replace
    <2> HIDE DEF b
    <2> QED BY <1>9, <2>1, Fields DEF Ack
  <1>13. ASSUME length' < Restart, Alone(c)'
         PROVE  n.block <= cBlock'[c]
    <2>1. cPc'[c] = "fetch" /\ length < Restart
      BY <1>7, <1>13 DEF Alone, Onwards
    <2>2. ~Short(m.part)
      BY <2>1, <1>7
    <2> QED BY <2>1, <2>2, <1>2, <1>6, <1>12
  <1>14. GoodMail(n)'
    BY <1>7, <1>8, <1>9, <1>12, <1>13 DEF GoodMail, Onwards
  <1>15. \A x \in net' \ net : GoodMail(x)'
    BY <1>12, <1>14
  <1> QED BY <1>7, <1>11, <1>15, ClientGood

-----------------------------------------------------------------------------
(* A step of the server, of a child or of the network leaves the clients.   *)

LEMMA StillOnwards ==
  ASSUME Typed, UNCHANGED <<setup, cPc, cPort, cBlock, cFile>>, restarted => restarted'
  PROVE  Onwards
  <1>1. \A c \in Clients : cBlock[c] <= cBlock[c]
    BY DEF Typed, TypeOK
  <1> QED BY <1>1 DEF Onwards, setup

LEMMA ListenGood ==
  ASSUME Typed, Typed', Good, NEW m \in net, NEW port \in Ports \cup {Elsewhere},
         NEW i \in Slots, Listen(m, port, i)
  PROVE  Good'
  <1>1. /\ UNCHANGED <<setup, cPc, cPort, cBlock, cFile>> /\ restarted' = restarted
        /\ child' = [child EXCEPT ![i] = Child("born", port, m.client, 0)]
    BY DEF Listen, clientVars
  <1>2. Onwards
    BY <1>1, StillOnwards
  <1>3. Child("born", port, m.client, 0).st # "serve"
    BY DEF Child
  <1>4. PICK ch : ch.st # "serve" /\ child' = [child EXCEPT ![i] = ch]
    BY <1>1, <1>3
  <1>5. ASSUME NEW x \in net' \ net PROVE GoodMail(x)'
    <2>1. x = Reply(m.client, port) /\ port \in Ports
      BY <1>5 DEF Listen, Replace
    <2>2. x.kind = "REPLY" /\ x.port \in Ports
      BY <2>1, Fields DEF Reply
    <2> QED BY <2>2 DEF GoodMail
  <1> QED BY <1>1, <1>2, <1>4, <1>5, ChildGood

\* A child's turn: its next state ch, if it serves, and the DATA it may send,
\* which has the block of ch, are good ones.
LEMMA ChildTurnGood ==
  ASSUME Typed, Typed', Good, restarted => restarted',
         NEW i \in Slots, NEW ch, ChildTurn(i, ch), ch.st = "serve" => GoodChild(ch)',
         NEW k, net' \subseteq net \/ (GoodChild(k)' /\ net' \subseteq net \cup {DataFrom(k)})
  PROVE  Good'
  <1>1. /\ UNCHANGED <<setup, cPc, cPort, cBlock, cFile>>
        /\ child' = [child EXCEPT ![i] = ch]
    BY DEF ChildTurn, clientVars
  <1>2. Onwards
    BY <1>1, StillOnwards
  <1>3. ASSUME NEW x \in net' \ net PROVE GoodMail(x)'
    <2>1. x = DataFrom(k) /\ GoodChild(k)'
      BY <1>3
    <2>2. /\ x.kind = "DATA" /\ x.client = k.peer /\ x.port = k.port
          /\ x.block = k.block /\ x.part = k.part
      BY <2>1, Fields DEF DataFrom
    <2> QED BY <2>1, <2>2 DEF GoodMail, GoodChild
  <1> QED BY <1>1, <1>2, <1>3, ChildGood

\* A child that is good stays so when the clients stay.
LEMMA KidStays ==
  ASSUME Typed, Typed', UNCHANGED <<setup, cPc, cPort, cBlock, cFile>>,
         restarted => restarted', NEW ch \in Kid, GoodChild(ch)
  PROVE  GoodChild(ch)'
  <1>1. ch.peer \in Clients /\ ch.block \in Nat
    BY DEF Kid
  <1>2. Onwards
    BY StillOnwards
  <1> QED BY <1>1, <1>2, ServesStays DEF GoodChild

\* A serving child that hears of a client on its port is good with it as its
\* peer: a client that has the port for itself was its peer before.
LEMMA HeardGood ==
  ASSUME Typed, Good, NEW i \in Slots, child[i].st = "serve", NEW m \in net, ToChild(i, m)
  PROVE  /\ GoodChild(Heard(i, m))
         /\ Alone(m.client) => child[i].peer = m.client
  <1>1. child[i] \in Kid /\ GoodChild(child[i]) /\ m.client \in Clients
    BY Kids, InFlight DEF Good
  <1>2. m.port = child[i].port /\ cPort[m.client] = m.port
    BY DEF ToChild, Good, GoodMail
  <1>3. child[i].peer \in Clients /\ cPort[child[i].peer] = child[i].port
        /\ child[i].port \in Ports
    BY <1>1 DEF Kid, GoodChild, Serves
  <1>4. Alone(m.client) => child[i].peer = m.client
    BY <1>2, <1>3, ServerAssumption DEF Alone, SharedBy
  <1>5. Serves(m.client, child[i].port, child[i].block, child[i].part)
    BY <1>1, <1>2, <1>4 DEF GoodChild, Serves
  <1>6. GoodChild(Heard(i, m))
    BY <1>5, HeardKid DEF GoodChild
  <1> QED BY <1>4, <1>6

LEMMA ChildReceiveFrqGood ==
  ASSUME Typed, Typed', Good, NEW m \in net, NEW i \in Slots, ChildReceiveFrq(i, m)
  PROVE  Good'
  <1>1. child[i] \in Kid /\ m.port \in Ports \cup {Elsewhere} /\ m.client \in Clients
    <2>1. child[i] \in Kid /\ m.port = child[i].port
      BY Kids DEF ChildReceiveFrq, ToChild
    <2> QED BY <2>1, InFlight DEF Kid
  <1>2. restarted' = restarted /\ m.kind \in {"FRQ", "ACK", "ERROR"}
    BY DEF ChildReceiveFrq, NoRestart, ToChild
  <1>3. CASE FrqPasses(m)
    <2>1. m.port \in Ports /\ cPort[m.client] = m.port /\ Served(m.port)
      BY <1>1, <1>2, <1>3 DEF Good, GoodMail, FrqPasses, Served
    <2> DEFINE ch == Child("serve", m.port, m.client, 2)
    <2>2. ch \in Kid /\ ch.port = m.port /\ ch.peer = m.client /\ ch.block = 1 /\ ch.part = 1
      BY <1>1, Born
    <2>3. ChildTurn(i, ch) /\ net' \subseteq net \cup {DataFrom(ch)}
      BY <1>3 DEF ChildReceiveFrq, Replace
    <2> HIDE DEF ch
    <2>4. PICK k : k = ch
      OBVIOUS
    <2>5. 1 <= cBlock[m.client] + 1
      BY <1>1 DEF Typed, TypeOK
    <2>6. GoodChild(k)
      BY <2>1, <2>2, <2>4, <2>5 DEF GoodChild, Serves, OnCourse
    <2>7. UNCHANGED <<setup, cPc, cPort, cBlock, cFile>>
      BY <2>3 DEF ChildTurn, clientVars
    <2>8. GoodChild(k)'
      BY <2>2, <2>4, <2>6, <2>7, <1>2, KidStays
    <2> QED BY <2>3, <2>4, <2>8, <1>2, ChildTurnGood
  <1>4. CASE ~FrqPasses(m)
    <2> DEFINE d == Child("wait", m.port, m.client, 2)
               e == [d EXCEPT !.timeouts = child[i].timeouts]
    <2>1. ChildTurn(i, e) /\ net' \subseteq net
      BY <1>4 DEF ChildReceiveFrq, Replace
    <2>2. e.st # "serve"
      BY DEF Child
    <2> HIDE DEF e
    <2> QED BY <2>1, <2>2, <1>2, ChildTurnGood
  <1> QED BY <1>3, <1>4

LEMMA NextGood ==
  ASSUME Typed, Typed', Good, NEW m \in net, NEW i \in Slots, ChildReceiveAck(i, m),
         NEW n, n = Next1(i, m)
  PROVE  GoodChild(n)'
  <1>1. /\ child[i].st = "serve" /\ ToChild(i, m) /\ m.kind = "ACK" /\ m.block = child[i].block
        /\ restarted' = (restarted \/ m.block + 1 = Restart)
        /\ ChildTurn(i, Next1(i, m))
    BY DEF ChildReceiveAck, Next1
  <1>2. UNCHANGED <<setup, cPc, cPort, cBlock, cFile>>
    BY <1>1 DEF ChildTurn, clientVars
  <1>3. /\ child[i] \in Kid /\ m.client \in Clients /\ GoodChild(Heard(i, m))
    BY <1>1, Kids, InFlight, HeardGood
  <1>4. length < Restart /\ Alone(m.client) => m.block <= cBlock[m.client]
    BY <1>1 DEF Good, GoodMail
  <1>5. /\ m.block \in Nat /\ m.block < Restart /\ child[i].part \in 1 .. PastEnd
        /\ length \in Nat \ {0} /\ PastEnd = length + 1 /\ Restart \in Nat
        /\ cBlock[m.client] \in Nat
    <2>1. cBlock[m.client] \in Nat
      BY <1>3 DEF Typed, TypeOK
    <2>2. m.block \in 1 .. Restart - 1 /\ child[i].part \in 1 .. PastEnd
      BY <1>1, <1>3 DEF Kid
    <2> QED BY <2>1, <2>2, Sizes DEF Typed
  <1>6. PICK c, q : c \in Clients /\ c = m.client /\ q = child[i].part
    BY <1>3
  <1>7. /\ n.port = child[i].port /\ n.peer = c
        /\ n.block = IF m.block + 1 = Restart THEN 2 ELSE m.block + 1
        /\ n.part = IF q = PastEnd THEN PastEnd ELSE q + 1
    BY <1>1, <1>6, NextKid
  <1>8. Serves(c, n.port, m.block, q)
    BY <1>1, <1>3, <1>6, <1>7, HeardKid DEF GoodChild
  <1>9. ASSUME length < Restart PROVE OnCourse(n.block, n.part)'
    <2>1. OnCourse(m.block, q) /\ PastEnd' = PastEnd /\ length' = length
      BY <1>2, <1>8, <1>9 DEF Serves, PastEnd, setup
    <2>2. CASE q = PastEnd
      <3>1. n.part = PastEnd
        BY <2>2, <1>7
      <3>2. m.block > length \/ restarted
        BY <2>1, <2>2, <1>5 DEF OnCourse
      <3>3. n.block > length \/ restarted'
        <4>1. CASE m.block + 1 = Restart \/ restarted
          BY <4>1, <1>1
        <4>2. CASE m.block + 1 # Restart /\ m.block > length
          BY <4>2, <1>5, <1>7
        <4> QED BY <4>1, <4>2, <3>2
      <3> QED BY <2>1, <3>1, <3>3 DEF OnCourse
    <2>3. CASE q # PastEnd
      <3>1. q = m.block /\ q <= length /\ n.part = q + 1
        BY <2>1, <2>3, <1>5, <1>6, <1>7 DEF OnCourse
      <3>2. m.block + 1 = Restart => n.part = PastEnd
        BY <3>1, <1>5, <1>9
      <3>3. m.block + 1 = Restart => restarted'
        BY <1>1
      <3>4. m.block + 1 # Restart => n.part = n.block
        BY <3>1, <1>7
      <3> QED BY <2>1, <3>2, <3>3, <3>4 DEF OnCourse
    <2> QED BY <2>2, <2>3
  <1>10. ASSUME length < Restart, Alone(c)
         PROVE  n.block <= cBlock[c] + 1 /\ n.part = n.block
    <2>1. m.block <= cBlock[c] /\ cBlock[c] < length /\ q = m.block /\ cBlock[c] \in Nat
      BY <1>5, <1>4, <1>6, <1>8, <1>10 DEF Good, GoodClient, GoodFile, Alone, Serves
    <2>2. m.block + 1 # Restart /\ q # PastEnd
      BY <2>1, <1>5, <1>10
    <2>3. n.block = m.block + 1 /\ n.part = q + 1
      BY <2>2, <1>7
    <2> QED BY <2>1, <2>3, <1>5
  <1>11. Alone(c)' => Alone(c)
    BY <1>2 DEF Alone, SharedBy
  <1>12. /\ n.port \in Ports /\ cPort'[c] = n.port /\ Served(n.port)'
         /\ cBlock'[c] = cBlock[c] /\ length' = length
    BY <1>2, <1>8 DEF Serves, Served, setup
  <1>13. Serves(c, n.port, n.block, n.part)'
    BY <1>9, <1>10, <1>11, <1>12 DEF Serves
  <1> QED BY <1>7, <1>13 DEF GoodChild

LEMMA ServingGood ==
  ASSUME Typed, Typed', Good, NEW m \in net, NEW i \in Slots,
         \/ ChildIgnore(i, m) \/ ChildReceiveError(i, m)
         \/ ChildReceiveAck(i, m) \/ ChildReceiveFinalAck(i, m)
  PROVE  Good'
  <1>1. child[i].st = "serve" /\ ToChild(i, m)
    BY DEF ChildIgnore, ChildReceiveError, ChildReceiveAck, ChildReceiveFinalAck
  <1>2. UNCHANGED <<setup, cPc, cPort, cBlock, cFile>>
    BY DEF ChildIgnore, ChildReceiveError, ChildReceiveAck, ChildReceiveFinalAck,
           ChildTurn, clientVars
  <1>3. restarted => restarted'
    BY DEF ChildIgnore, ChildReceiveError, ChildReceiveAck, ChildReceiveFinalAck, NoRestart
  <1>4. PICK k : k = Heard(i, m)
    OBVIOUS
  <1>5. k \in Kid /\ GoodChild(k)
    BY <1>1, <1>4, HeardKid, HeardGood
  <1>6. GoodChild(k)'
    BY <1>2, <1>3, <1>5, KidStays
  <1>7. CASE ChildIgnore(i, m) \/ ChildReceiveError(i, m)
    <2>1. ChildTurn(i, k) /\ net' \subseteq net \cup {DataFrom(k)}
      BY <1>4, <1>7 DEF ChildIgnore, ChildReceiveError, Replace
    <2> QED BY <2>1, <1>3, <1>6, ChildTurnGood
  <1>8. CASE ChildReceiveAck(i, m)
    <2>1. PICK n : n = Next1(i, m)
      OBVIOUS
    <2>2. GoodChild(n)'
      BY <2>1, <1>8, NextGood
    <2>3. ChildTurn(i, n) /\ net' \subseteq net \cup {DataFrom(n)}
      BY <2>1, <1>8 DEF ChildReceiveAck, Replace, Next1
    <2> QED BY <2>2, <2>3, <1>3, ChildTurnGood
  <1>9. CASE ChildReceiveFinalAck(i, m)
    <2>1. ChildTurn(i, Free) /\ net' \subseteq net /\ Free.st # "serve"
      BY <1>9 DEF ChildReceiveFinalAck, Replace, Free
    <2> QED BY <2>1, <1>3, ChildTurnGood
  <1> QED BY <1>1, <1>7, <1>8, <1>9

LEMMA ChildAloneGood ==
  ASSUME Typed, Typed', Good, NEW i \in Slots, ChildBind(i) \/ ChildTimeout(i)
  PROVE  Good'
  <1>1. child[i] \in Kid /\ restarted' = restarted
    BY Kids DEF ChildBind, ChildTimeout, Bound, NoRestart
  <1>2. CASE ChildBind(i)
    <2> DEFINE ch == IF child[i].port \in BoundPorts THEN Free
                     ELSE [child[i] EXCEPT !.st = "wait", !.clock = 2]
    <2>1. ChildTurn(i, ch) /\ net' \subseteq net
      BY <1>2 DEF ChildBind
    <2>2. ch.st # "serve"
      BY <1>1 DEF Free, Kid
    <2> HIDE DEF ch
    <2> QED BY <2>1, <2>2, <1>1, ChildTurnGood
  <1>3. CASE ChildTimeout(i) /\ child[i].timeouts > MaxTimeouts
    <2>1. ChildTurn(i, Free) /\ net' \subseteq net /\ Free.st # "serve"
      BY <1>3 DEF ChildTimeout, Free
    <2> QED BY <2>1, <1>1, ChildTurnGood
  <1>4. CASE ChildTimeout(i) /\ ~(child[i].timeouts > MaxTimeouts)
    <2> DEFINE ch == [child[i] EXCEPT !.timeouts = @ + 1, !.clock = 2]
    <2>1. ChildTurn(i, ch)
      BY <1>4 DEF ChildTimeout
    <2>2. /\ ch.st = child[i].st /\ ch.port = child[i].port /\ ch.peer = child[i].peer
          /\ ch.block = child[i].block /\ ch.part = child[i].part
      BY <1>1 DEF Kid
    <2> HIDE DEF ch
    <2>3. PICK k : k = child[i]
      OBVIOUS
    <2>4. k.st = "serve" => GoodChild(k)'
      <3>1. k.st = "serve" => k \in Kid /\ GoodChild(k)
        BY <2>3, <1>1 DEF Good
      <3>2. UNCHANGED <<setup, cPc, cPort, cBlock, cFile>>
        BY <2>1 DEF ChildTurn, clientVars
      <3> QED BY <3>1, <3>2, <1>1, KidStays
    <2>5. PICK n : n = ch
      OBVIOUS
    <2>6. n.st = "serve" => GoodChild(n)'
      BY <2>2, <2>3, <2>4, <2>5 DEF GoodChild
    <2>7. net' \subseteq net \/ (GoodChild(k)' /\ net' \subseteq net \cup {DataFrom(k)})
      BY <1>4, <2>3, <2>4 DEF ChildTimeout
    <2>8. ChildTurn(i, n)
      BY <2>1, <2>5
    <2> QED BY <1>1, <2>6, <2>7, <2>8, ChildTurnGood
  <1> QED BY <1>2, <1>3, <1>4

LEMMA QuietGood ==
  ASSUME Typed, Typed', Good,
         UNCHANGED <<setup, cPc, cPort, cBlock, cFile, restarted>>, net' \subseteq net,
         \A i \in Slots : /\ child'[i].st = child[i].st
                          /\ child[i].st = "serve" =>
                                /\ child'[i].port = child[i].port
                                /\ child'[i].peer = child[i].peer
                                /\ child'[i].block = child[i].block
                                /\ child'[i].part = child[i].part
  PROVE  Good'
  <1>1. Onwards
    BY StillOnwards
  <1>2. \A d \in Clients : GoodClient(d)'
    BY <1>1, ClientStays DEF Good
  <1>3. \A m \in net' : GoodMail(m)'
    BY <1>1, MailStays DEF Good, Typed, TypeOK
  <1>4. ASSUME NEW i \in Slots, child'[i].st = "serve" PROVE GoodChild(child[i])'
    <2>1. PICK k : k = child[i]
      OBVIOUS
    <2>2. k \in Kid /\ GoodChild(k)
      BY <1>4, <2>1, Kids DEF Good
    <2>3. GoodChild(k)'
      BY <2>2, KidStays
    <2> QED BY <2>1, <2>3, <1>4 DEF GoodChild, Serves, OnCourse
  <1> QED BY <1>2, <1>3, <1>4 DEF Good

LEMMA TickGood ==
  ASSUME Typed, Typed', Good, Tick
  PROVE  Good'
  <1>1. UNCHANGED <<setup, cPc, cPort, cBlock, cFile, restarted>> /\ net' \subseteq net
    BY DEF Tick
  <1>2. ASSUME NEW i \in Slots
        PROVE  /\ child'[i].st = child[i].st
               /\ child[i].st = "serve" =>
                     /\ child'[i].port = child[i].port /\ child'[i].peer = child[i].peer
                     /\ child'[i].block = child[i].block /\ child'[i].part = child[i].part
    <2>1. child'[i] = IF Bound(i) THEN [child[i] EXCEPT !.clock = @ - 1] ELSE child[i]
      BY DEF Tick
    <2>2. Bound(i) => child[i] \in Kid
      BY Kids DEF Bound
    <2> QED BY <2>1, <2>2 DEF Kid
  <1> QED BY <1>1, <1>2, QuietGood

LEMMA StepGood == IInv /\ [Next]_vars => Good'
  <1> SUFFICES ASSUME Typed, Typed', Good, [Next]_vars PROVE Good'
    BY StepTyped DEF IInv
  <1>1. ASSUME NEW c \in Clients, Broadcast(c) \/ FindTimeout(c) \/ FetchTimeout(c) PROVE Good'
    BY <1>1, BroadcastGood, FetchTimeoutGood
  <1>2. ASSUME NEW c \in Clients, NEW m \in net,
               FindReply(c, m) \/ FetchOldData(c, m) \/ FetchData(c, m)
        PROVE  Good'
    BY <1>2, FindReplyGood, FetchOldDataGood, FetchDataGood
  <1>3. ASSUME NEW m \in net, NEW i \in Slots, NEW port \in Ports \cup {Elsewhere},
               Listen(m, port, i)
        PROVE  Good'
    BY <1>3, ListenGood
  <1>4. ASSUME NEW m \in net, NEW i \in Slots,
               \/ ChildReceiveFrq(i, m)
               \/ ChildIgnore(i, m) \/ ChildReceiveError(i, m)
               \/ ChildReceiveAck(i, m) \/ ChildReceiveFinalAck(i, m)
        PROVE  Good'
    BY <1>4, ChildReceiveFrqGood, ServingGood
  <1>5. ASSUME NEW i \in Slots, ChildBind(i) \/ ChildTimeout(i) PROVE Good'
    BY <1>5, ChildAloneGood
  <1>6. ASSUME NEW m \in net, Drop(m) \/ Lose(m) PROVE Good'
    <2>1. UNCHANGED <<setup, cPc, cPort, cBlock, cFile, restarted, child>> /\ net' \subseteq net
      BY <1>6 DEF Drop, Lose, Replace, clientVars
    <2> QED BY <2>1, QuietGood
  <1>7. CASE Tick
    BY <1>7, TickGood
  <1>8. CASE UNCHANGED vars
    BY <1>8, QuietGood DEF vars, clientVars
  <1> QED BY <1>1, <1>2, <1>3, <1>4, <1>5, <1>6, <1>7, <1>8 DEF Next, Step, Listening

-----------------------------------------------------------------------------
(* The theorems.                                                            *)

LEMMA Invariance == Spec => []IInv
  BY InitIInv, StepTyped, StepGood, PTL DEF Spec, IInv

\* A port in servaddr is one the server gives out, block numbers stay below
\* Restart and time-out counters within a step of their bound, for every client
\* and child (myftp.c: findServerAddr, startMyftpClient, startMyftpServer).
THEOREM TypesHold == Spec => []TypeOK
  <1>1. IInv => TypeOK
    BY DEF IInv, Typed
  <1> QED BY <1>1, Invariance, PTL

\* Whatever is lost, and however many clients share a port: a client whose FRQ,
\* cut off to the length of one with the served name, does not sum to 0 ends up
\* with a file only on a port that a client whose FRQ does was given too
\* (listenClient() compares no more than the served name has, and the request
\* loop of startMyftpServer() looks at nothing but the sum).
THEOREM WrongNameIsClash == Spec => []WrongNameNeedsClash
  <1>1. ASSUME IInv, NEW c \in Clients, cPc[c] = "finished", asks[c] \notin Passing
        PROVE  \E d \in Clients : SharedBy(c, d) /\ asks[d] \in Passing
    <2>1. cPort[c] \in Ports /\ Served(cPort[c])
      BY <1>1 DEF IInv, Good, GoodClient
    <2> QED BY <1>1, <2>1, ServerAssumption DEF Served, SharedBy
  <1>2. IInv => WrongNameNeedsClash
    BY <1>1 DEF WrongNameNeedsClash
  <1> QED BY <1>2, Invariance, PTL

\* Of a file shorter than a round of block numbers, what a client has written is
\* always the beginning, and a finished client with less than the whole has
\* shared its child, past the end of the file and round the block numbers
\* (the DATA handling of startMyftpClient(), the ACK handling of
\* startMyftpServer()).
THEOREM FilesAreWhole == Spec => []WholeUnlessRestarted
  <1>1. ASSUME IInv, length < Restart, NEW c \in Clients
        PROVE  GoodFile(c) /\ length \in Nat /\ Len(cFile[c]) \in Nat
    <2>1. GoodFile(c) /\ length \in Nat
      BY <1>1, Sizes DEF IInv, Good, GoodClient, Typed
    <2>2. cFile[c] \in Seq(1 .. length)
      BY <1>1 DEF IInv, Typed, TypeOK
    <2> QED BY <2>1, <2>2, LenProperties
  <1>2. ASSUME IInv, length < Restart, NEW c \in Clients, cPc[c] = "finished", Len(cFile[c]) < length
        PROVE  restarted /\ \E d \in Clients : SharedBy(c, d)
    <2>1. GoodFile(c) /\ length \in Nat /\ Len(cFile[c]) \in Nat
      BY <1>1, <1>2
    <2>2. Len(cFile[c]) # length
      BY <2>1, <1>2
    <2> QED BY <2>1, <2>2, <1>2 DEF GoodFile
  <1>3. IInv => WholeUnlessRestarted
    BY <1>1, <1>2 DEF WholeUnlessRestarted, GoodFile
  <1> QED BY <1>3, Invariance, PTL

-----------------------------------------------------------------------------
(* While nothing is lost, nobody waits for anything that is not on its way.  *)
(* A child that serves and its client pass one datagram between them, and no *)
(* second passes before they have finished, however many clients send it     *)
(* their requests; so a client that has a port to itself is served within    *)
(* a second or, if its first FRQ came before bind(), within the next.        *)

\* A datagram that is part of an exchange: all but a request nobody answers.
Carries(m) == m.kind = "BOOT" => Matches(m.name)

Sought(m) == m.kind = "REPLY" \/ (m.kind = "BOOT" /\ Matches(m.name))
Talk(m) == m.kind \in {"ACK", "ERROR", "DATA"}

\* The client's block after it has written the child's.
Held(b) == IF b = Restart - 1 THEN 1 ELSE b

\* Datagram m is the one exchange of a serving child: its block for a client that waits for
\* it, the ACK of its block, or the last ACK.
InTurn(ch, m) ==
    /\ ch.st = "serve" /\ m.port = ch.port /\ ch.part <= length
    /\ \/ /\ m.kind = "DATA" /\ m.block = ch.block /\ m.part = ch.part
          /\ cPc[m.client] = "fetch" /\ cBlock[m.client] + 1 = ch.block /\ cClock[m.client] = 1
       \/ /\ m.kind = "ACK" /\ m.block = ch.block /\ ch.part < length
          /\ cPc[m.client] = "fetch" /\ cBlock[m.client] = Held(ch.block) /\ cClock[m.client] = 1
       \/ m.kind = "ACK" /\ m.block = 0 /\ cPc[m.client] = "finished"

OnTime(m) ==
    /\ Sought(m) => cPc[m.client] = "find" /\ cClock[m.client] = 1
    /\ m.kind = "FRQ" => cPc[m.client] = "fetch" /\ cBlock[m.client] = 0 /\ cClock[m.client] = 1
    /\ Talk(m) => \E i \in Slots : InTurn(child[i], m)

\* The children: one at most has a port, and none has read on that does not serve.
OneBound == \A i, j \in Slots : Bound(i) /\ Bound(j) /\ child[i].port = child[j].port => i = j
NotBegun == \A i \in Slots : child[i].st \in {"born", "wait"} => child[i].part = 1

\* The datagrams: each in its turn, and one at most of each client and child.
InTime == \A m \in net : OnTime(m)
Single == \A m, x \in net : Carries(m) /\ Carries(x) /\ m.client = x.client => m = x
OneToken == \A m, x \in net : Talk(m) /\ Talk(x) /\ m.port = x.port => m = x

\* A serving child, and a client that has the first block, wait for the one in flight.
Kept == \A i \in Slots :
    child[i].st = "serve" => child[i].clock = 2 /\ \E m \in net : InTurn(child[i], m)
Going == \A c \in Clients :
    cPc[c] = "fetch" /\ cBlock[c] # 0 =>
        cClock[c] = 1 /\ \E m \in net : Talk(m) /\ m.client = c

\* A port in use was given to somebody.
GivenTo(c, p) == cPort[c] = p \/ \E m \in net : m.kind = "REPLY" /\ m.client = c /\ m.port = p
Known(p) == p \in Ports => \E c \in Clients : GivenTo(c, p)
Given ==
    /\ Known(tempPort)
    /\ \A i \in Slots : child[i].st # "free" => Known(child[i].port)

\* Client c, alone with port p, has not got its file yet.
Wants(c, p) ==
    /\ asks[c] \in Passing /\ p \in Ports /\ GivenTo(c, p)
    /\ cPc[c] \in {"find", "fetch"}
    /\ \A d \in Clients \ {c} : ~GivenTo(d, p)

\* It is served; or has been given the port within this second, in which its child
\* binds the port; or asks again, when the child waits.
AtServe(p) == \E i \in Slots : child[i].st = "serve" /\ child[i].port = p
AtFirst(c, p) ==
    /\ \/ \E m \in net : m.kind = "REPLY" /\ m.client = c /\ m.port = p
       \/ cPc[c] = "fetch" /\ cPort[c] = p /\ cClock[c] = 1 /\ cTimeouts[c] = 0
    /\ \E i \in Slots : child[i].st \in {"born", "wait"} /\ child[i].port = p
    /\ \A i \in Slots : child[i].st = "wait" /\ child[i].port = p => child[i].clock = 2
AtSecond(c, p) ==
    /\ cPc[c] = "fetch"
    /\ \/ cClock[c] = 0 /\ cTimeouts[c] = 0
       \/ cClock[c] = 1 /\ \E m \in net : m.kind = "FRQ" /\ m.client = c
    /\ \E i \in Slots : child[i].st = "wait" /\ child[i].port = p /\ child[i].clock = 1
Minded(c, p) == Wants(c, p) => AtServe(p) \/ AtFirst(c, p) \/ AtSecond(c, p)
Attended == \A c \in Clients, p \in Ports : Minded(c, p)

\* A second time-out in a row, or giving up, is a sign of a clash.
Excused(c) ==
    /\ asks[c] \in Passing
    /\ cPc[c] = "gaveup" \/ (cPc[c] = "fetch" /\ cTimeouts[c] > 0 /\ cClock[c] = 0)
    => \E d \in Clients : SharedBy(c, d)
LateByClash == \A c \in Clients : Excused(c)

Quick ==
    /\ OneBound /\ NotBegun
    /\ InTime /\ Single /\ OneToken
    /\ Kept /\ Going /\ Given
    /\ Attended /\ LateByClash

-----------------------------------------------------------------------------
LEMMA InitQuick == Init => Quick
  <1> SUFFICES ASSUME Init PROVE Quick
    OBVIOUS
  <1>1. /\ net = {} /\ \A i \in Slots : child[i] = Free /\ child[i].st = "free"
        /\ \A c \in Clients : cPc[c] = "idle" /\ cPort[c] = NoPort
        /\ tempPort \notin Ports
    BY ServerAssumption DEF Init, Free
  <1>2. OneBound /\ NotBegun /\ InTime /\ Single /\ OneToken /\ Kept /\ Going
    BY <1>1 DEF OneBound, NotBegun, InTime, Single, OneToken, Kept, Going, Bound
  <1>3. Given /\ LateByClash
    BY <1>1 DEF Given, Known, LateByClash, Excused
  <1>4. Attended
    BY <1>1 DEF Attended, Minded, Wants
  <1> QED BY <1>2, <1>3, <1>4 DEF Quick

\* A datagram of a transfer has a serving child, whose port its client has.
LEMMA Token ==
  ASSUME IInv, Quick, NEW m \in net, Talk(m)
  PROVE  \E i \in Slots :
            /\ InTurn(child[i], m) /\ Bound(i) /\ child[i] \in Kid /\ child[i].st = "serve"
            /\ m.port = child[i].port /\ m.port \in Ports /\ cPort[m.client] = m.port
            /\ m.client \in Clients /\ m.kind # "ERROR"
  <1>1. PICK i \in Slots : InTurn(child[i], m)
    BY DEF Quick, InTime, OnTime
  <1>2. child[i].st = "serve" /\ m.port = child[i].port /\ m.kind # "ERROR"
    BY <1>1 DEF InTurn
  <1>3. child[i] \in Kid /\ m.client \in Clients
    BY <1>2, Kids, InFlight DEF IInv
  <1>4. m.port \in Ports /\ cPort[m.client] = m.port
    BY DEF Talk, IInv, Good, GoodMail, Serves
  <1> QED BY <1>1, <1>2, <1>3, <1>4 DEF Bound
LEMMA StillGiven ==
  ASSUME Given, tempPort' = tempPort,
         \A c \in Clients, p \in Ports : GivenTo(c, p) => GivenTo(c, p)',
         \A i \in Slots : child'[i].st # "free" =>
            child[i].st # "free" /\ child'[i].port = child[i].port
  PROVE  Given'
  <1>1. ASSUME NEW p, Known(p)
        PROVE  Known(p)'
    BY <1>1 DEF Known
  <1>2. PICK t : t = tempPort
    OBVIOUS
  <1>3. Known(tempPort)'
    <2>1. Known(t)'
      BY <1>1, <1>2 DEF Given
    <2> QED BY <2>1, <1>2 DEF Known, GivenTo
  <1>4. ASSUME NEW i \in Slots, child'[i].st # "free"
        PROVE  Known(child[i].port)'
    <2>1. PICK q : q = child[i].port
      OBVIOUS
    <2>2. Known(q)' /\ child'[i].port = q
      BY <1>1, <1>4, <2>1 DEF Given
    <2> QED BY <2>2 DEF Known, GivenTo
  <1> QED BY <1>3, <1>4 DEF Given

\* While a child serves, a datagram is in flight; time passes only when none is.
LEMMA Lull ==
  ASSUME IInv, Quick, Tick
  PROVE  net = {} /\ \A i \in Slots : child[i].st \notin {"born", "serve"}
  <1>1. ASSUME NEW i \in Slots, Bound(i), child[i].part = PastEnd
        PROVE  FALSE
    <2>1. length \in Nat \ {0} /\ PastEnd = length + 1
      BY Sizes DEF IInv, Typed
    <2>2. CASE child[i].st = "wait"
      BY <2>1, <2>2, <1>1 DEF Quick, NotBegun
    <2>3. CASE child[i].st = "serve"
      BY <2>1, <2>3, <1>1 DEF Quick, Kept, InTurn
    <2> QED BY <2>2, <2>3, <1>1 DEF Bound
  <1>2. net = {}
    BY <1>1 DEF Tick, Endless
  <1>3. \A i \in Slots : child[i].st \notin {"born", "serve"}
    BY <1>2 DEF Tick, Quick, Kept
  <1> QED BY <1>2, <1>3

LEMMA TickQuick ==
  ASSUME IInv, Quick, Tick
  PROVE  Quick'
  <1>1. /\ net = {} /\ net' = {} /\ \A i \in Slots : child[i].st \notin {"born", "serve"}
        /\ UNCHANGED <<asks, cPc, cPort, cTimeouts, cBlock, tempPort>>
    BY Lull DEF Tick, setup
  <1>2. ASSUME NEW i \in Slots
        PROVE  /\ child'[i].st = child[i].st
               /\ Bound(i) => /\ child'[i].port = child[i].port /\ child'[i].part = child[i].part
                              /\ child[i].clock \in Nat \ {0} /\ child'[i].clock = child[i].clock - 1
               /\ ~Bound(i) => child'[i] = child[i]
    <2>1. child'[i] = IF Bound(i) THEN [child[i] EXCEPT !.clock = @ - 1] ELSE child[i]
      BY DEF Tick
    <2>2. Bound(i) => child[i] \in Kid /\ child[i].clock > 0
      BY Kids DEF Bound, IInv, Tick
    <2> QED BY <2>1, <2>2 DEF Kid
  <1>3. \A i \in Slots : Bound(i)' <=> Bound(i)
    BY <1>2 DEF Bound
  <1>4. OneBound' /\ NotBegun'
    BY <1>1, <1>2, <1>3 DEF Quick, OneBound, NotBegun, Bound
  <1>5. InTime' /\ Single' /\ OneToken' /\ Kept'
    BY <1>1, <1>2 DEF InTime, Single, OneToken, Kept
  <1>6. \A c \in Clients : ~(cPc[c] = "fetch" /\ cBlock[c] # 0)
    BY <1>1 DEF Quick, Going
  <1>7. Going'
    BY <1>1, <1>6 DEF Going
  <1>8. \A c, p : GivenTo(c, p)' <=> GivenTo(c, p)
    BY <1>1 DEF GivenTo
  <1>9. Given'
    <2>1. ASSUME NEW i \in Slots, child'[i].st # "free"
          PROVE  child[i].st # "free" /\ child'[i].port = child[i].port
      BY <1>2, <2>1
    <2> QED BY <2>1, <1>1, <1>8, StillGiven DEF Quick
  <1>10. ASSUME NEW c \in Clients, NEW p \in Ports, Wants(c, p)
         PROVE  /\ cPort[c] = p /\ cPc[c] = "fetch" /\ cClock[c] = 1 /\ cTimeouts[c] = 0
                /\ \E i \in Slots : /\ child[i].st = "wait" /\ child[i].port = p
                                    /\ child[i].clock = 2
    <2>1. AtServe(p) \/ AtFirst(c, p) \/ AtSecond(c, p)
      BY <1>10 DEF Quick, Attended, Minded
    <2>2. ~AtServe(p)
      BY <1>1 DEF AtServe
    <2>3. ~AtSecond(c, p)
      BY <1>1 DEF AtSecond, Tick, Waiting, IInv, Typed, TypeOK
    <2>4. AtFirst(c, p)
      BY <2>1, <2>2, <2>3
    <2> QED BY <1>1, <2>4 DEF AtFirst
  <1>11. ASSUME NEW c \in Clients
         PROVE  cClock'[c] = IF Waiting(c) THEN cClock[c] - 1 ELSE cClock[c]
    BY <1>11 DEF Tick
  <1>12. Attended'
    <2> SUFFICES ASSUME NEW c \in Clients, NEW p \in Ports, Wants(c, p)'
                 PROVE  AtSecond(c, p)'
      BY DEF Attended, Minded
    <2>1. Wants(c, p)
      BY <1>1, <1>8 DEF Wants
    <2>2. cPc[c] = "fetch" /\ cClock'[c] = 0 /\ cTimeouts[c] = 0
      BY <2>1, <1>10, <1>11 DEF Waiting
    <2>3. PICK i \in Slots : child[i].st = "wait" /\ child[i].port = p /\ child[i].clock = 2
      BY <2>1, <1>10
    <2>4. child'[i].st = "wait" /\ child'[i].port = p /\ child'[i].clock = 1
      BY <2>3, <1>2 DEF Bound
    <2> QED BY <1>1, <2>2, <2>4 DEF AtSecond
  <1>13. LateByClash'
    <2> SUFFICES ASSUME NEW c \in Clients, asks[c] \in Passing,
                        cPc[c] = "gaveup" \/ (cPc[c] = "fetch" /\ cTimeouts[c] > 0)
                 PROVE  \E d \in Clients : SharedBy(c, d)
      BY <1>1 DEF LateByClash, Excused, SharedBy
    <2>1. CASE cPc[c] = "gaveup"
      BY <2>1 DEF Quick, LateByClash, Excused
    <2>2. CASE cPc[c] = "fetch" /\ cTimeouts[c] > 0
      <3>1. cPort[c] \in Ports
        BY <2>2 DEF IInv, Good, GoodClient
      <3>2. ~Wants(c, cPort[c])
        BY <2>2, <3>1, <1>10
      <3>3. PICK d \in Clients \ {c} : GivenTo(d, cPort[c])
        BY <2>2, <3>1, <3>2 DEF Wants, GivenTo
      <3> QED BY <3>1, <3>3, <1>1, ServerAssumption DEF GivenTo, SharedBy
    <2> QED BY <2>1, <2>2
  <1> QED BY <1>4, <1>5, <1>7, <1>9, <1>12, <1>13 DEF Quick
-----------------------------------------------------------------------------
(* A client's turn.                                                        *)

\* Child i goes on with the same block.
Goes(i) == /\ child'[i].st = child[i].st /\ child'[i].port = child[i].port
           /\ child'[i].block = child[i].block /\ child'[i].part = child[i].part

\* Client c is where it was.
Stays(c) == cPc'[c] = cPc[c] /\ cClock'[c] = cClock[c] /\ cBlock'[c] = cBlock[c]

LEMMA StillInTurn ==
  ASSUME NEW i \in Slots, NEW m, InTurn(child[i], m), length' = length, Goes(i),
         Stays(m.client)
  PROVE  InTurn(child[i], m)'
  BY DEF InTurn, Goes, Stays

LEMMA StillOnTime ==
  ASSUME NEW m, OnTime(m), length' = length, Stays(m.client),
         \A i \in Slots : child[i].st = "serve" => Goes(i)
  PROVE  OnTime(m)'
  <1>1. Talk(m) => \E i \in Slots : InTurn(child[i], m)'
    BY StillInTurn DEF OnTime, InTurn
  <1> QED BY <1>1 DEF OnTime, Stays

\* Nothing is on its way to or from a client that is idle or times out.
LEMMA NoMail ==
  ASSUME IInv, Quick, NEW c \in Clients,
         cPc[c] = "idle" \/ (cPc[c] \in {"find", "fetch"} /\ cClock[c] = 0)
  PROVE  /\ \A m \in net : Carries(m) => m.client # c
         /\ cPc[c] = "fetch" => cBlock[c] = 0
  <1>1. ASSUME NEW m \in net, Carries(m), m.client = c
        PROVE  FALSE
    <2>1. OnTime(m)
      BY DEF Quick, InTime
    <2>2. m.kind \in {"BOOT", "REPLY", "FRQ", "DATA", "ACK", "ERROR"}
      BY InFlight DEF IInv, Datagrams
    <2>3. Sought(m) \/ m.kind = "FRQ" \/ Talk(m)
      BY <1>1, <2>2 DEF Carries, Sought, Talk
    <2>4. CASE Talk(m)
      BY <2>1, <2>4, <1>1 DEF OnTime, InTurn
    <2> QED BY <2>1, <2>3, <2>4, <1>1 DEF OnTime
  <1>2. cPc[c] = "fetch" => cBlock[c] = 0
    BY DEF Quick, Going
  <1> QED BY <1>1, <1>2

LEMMA TurnQuick ==
  ASSUME IInv, Quick, NEW c \in Clients, NEW pc, NEW t, ClientTurn(c, pc, cPort[c], t), NoData,
         \A m \in net : Carries(m) => m.client # c,
         cPc[c] = "fetch" \/ pc # "fetch", cPc[c] = "fetch" => cBlock[c] = 0,
         NEW S, net' = net \cup S,
         \A m \in S : ~Talk(m) /\ m.kind # "REPLY" /\ m.client = c /\ OnTime(m)',
         \A m, x \in S : m = x
  PROVE  /\ OneBound' /\ NotBegun' /\ InTime' /\ Single' /\ OneToken' /\ Kept' /\ Going' /\ Given'
         /\ \A d, p : GivenTo(d, p)' <=> GivenTo(d, p)
         /\ \A d \in Clients \ {c}, p \in Ports : Minded(d, p)'
         /\ \A d \in Clients \ {c} : Excused(d)'
  <1>1. /\ cPort' = cPort /\ cBlock' = cBlock /\ UNCHANGED <<length, asks, tempPort, child>>
        /\ \A d \in Clients \ {c} : Stays(d) /\ cTimeouts'[d] = cTimeouts[d]
        /\ cPc'[c] = pc
    BY DEF ClientTurn, setup, NoData, Stays, IInv, Typed, TypeOK
  <1>2. OneBound' /\ NotBegun'
    BY <1>1 DEF Quick, OneBound, NotBegun, Bound
  <1>3. \A i \in Slots : Goes(i)
    BY <1>1 DEF Goes
  <1>4. \A m \in net : m.client \in Clients /\ (Carries(m) => Stays(m.client))
    BY <1>1, InFlight DEF IInv
  <1>5. InTime'
    <2>1. ASSUME NEW m \in net PROVE OnTime(m)'
      <3>1. CASE Carries(m)
        BY <3>1, <1>1, <1>3, <1>4, StillOnTime DEF Quick, InTime
      <3>2. CASE ~Carries(m)
        BY <3>2 DEF Carries, OnTime, Sought, Talk
      <3> QED BY <3>1, <3>2
    <2> QED BY <2>1 DEF InTime
  <1>6. Single' /\ OneToken'
    BY DEF Quick, Single, OneToken, Carries, Talk
  <1>7. Kept'
    <2> SUFFICES ASSUME NEW i \in Slots, child[i].st = "serve"
                 PROVE  child[i].clock = 2 /\ \E m \in net' : InTurn(child[i], m)'
      BY <1>1 DEF Kept
    <2>1. PICK m \in net : InTurn(child[i], m)
      BY DEF Quick, Kept
    <2>2. Carries(m)
      BY <2>1 DEF InTurn, Carries
    <2>3. InTurn(child[i], m)'
      BY <2>1, <2>2, <1>1, <1>3, <1>4, StillInTurn
    <2> QED BY <2>3 DEF Quick, Kept
  <1>8. Going'
    <2> SUFFICES ASSUME NEW d \in Clients, cPc'[d] = "fetch", cBlock[d] # 0
                 PROVE  cClock'[d] = 1 /\ \E m \in net' : Talk(m) /\ m.client = d
      BY <1>1 DEF Going
    <2>1. d # c
      BY <1>1
    <2> QED BY <2>1, <1>1 DEF Quick, Going, Stays
  <1>9. \A d, p : GivenTo(d, p)' <=> GivenTo(d, p)
    BY <1>1 DEF GivenTo
  <1>10. Given'
    BY <1>1, <1>9, StillGiven DEF Quick
  <1>11. ASSUME NEW d \in Clients \ {c}, NEW p \in Ports, Wants(d, p)'
         PROVE  (AtServe(p) \/ AtFirst(d, p) \/ AtSecond(d, p))'
    <2>1. Wants(d, p)
      BY <1>1, <1>9, <1>11 DEF Wants, Stays
    <2>2. AtServe(p) => AtServe(p)'
      BY <1>1 DEF AtServe
    <2>3. AtFirst(d, p) => AtFirst(d, p)'
      BY <1>1 DEF AtFirst, Stays
    <2>4. AtSecond(d, p) => AtSecond(d, p)'
      BY <1>1 DEF AtSecond, Stays
    <2> QED BY <2>1, <2>2, <2>3, <2>4 DEF Quick, Attended, Minded
  <1>12. \A d \in Clients \ {c} : Excused(d)'
    BY <1>1 DEF Quick, LateByClash, Excused, SharedBy, Stays
  <1> QED BY <1>2, <1>5, <1>6, <1>7, <1>8, <1>9, <1>10, <1>11, <1>12 DEF Minded

LEMMA BroadcastQuick ==
  ASSUME IInv, Quick, NEW c \in Clients, Broadcast(c) \/ FindTimeout(c)
  PROVE  Quick'
  <1>1. /\ cPc[c] = "idle" \/ (cPc[c] = "find" /\ cClock[c] = 0)
        /\ cPort[c] = NoPort /\ NoData
    BY DEF Broadcast, FindTimeout, IInv, Good, GoodClient
  <1>2. (\A m \in net : Carries(m) => m.client # c) /\ cPc[c] # "fetch"
    BY <1>1, NoMail
  <1>3. PICK pc, t, S :
          /\ pc \in {"find", "notfound"}
          /\ ClientTurn(c, pc, cPort[c], t) /\ net' = net \cup S
          /\ \A m, x \in S : m = x
          /\ \A m \in S : m.kind = "BOOT" /\ m.client = c /\ pc = "find"
    <2>1. \A n : Boot(c, n).kind = "BOOT" /\ Boot(c, n).client = c
      BY Fields DEF Boot
    <2>2. CASE Broadcast(c)
      <3>1. PICK S : S = {Boot(c, asks[c])}
        OBVIOUS
      <3>2. ClientTurn(c, "find", cPort[c], 0) /\ net' = net \cup S
        BY <2>2, <1>1, <3>1 DEF Broadcast
      <3>3. \A m \in S : m.kind = "BOOT" /\ m.client = c
        BY <2>1, <3>1
      <3>4. \A m, x \in S : m = x
        BY <3>1
      <3> QED BY <3>2, <3>3, <3>4
    <2>3. CASE FindTimeout(c) /\ cTimeouts[c] > MaxTimeouts
      <3>1. PICK S : S = {}
        OBVIOUS
      <3>2. ClientTurn(c, "notfound", cPort[c], cTimeouts[c]) /\ net' = net \cup S
        BY <2>3, <1>1, <3>1 DEF FindTimeout
      <3> QED BY <3>1, <3>2
    <2>4. CASE FindTimeout(c) /\ ~(cTimeouts[c] > MaxTimeouts)
      <3>1. PICK S : S = {Boot(c, "other")}
        OBVIOUS
      <3>2. ClientTurn(c, "find", cPort[c], cTimeouts[c] + 1) /\ net' = net \cup S
        BY <2>4, <1>1, <3>1 DEF FindTimeout
      <3>3. \A m \in S : m.kind = "BOOT" /\ m.client = c
        BY <2>1, <3>1
      <3>4. \A m, x \in S : m = x
        BY <3>1
      <3> QED BY <3>2, <3>3, <3>4
    <2> QED BY <2>2, <2>3, <2>4
  <1>4. cPc'[c] = pc /\ cClock'[c] = 1 /\ cPort' = cPort
    BY <1>3 DEF ClientTurn, IInv, Typed, TypeOK
  <1>5. \A m \in S : ~Talk(m) /\ m.kind # "REPLY" /\ m.client = c /\ OnTime(m)'
    BY <1>3, <1>4 DEF OnTime, Talk
  <1>6. /\ OneBound' /\ NotBegun' /\ InTime' /\ Single' /\ OneToken' /\ Kept' /\ Going' /\ Given'
        /\ \A d, p : GivenTo(d, p)' <=> GivenTo(d, p)
        /\ \A d \in Clients \ {c}, p \in Ports : Minded(d, p)'
        /\ \A d \in Clients \ {c} : Excused(d)'
    BY <1>1, <1>2, <1>3, <1>5, TurnQuick
  <1>7. ASSUME NEW p \in Ports PROVE ~GivenTo(c, p)
    BY <1>1, <1>2, ServerAssumption DEF GivenTo, Carries
  <1>8. \A p \in Ports : Minded(c, p)'
    BY <1>6, <1>7 DEF Minded, Wants
  <1>9. Excused(c)'
    BY <1>3, <1>4 DEF Excused
  <1> QED BY <1>6, <1>8, <1>9 DEF Quick, Attended, LateByClash

LEMMA FetchTimeoutQuick ==
  ASSUME IInv, Quick, NEW c \in Clients, FetchTimeout(c)
  PROVE  Quick'
  <1>1. cPc[c] = "fetch" /\ cClock[c] = 0 /\ cPort[c] \in Ports /\ NoData
    BY DEF FetchTimeout, IInv, Good, GoodClient
  <1>2. (\A m \in net : Carries(m) => m.client # c) /\ cBlock[c] = 0
    BY <1>1, NoMail
  <1>3. ASSUME NEW p \in Ports, Wants(c, p)
        PROVE  /\ cPort[c] = p /\ ~AtFirst(c, p)
               /\ asks[c] \in Passing /\ ~\E d \in Clients : SharedBy(c, d)
    <2>1. cPort[c] = p
      BY <1>2, <1>3 DEF Wants, GivenTo, Carries
    <2>2. ~AtFirst(c, p)
      BY <1>1, <1>2 DEF AtFirst, Carries
    <2> QED BY <1>3, <2>1, <2>2 DEF Wants, SharedBy, GivenTo
  <1>4. cTimeouts[c] \in Nat /\ MaxTimeouts \in Nat
    BY ServerAssumption DEF IInv, Typed, TypeOK
  <1>5. CASE cTimeouts[c] > MaxTimeouts
    <2>1. PICK S : S = {}
      OBVIOUS
    <2>2. ClientTurn(c, "gaveup", cPort[c], cTimeouts[c]) /\ net' = net \cup S
      BY <1>5, <2>1 DEF FetchTimeout
    <2>3. /\ OneBound' /\ NotBegun' /\ InTime' /\ Single' /\ OneToken' /\ Kept' /\ Going' /\ Given'
          /\ \A d \in Clients \ {c}, p \in Ports : Minded(d, p)'
          /\ \A d \in Clients \ {c} : Excused(d)'
      <3>1. \A m \in S : ~Talk(m) /\ m.kind # "REPLY" /\ m.client = c /\ OnTime(m)'
        BY <2>1
      <3>2. \A m, x \in S : m = x
        BY <2>1
      <3> QED BY <1>1, <1>2, <2>2, <3>1, <3>2, TurnQuick
    <2>4. cPc'[c] = "gaveup" /\ cPort' = cPort /\ asks' = asks
      BY <2>2 DEF ClientTurn, setup, IInv, Typed, TypeOK
    <2>5. \A p \in Ports : Minded(c, p)'
      BY <2>4 DEF Minded, Wants
    <2>6. Excused(c)'
      BY <1>1, <1>4, <1>5, <2>4 DEF Quick, LateByClash, Excused, SharedBy
    <2> QED BY <2>3, <2>5, <2>6 DEF Quick, Attended, LateByClash
  <1>6. CASE ~(cTimeouts[c] > MaxTimeouts)
    <2> DEFINE f == Frq(c, cPort[c])
    <2>1. ClientTurn(c, "fetch", cPort[c], cTimeouts[c] + 1) /\ net' = net \cup {f}
      BY <1>2, <1>6 DEF FetchTimeout
    <2>2. f.kind = "FRQ" /\ f.client = c
      BY Fields DEF Frq
    <2>3. cPc'[c] = "fetch" /\ cPort' = cPort /\ asks' = asks /\ cClock'[c] = 1
          /\ cBlock'[c] = 0 /\ child' = child
      BY <1>1, <1>2, <2>1 DEF ClientTurn, NoData, setup, IInv, Typed, TypeOK
    <2> HIDE DEF f
    <2>4. PICK S : S = {f}
      OBVIOUS
    <2>5. \A m \in S : ~Talk(m) /\ m.kind # "REPLY" /\ m.client = c /\ OnTime(m)'
      BY <2>2, <2>3, <2>4 DEF OnTime, Talk, Sought
    <2>6. /\ OneBound' /\ NotBegun' /\ InTime' /\ Single' /\ OneToken' /\ Kept' /\ Going' /\ Given'
          /\ \A d, p : GivenTo(d, p)' <=> GivenTo(d, p)
          /\ \A d \in Clients \ {c}, p \in Ports : Minded(d, p)'
          /\ \A d \in Clients \ {c} : Excused(d)'
      BY <1>1, <1>2, <2>1, <2>5, <2>4, TurnQuick
    <2>7. ASSUME NEW p \in Ports, Wants(c, p)'
          PROVE  AtServe(p)' \/ AtSecond(c, p)'
      <3>1. Wants(c, p)
        BY <1>1, <2>3, <2>6, <2>7 DEF Wants
      <3>2. AtServe(p) \/ AtSecond(c, p)
        BY <1>3, <3>1 DEF Quick, Attended, Minded
      <3>3. AtServe(p) => AtServe(p)'
        BY <2>3 DEF AtServe
      <3>4. AtSecond(c, p) => AtSecond(c, p)'
        BY <2>1, <2>2, <2>3 DEF AtSecond
      <3> QED BY <3>2, <3>3, <3>4
    <2>8. \A p \in Ports : Minded(c, p)'
      BY <2>7 DEF Minded
    <2>9. Excused(c)'
      BY <2>3 DEF Excused
    <2> QED BY <2>6, <2>8, <2>9 DEF Quick, Attended, LateByClash
  <1> QED BY <1>5, <1>6

\* One datagram of an exchange takes the place of another.
LEMMA SwapSingle ==
  ASSUME IInv, Quick, NEW m \in net, Carries(m), NEW S, net' \subseteq (net \ {m}) \cup S,
         \A x \in S : x.client = m.client, \A x, y \in S : x = y
  PROVE  /\ Single'
         /\ \A x \in net \ {m} : Carries(x) => x.client \in Clients \ {m.client}
  <1>1. \A x \in net \ {m} : Carries(x) => x.client \in Clients \ {m.client}
    BY InFlight DEF Quick, Single, IInv
  <1>2. Single'
    BY <1>1 DEF Quick, Single
  <1> QED BY <1>1, <1>2

\* What a client's turn that answers m leaves as it was.
LEMMA AnswerQuick ==
  ASSUME IInv, Quick, NEW c \in Clients, NEW m \in net, Carries(m), m.client = c,
         UNCHANGED <<length, child>>, \A d \in Clients \ {c} : Stays(d),
         NEW S, net' = (net \ {m}) \cup S,
         \A x \in S : x.client = c /\ OnTime(x)' /\ (Talk(x) => Talk(m) /\ x.port = m.port),
         \A x, y \in S : x = y
  PROVE  /\ OneBound' /\ NotBegun' /\ InTime' /\ Single' /\ OneToken'
         /\ \A i \in Slots : child[i].st = "serve" /\ ~InTurn(child[i], m) =>
               child[i].clock = 2 /\ \E x \in net' : InTurn(child[i], x)'
         /\ \A d \in Clients \ {c} : cPc'[d] = "fetch" /\ cBlock'[d] # 0 =>
               cClock'[d] = 1 /\ \E x \in net' : Talk(x) /\ x.client = d
  <1>1. OneBound' /\ NotBegun' /\ \A i \in Slots : Goes(i)
    BY DEF Quick, OneBound, NotBegun, Bound, Goes
  <1>2. Single' /\ \A x \in net \ {m} : Carries(x) => Stays(x.client)
    BY SwapSingle
  <1>3. OneToken'
    BY DEF Quick, OneToken
  <1>4. InTime'
    <2>1. ASSUME NEW x \in net \ {m} PROVE OnTime(x)'
      <3>1. CASE Carries(x)
        BY <3>1, <1>1, <1>2, StillOnTime DEF Quick, InTime
      <3>2. CASE ~Carries(x)
        BY <3>2 DEF Carries, OnTime, Sought, Talk
      <3> QED BY <3>1, <3>2
    <2> QED BY <2>1 DEF InTime
  <1>5. ASSUME NEW i \in Slots, child[i].st = "serve", ~InTurn(child[i], m)
        PROVE  child[i].clock = 2 /\ \E x \in net' : InTurn(child[i], x)'
    <2>1. PICK x \in net \ {m} : InTurn(child[i], x)
      BY <1>5 DEF Quick, Kept
    <2>2. Carries(x)
      BY <2>1 DEF InTurn, Carries
    <2>3. InTurn(child[i], x)'
      BY <2>1, <2>2, <1>1, <1>2, StillInTurn
    <2> QED BY <2>3, <1>5 DEF Quick, Kept
  <1>6. ASSUME NEW d \in Clients \ {c}, cPc'[d] = "fetch", cBlock'[d] # 0
        PROVE  cClock'[d] = 1 /\ \E x \in net' : Talk(x) /\ x.client = d
    BY <1>6 DEF Quick, Going, Stays
  <1> QED BY <1>1, <1>2, <1>3, <1>4, <1>5, <1>6

LEMMA FindReplyQuick ==
  ASSUME IInv, Quick, NEW c \in Clients, NEW m \in net, FindReply(c, m)
  PROVE  Quick'
  <1>1. /\ cPc[c] = "find" /\ m.kind = "REPLY" /\ m.client = c /\ m.port \in Ports
        /\ cPort[c] = NoPort /\ cBlock[c] = 0 /\ Carries(m)
    BY DEF FindReply, IInv, Good, GoodClient, GoodMail, Carries
  <1>2. /\ cPc' = [cPc EXCEPT ![c] = "fetch"] /\ cPort' = [cPort EXCEPT ![c] = m.port]
        /\ cTimeouts' = [cTimeouts EXCEPT ![c] = 0] /\ cClock' = [cClock EXCEPT ![c] = 1]
        /\ cBlock' = cBlock /\ UNCHANGED <<length, asks, child, tempPort>>
    BY DEF FindReply, ClientTurn, NoData, setup
  <1>3. PICK S : S = {Frq(c, m.port)}
    OBVIOUS
  <1>4. net' = (net \ {m}) \cup S
    BY <1>3 DEF FindReply, Replace
  <1>5. /\ cPc'[c] = "fetch" /\ cPort'[c] = m.port /\ cTimeouts'[c] = 0 /\ cClock'[c] = 1
        /\ cBlock'[c] = 0
        /\ \A d \in Clients \ {c} :
              Stays(d) /\ cPort'[d] = cPort[d] /\ cTimeouts'[d] = cTimeouts[d]
    BY <1>1, <1>2 DEF Stays, IInv, Typed, TypeOK
  <1>6. \A x \in S : x.kind = "FRQ" /\ x.client = c
    BY <1>3, Fields DEF Frq
  <1>7. \A x \in S : x.client = c /\ OnTime(x)' /\ (Talk(x) => Talk(m) /\ x.port = m.port)
    BY <1>5, <1>6 DEF OnTime, Talk, Sought
  <1>8. \A x, y \in S : x = y
    BY <1>3
  <1>9. /\ OneBound' /\ NotBegun' /\ InTime' /\ Single' /\ OneToken'
        /\ \A i \in Slots : child[i].st = "serve" /\ ~InTurn(child[i], m) =>
              child[i].clock = 2 /\ \E x \in net' : InTurn(child[i], x)'
        /\ \A d \in Clients \ {c} : cPc'[d] = "fetch" /\ cBlock'[d] # 0 =>
              cClock'[d] = 1 /\ \E x \in net' : Talk(x) /\ x.client = d
    <2>1. UNCHANGED <<length, child>> /\ \A d \in Clients \ {c} : Stays(d)
      BY <1>2, <1>5
    <2> QED BY <1>1, <1>4, <1>7, <1>8, <2>1, AnswerQuick
  <1>10. Kept'
    BY <1>1, <1>2, <1>9 DEF Kept, InTurn
  <1>11. Going'
    BY <1>5, <1>9 DEF Going
  <1>12. ASSUME NEW d \in Clients, NEW p \in Ports
         PROVE  GivenTo(d, p)' <=> GivenTo(d, p)
    <2>1. CASE d = c
      <3>1. GivenTo(c, p) <=> p = m.port
        BY <1>1, ServerAssumption DEF GivenTo, Quick, Single, Carries
      <3>2. GivenTo(c, p)' <=> p = m.port
        BY <1>1, <1>4, <1>5, <1>6 DEF GivenTo, Quick, Single, Carries
      <3> QED BY <2>1, <3>1, <3>2
    <2>2. CASE d # c
      BY <2>2, <1>1, <1>4, <1>5, <1>6 DEF GivenTo
    <2> QED BY <2>1, <2>2
  <1>13. Given'
    BY <1>2, <1>12, StillGiven DEF Quick
  <1>14. ASSUME NEW d \in Clients, NEW p \in Ports, Wants(d, p)'
         PROVE  (AtServe(p) \/ AtFirst(d, p) \/ AtSecond(d, p))'
    <2>1. Wants(d, p)
      BY <1>1, <1>2, <1>5, <1>12, <1>14 DEF Wants, Stays
    <2>2. AtServe(p) => AtServe(p)'
      BY <1>2 DEF AtServe
    <2>3. AtFirst(d, p) => AtFirst(d, p)'
      <3>1. CASE d = c
        <4>1. cPort'[c] = p
          BY <1>5, <1>14, <3>1, <1>4, <1>6, <1>1 DEF Wants, GivenTo, Quick, Single, Carries
        <4> QED BY <3>1, <4>1, <1>2, <1>5 DEF AtFirst
      <3>2. CASE d # c
        BY <3>2, <1>1, <1>2, <1>4, <1>5 DEF AtFirst, Stays
      <3> QED BY <3>1, <3>2
    <2>4. AtSecond(d, p) => AtSecond(d, p)'
      <3>1. CASE d = c
        BY <3>1, <1>1 DEF AtSecond
      <3>2. CASE d # c
        BY <3>2, <1>1, <1>2, <1>4, <1>5 DEF AtSecond, Stays
      <3> QED BY <3>1, <3>2
    <2> QED BY <2>1, <2>2, <2>3, <2>4 DEF Quick, Attended, Minded
  <1>15. Attended'
    BY <1>14 DEF Attended, Minded
  <1>16. ASSUME NEW d \in Clients PROVE Excused(d)'
    <2>1. CASE d = c
      BY <2>1, <1>5 DEF Excused
    <2>2. CASE d # c
      <3>1. ASSUME NEW e \in Clients, SharedBy(d, e) PROVE SharedBy(d, e)'
        BY <2>2, <3>1, <1>1, <1>5 DEF SharedBy
      <3> QED BY <2>2, <3>1, <1>2, <1>5 DEF Excused, Stays, Quick, LateByClash
    <2> QED BY <2>1, <2>2
  <1> QED BY <1>9, <1>10, <1>11, <1>13, <1>15, <1>16 DEF Quick, LateByClash

LEMMA FetchOldDataQuick ==
  ASSUME IInv, Quick, NEW c \in Clients, NEW m \in net, FetchOldData(c, m)
  PROVE  FALSE
  <1>1. PICK i \in Slots : InTurn(child[i], m)
    BY Token DEF FetchOldData, IsForFetch, Talk
  <1> QED BY <1>1 DEF FetchOldData, IsForFetch, InTurn

LEMMA FetchDataQuick ==
  ASSUME IInv, Quick, NEW c \in Clients, NEW m \in net, FetchData(c, m)
  PROVE  Quick'
  <1>1. m.kind = "DATA" /\ m.client = c /\ cPc[c] = "fetch" /\ Talk(m) /\ Carries(m)
    BY DEF FetchData, IsForFetch, Talk, Carries
  <1>2. PICK k \in Slots :
          /\ InTurn(child[k], m) /\ Bound(k) /\ child[k] \in Kid /\ child[k].st = "serve"
          /\ m.port = child[k].port /\ m.port \in Ports /\ cPort[c] = m.port
    BY <1>1, Token
  <1>3. /\ child[k].part <= length /\ m.block = child[k].block /\ m.part = child[k].part
        /\ cBlock[c] + 1 = child[k].block
    BY <1>1, <1>2 DEF InTurn
  <1>4. /\ m.block \in 1 .. Restart - 1 /\ m.part \in Nat /\ length \in Nat
        /\ Restart \in Nat /\ Restart > 3
    BY <1>2, <1>3, Sizes DEF Kid, IInv, Typed, PastEnd
  <1> DEFINE b == IF Short(m.part) THEN 0 ELSE m.block
             h == IF Short(m.part) THEN 0 ELSE Held(m.block)
             pc == IF Short(m.part) THEN "finished" ELSE "fetch"
  <1>5. /\ ClientTurn(c, pc, cPort[c], 0)
        /\ cBlock' = [cBlock EXCEPT ![c] = h]
        /\ net' = (net \ {m}) \cup {Ack(c, m.port, b)}
    BY DEF FetchData, Replace, Held
  <1>6. PICK S : S = {Ack(c, m.port, b)}
    OBVIOUS
  <1> HIDE DEF b, h, pc
  <1>7. /\ cPc'[c] = pc /\ cTimeouts'[c] = 0 /\ cClock'[c] = 1 /\ cBlock'[c] = h
        /\ cPort' = cPort /\ UNCHANGED <<length, asks, child, tempPort>>
        /\ \A d \in Clients \ {c} : Stays(d) /\ cTimeouts'[d] = cTimeouts[d]
    BY <1>5 DEF ClientTurn, Stays, setup, IInv, Typed, TypeOK
  <1>8. \A x \in S : x.kind = "ACK" /\ x.client = c /\ x.port = m.port /\ x.block = b
    BY <1>6, Fields DEF Ack
  <1>9. ASSUME NEW x \in S PROVE InTurn(child[k], x)'
    <2>1. CASE Short(m.part)
      <3>1. x.block = 0 /\ cPc'[c] = "finished"
        BY <2>1, <1>7, <1>8 DEF b, pc
      <3> QED BY <3>1, <1>2, <1>3, <1>7, <1>8 DEF InTurn
    <2>2. CASE ~Short(m.part)
      <3>1. /\ x.block = child[k].block /\ cPc'[c] = "fetch" /\ cBlock'[c] = Held(child[k].block)
        BY <2>2, <1>3, <1>7, <1>8 DEF b, pc, h
      <3>2. child[k].part < length
        BY <2>2, <1>3, <1>4 DEF Short
      <3> QED BY <3>1, <3>2, <1>2, <1>3, <1>7, <1>8 DEF InTurn, Held
    <2> QED BY <2>1, <2>2
  <1>10. \A x \in S : x.client = c /\ OnTime(x)' /\ (Talk(x) => Talk(m) /\ x.port = m.port)
    BY <1>1, <1>8, <1>9 DEF OnTime, Talk, Sought
  <1>11. \A x, y \in S : x = y
    BY <1>6
  <1>12. /\ OneBound' /\ NotBegun' /\ InTime' /\ Single' /\ OneToken'
         /\ \A i \in Slots : child[i].st = "serve" /\ ~InTurn(child[i], m) =>
               child[i].clock = 2 /\ \E x \in net' : InTurn(child[i], x)'
         /\ \A d \in Clients \ {c} : cPc'[d] = "fetch" /\ cBlock'[d] # 0 =>
               cClock'[d] = 1 /\ \E x \in net' : Talk(x) /\ x.client = d
    <2>1. UNCHANGED <<length, child>> /\ \A d \in Clients \ {c} : Stays(d)
      BY <1>7
    <2>2. net' = (net \ {m}) \cup S /\ Carries(m) /\ m.client = c
      BY <1>1, <1>5, <1>6
    <2> QED BY <1>10, <1>11, <2>1, <2>2, AnswerQuick
  <1>13. S \subseteq net' /\ \E x \in S : TRUE
    BY <1>5, <1>6
  <1>14. Kept'
    <2>1. ASSUME NEW j \in Slots, child[j].st = "serve", InTurn(child[j], m) PROVE j = k
      BY <2>1, <1>2 DEF Quick, OneBound, Bound, InTurn
    <2>2. child[k].clock = 2
      BY <1>2 DEF Quick, Kept
    <2> QED BY <2>1, <2>2, <1>7, <1>9, <1>12, <1>13 DEF Kept
  <1>15. Going'
    BY <1>7, <1>8, <1>12, <1>13 DEF Going, Talk
  <1>16. \A d, p : GivenTo(d, p)' <=> GivenTo(d, p)
    BY <1>1, <1>5, <1>6, <1>7, <1>8 DEF GivenTo
  <1>17. Given'
    BY <1>7, <1>16, StillGiven DEF Quick
  <1>18. ASSUME NEW d \in Clients, NEW p \in Ports, Wants(d, p)'
         PROVE  (AtServe(p) \/ AtFirst(d, p) \/ AtSecond(d, p))'
    <2>1. Wants(d, p)
      BY <1>1, <1>7, <1>16, <1>18 DEF Wants, Stays
    <2>2. AtServe(p) => AtServe(p)'
      BY <1>7 DEF AtServe
    <2>3. CASE d = c
      <3>1. cPort[c] = p
        <4>1. ~\E x \in net : x.kind = "REPLY" /\ x.client = c
          BY <1>1 DEF Quick, Single, Carries
        <4> QED BY <2>1, <2>3, <4>1 DEF Wants, GivenTo
      <3> QED BY <3>1, <1>2, <1>7 DEF AtServe
    <2>4. CASE d # c
      <3>1. AtFirst(d, p) => AtFirst(d, p)'
        BY <2>4, <1>1, <1>5, <1>7 DEF AtFirst, Stays
      <3>2. AtSecond(d, p) => AtSecond(d, p)'
        BY <2>4, <1>1, <1>5, <1>7 DEF AtSecond, Stays
      <3> QED BY <2>1, <2>2, <3>1, <3>2 DEF Quick, Attended, Minded
    <2> QED BY <2>3, <2>4
  <1>19. Attended'
    BY <1>18 DEF Attended, Minded
  <1>20. LateByClash'
    <2>1. \A d \in Clients \ {c} : Excused(d)'
      BY <1>7 DEF Quick, LateByClash, Excused, SharedBy, Stays
    <2>2. Excused(c)'
      BY <1>7 DEF Excused, pc
    <2> QED BY <2>1, <2>2 DEF LateByClash
  <1> QED BY <1>12, <1>14, <1>15, <1>17, <1>19, <1>20 DEF Quick
-----------------------------------------------------------------------------
(* A child's turn.                                                         *)

\* The child in slot i goes, or stays on its port.
KidTurn(i, ch) ==
    /\ UNCHANGED <<setup, clientVars, tempPort>> /\ child' = [child EXCEPT ![i] = ch]
    /\ child[i] \in Kid /\ ch.st \in {"free", "wait", "serve"}
    /\ ch.st # "free" =>
          /\ ch.port = child[i].port
          /\ \A j \in Slots \ {i} : Bound(j) => child[j].port # child[i].port
    /\ ch.st = "wait" => ch.part = 1
    /\ \A x : x.kind = "REPLY" => (x \in net' <=> x \in net)

LEMMA KidQuick ==
  ASSUME IInv, Quick, NEW i \in Slots, NEW ch, KidTurn(i, ch)
  PROVE  /\ OneBound' /\ NotBegun' /\ Given' /\ LateByClash' /\ child'[i] = ch
         /\ \A x \in net : ~InTurn(child[i], x) => OnTime(x)'
         /\ \A j \in Slots \ {i}, x \in net : InTurn(child[j], x) => InTurn(child[j], x)'
         /\ \A c \in Clients, p \in Ports : Wants(c, p)' <=> Wants(c, p)
  <1>1. child'[i] = ch /\ \A j \in Slots \ {i} : child'[j] = child[j]
    BY DEF KidTurn, IInv, Typed
  <1>2. /\ UNCHANGED <<asks, length, tempPort, cPc, cPort, cTimeouts, cClock, cBlock>>
        /\ \A d : Stays(d)
    BY DEF KidTurn, setup, clientVars, Stays
  <1>3. OneBound'
    BY <1>1 DEF Quick, OneBound, Bound, KidTurn
  <1>4. NotBegun'
    BY <1>1 DEF Quick, NotBegun, KidTurn
  <1>5. ASSUME NEW j \in Slots \ {i}, NEW x \in net, InTurn(child[j], x)
        PROVE  InTurn(child[j], x)'
    BY <1>1, <1>2, <1>5 DEF InTurn
  <1>6. ASSUME NEW x \in net, ~InTurn(child[i], x)
        PROVE  OnTime(x)'
    <2>1. OnTime(x)
      BY DEF Quick, InTime
    <2>2. Talk(x) => \E j \in Slots : InTurn(child[j], x)'
      BY <1>5, <1>6, <2>1 DEF OnTime
    <2> QED BY <1>2, <2>1, <2>2 DEF OnTime
  <1>7. \A c \in Clients, p \in Ports : GivenTo(c, p)' <=> GivenTo(c, p)
    BY <1>2 DEF GivenTo, KidTurn
  <1>8. Given'
    <2>1. ASSUME NEW j \in Slots, child'[j].st # "free"
          PROVE  child[j].st # "free" /\ child'[j].port = child[j].port
      BY <2>1, <1>1 DEF KidTurn, Kid
    <2> QED BY <2>1, <1>2, <1>7, StillGiven DEF Quick
  <1>9. \A c \in Clients, p \in Ports : Wants(c, p)' <=> Wants(c, p)
    BY <1>2, <1>7 DEF Wants
  <1>10. LateByClash'
    BY <1>2 DEF Quick, LateByClash, Excused, SharedBy
  <1> QED BY <1>1, <1>3, <1>4, <1>5, <1>6, <1>8, <1>9, <1>10

\* Whoever does not want the port of this child is minded as before.
LEMMA OthersMinded ==
  ASSUME IInv, Quick, NEW i \in Slots, NEW ch, KidTurn(i, ch),
         NEW c \in Clients, NEW p \in Ports, Wants(c, p), child[i].port # p,
         \A x \in net : x.kind = "FRQ" /\ x.port = p => x \in net'
  PROVE  (AtServe(p) \/ AtFirst(c, p) \/ AtSecond(c, p))'
  <1>1. child'[i] = ch /\ (\A j \in Slots \ {i} : child'[j] = child[j])
        /\ (ch.st # "free" => ch.port # p)
    BY DEF KidTurn, IInv, Typed
  <1>2. UNCHANGED <<cPc, cPort, cTimeouts, cClock>>
    BY DEF KidTurn, clientVars
  <1>3. AtServe(p) => AtServe(p)'
    BY <1>1 DEF AtServe
  <1>4. AtFirst(c, p) => AtFirst(c, p)'
    BY <1>1, <1>2 DEF AtFirst, KidTurn
  <1>5. ASSUME AtSecond(c, p) PROVE AtSecond(c, p)'
    <2>1. \E j \in Slots : child'[j].st = "wait" /\ child'[j].port = p /\ child'[j].clock = 1
      BY <1>1, <1>5 DEF AtSecond
    <2>2. ASSUME NEW x \in net, x.kind = "FRQ", x.client = c
          PROVE  x \in net'
      <3>1. cPc[c] = "fetch" /\ cPort[c] = x.port
        BY <1>5, <2>2 DEF AtSecond, IInv, Good, GoodMail
      <3>2. cPort[c] = p
        <4>1. \A y \in net : y.kind = "REPLY" => cPc[y.client] = "find"
          BY DEF Quick, InTime, OnTime, Sought
        <4> QED BY <3>1, <4>1 DEF Wants, GivenTo
      <3> QED BY <2>2, <3>1, <3>2
    <2> QED BY <1>2, <1>5, <2>1, <2>2 DEF AtSecond
  <1> QED BY <1>3, <1>4, <1>5 DEF Quick, Attended, Minded

LEMMA ChildBindQuick ==
  ASSUME IInv, Quick, NEW i \in Slots, ChildBind(i)
  PROVE  Quick'
  <1> DEFINE k == [child[i] EXCEPT !.st = "wait", !.clock = 2]
             ch == IF child[i].port \in BoundPorts THEN Free ELSE k
  <1>1. child[i] \in Kid /\ child[i].st = "born" /\ net' = net /\ child[i].part = 1
    BY Kids DEF ChildBind, IInv, Quick, NotBegun
  <1>2. k.st = "wait" /\ k.port = child[i].port /\ k.part = 1 /\ k.clock = 2
    BY <1>1 DEF Kid
  <1> HIDE DEF k
  <1>3. /\ child[i].port \in BoundPorts => ch.st = "free"
        /\ child[i].port \notin BoundPorts => ch = k
    BY DEF Free
  <1>4. child[i].port \in BoundPorts <=> \E j \in Slots \ {i} : Bound(j) /\ child[j].port = child[i].port
    BY <1>1 DEF BoundPorts, Bound
  <1>5. child' = [child EXCEPT ![i] = ch] /\ UNCHANGED <<setup, clientVars, tempPort>>
    BY DEF ChildBind, ChildTurn, k
  <1> HIDE DEF ch
  <1>6. KidTurn(i, ch)
    BY <1>1, <1>2, <1>3, <1>4, <1>5 DEF KidTurn
  <1>7. /\ OneBound' /\ NotBegun' /\ Given' /\ LateByClash' /\ child'[i] = ch
        /\ \A x \in net : ~InTurn(child[i], x) => OnTime(x)'
        /\ \A j \in Slots \ {i}, x \in net : InTurn(child[j], x) => InTurn(child[j], x)'
        /\ \A c \in Clients, p \in Ports : Wants(c, p)' <=> Wants(c, p)
    BY <1>6, KidQuick
  <1>8. \A j \in Slots \ {i} : child'[j] = child[j]
    BY <1>5 DEF IInv, Typed
  <1>9. \A x : ~InTurn(child[i], x)
    BY <1>1 DEF InTurn
  <1>10. InTime' /\ Single' /\ OneToken'
    BY <1>1, <1>7, <1>9 DEF Quick, InTime, Single, OneToken
  <1>11. Kept'
    BY <1>1, <1>2, <1>3, <1>7, <1>8 DEF Quick, Kept
  <1>12. Going'
    BY <1>1, <1>5 DEF Quick, Going, clientVars
  <1>13. ASSUME NEW c \in Clients, NEW p \in Ports, Wants(c, p)
         PROVE  (AtServe(p) \/ AtFirst(c, p) \/ AtSecond(c, p))'
    <2>1. CASE child[i].port # p
      BY <1>1, <1>6, <1>13, <2>1, OthersMinded
    <2>2. CASE child[i].port = p
      <3>1. UNCHANGED <<cPc, cPort, cTimeouts, cClock>>
        BY <1>5 DEF clientVars
      <3>2. AtServe(p) => AtServe(p)'
        BY <1>1, <1>8 DEF AtServe
      <3>3. AtSecond(c, p) => AtSecond(c, p)'
        BY <1>1, <1>8, <3>1 DEF AtSecond
      <3>4. ASSUME AtFirst(c, p), ~AtServe(p) PROVE AtFirst(c, p)'
        <4>1. \A j \in Slots : child'[j].st = "wait" /\ child'[j].port = p => child'[j].clock = 2
          BY <1>2, <1>3, <1>7, <1>8, <3>4 DEF AtFirst
        <4>2. \E j \in Slots : child'[j].st \in {"born", "wait"} /\ child'[j].port = p
          <5>1. CASE p \in BoundPorts
            <6>1. PICK j \in Slots \ {i} : Bound(j) /\ child[j].port = p
              BY <1>4, <2>2, <5>1
            <6>2. child[j].st = "wait"
              BY <3>4, <6>1 DEF Bound, AtServe
            <6> QED BY <1>8, <6>1, <6>2
          <5>2. CASE p \notin BoundPorts
            BY <1>2, <1>3, <1>7, <2>2, <5>2
          <5> QED BY <5>1, <5>2
        <4> QED BY <1>1, <3>1, <3>4, <4>1, <4>2 DEF AtFirst
      <3> QED BY <1>13, <3>2, <3>3, <3>4 DEF Quick, Attended, Minded
    <2> QED BY <2>1, <2>2
  <1>14. Attended'
    BY <1>7, <1>13 DEF Attended, Minded
  <1> QED BY <1>7, <1>10, <1>11, <1>12, <1>14 DEF Quick

\* A port has one child at most that waits or serves.
LEMMA TheChild ==
  ASSUME Quick, NEW i \in Slots, NEW j \in Slots, Bound(i), Bound(j),
         child[i].port = child[j].port
  PROVE  i = j
  BY DEF Quick, OneBound

LEMMA ChildTimeoutQuick ==
  ASSUME IInv, Quick, NEW i \in Slots, ChildTimeout(i)
  PROVE  Quick'
  <1>1. /\ Bound(i) /\ child[i] \in Kid /\ child[i].clock = 0 /\ child[i].st = "wait"
        /\ child[i].part = 1
    BY Kids DEF ChildTimeout, IInv, Quick, Kept, NotBegun, Bound
  <1>2. PICK ch : /\ child' = [child EXCEPT ![i] = ch] /\ ch.st \in {"free", "wait"}
                  /\ ch.st # "free" => ch.port = child[i].port /\ ch.part = 1
    <2>1. CASE child[i].timeouts > MaxTimeouts
      <3>1. child' = [child EXCEPT ![i] = Free] /\ Free.st = "free"
        BY <2>1 DEF ChildTimeout, ChildTurn, Free
      <3> QED BY <3>1
    <2>2. CASE ~(child[i].timeouts > MaxTimeouts)
      <3> DEFINE k == [child[i] EXCEPT !.timeouts = @ + 1, !.clock = 2]
      <3>1. child' = [child EXCEPT ![i] = k]
        BY <2>2 DEF ChildTimeout, ChildTurn
      <3>2. k.st = "wait" /\ k.port = child[i].port /\ k.part = 1
        BY <1>1 DEF Kid
      <3> HIDE DEF k
      <3> QED BY <3>1, <3>2
    <2> QED BY <2>1, <2>2
  <1>3. UNCHANGED <<setup, clientVars, tempPort, net>>
    <2>1. net' = net
      BY <1>1 DEF ChildTimeout
    <2> QED BY <2>1 DEF ChildTimeout, ChildTurn
  <1>4. KidTurn(i, ch)
    BY <1>1, <1>2, <1>3, TheChild DEF KidTurn
  <1>5. /\ OneBound' /\ NotBegun' /\ Given' /\ LateByClash' /\ child'[i] = ch
        /\ \A x \in net : ~InTurn(child[i], x) => OnTime(x)'
        /\ \A j \in Slots \ {i}, x \in net : InTurn(child[j], x) => InTurn(child[j], x)'
        /\ \A c \in Clients, p \in Ports : Wants(c, p)' <=> Wants(c, p)
    BY <1>4, KidQuick
  <1>6. \A x : ~InTurn(child[i], x)
    BY <1>1 DEF InTurn
  <1>7. InTime' /\ Single' /\ OneToken'
    BY <1>3, <1>5, <1>6 DEF Quick, InTime, Single, OneToken
  <1>8. \A j \in Slots \ {i} : child'[j] = child[j]
    BY <1>2 DEF IInv, Typed
  <1>9. Kept'
    BY <1>2, <1>3, <1>5, <1>8 DEF Quick, Kept
  <1>10. Going'
    BY <1>3 DEF Quick, Going, clientVars
  <1>11. ASSUME NEW c \in Clients, NEW p \in Ports, Wants(c, p)
         PROVE  child[i].port # p
    <2>1. child[i].port = p => ~AtServe(p)
      BY <1>1, TheChild DEF AtServe, Bound
    <2>2. child[i].port = p => ~AtFirst(c, p)
      BY <1>1 DEF AtFirst
    <2>3. child[i].port = p => ~AtSecond(c, p)
      BY <1>1, TheChild DEF AtSecond, Bound
    <2> QED BY <1>11, <2>1, <2>2, <2>3 DEF Quick, Attended, Minded
  <1>12. ASSUME NEW c \in Clients, NEW p \in Ports, Wants(c, p)
         PROVE  (AtServe(p) \/ AtFirst(c, p) \/ AtSecond(c, p))'
    BY <1>3, <1>4, <1>11, <1>12, OthersMinded
  <1>13. Attended'
    BY <1>5, <1>12 DEF Attended, Minded
  <1> QED BY <1>5, <1>7, <1>9, <1>10, <1>13 DEF Quick

LEMMA ChildReceiveFrqQuick ==
  ASSUME IInv, Quick, NEW m \in net, NEW i \in Slots, ChildReceiveFrq(i, m)
  PROVE  Quick'
  <1>1. /\ child[i].st = "wait" /\ Bound(i) /\ child[i] \in Kid /\ m.port = child[i].port
        /\ m.port \in Ports \cup {Elsewhere} /\ m.client \in Clients
    <2>1. child[i].st = "wait" /\ child[i] \in Kid /\ m.port = child[i].port
      BY Kids DEF ChildReceiveFrq, ToChild, IInv
    <2> QED BY <2>1, InFlight DEF Kid, Bound, IInv
  <1>2. m.kind = "FRQ" /\ Carries(m) /\ ~Talk(m)
    <2>1. Talk(m) => FALSE
      <3>1. ASSUME Talk(m) PROVE FALSE
        <4>1. PICK j \in Slots : Bound(j) /\ child[j].st = "serve" /\ m.port = child[j].port
          BY <3>1, Token
        <4> QED BY <4>1, <1>1, TheChild
      <3> QED BY <3>1
    <2> QED BY <2>1 DEF ChildReceiveFrq, ToChild, Talk, Carries
  <1>3. /\ cPc[m.client] = "fetch" /\ cBlock[m.client] = 0 /\ cClock[m.client] = 1
        /\ cPort[m.client] = m.port /\ m.name = asks[m.client] /\ m.port \in Ports
    BY <1>2 DEF Quick, InTime, OnTime, IInv, Good, GoodMail
  <1>4. UNCHANGED <<setup, clientVars, tempPort>>
    BY DEF ChildReceiveFrq, ChildTurn
  <1>5. PICK ch, S :
          /\ child' = [child EXCEPT ![i] = ch] /\ net' = (net \ {m}) \cup S
          /\ ch.st = (IF FrqPasses(m) THEN "serve" ELSE "wait") /\ ch.port = m.port
          /\ ch.block = 1 /\ ch.part = 1 /\ ch.clock = 2
          /\ FrqPasses(m) => \E x : S = {x}
          /\ ~FrqPasses(m) => S = {}
          /\ \A x \in S : /\ x.kind = "DATA" /\ x.client = m.client /\ x.port = m.port
                          /\ x.block = 1 /\ x.part = 1
    <2> DEFINE c(st) == Child(st, m.port, m.client, 2)
               e == [c("wait") EXCEPT !.timeouts = child[i].timeouts]
    <2>1. \A st \in {"wait", "serve"} : /\ c(st).st = st /\ c(st).port = m.port /\ c(st).peer = m.client
                                        /\ c(st).block = 1 /\ c(st).part = 1 /\ c(st).clock = 2
      BY DEF Child
    <2>2. e.st = "wait" /\ e.port = m.port /\ e.block = 1 /\ e.part = 1 /\ e.clock = 2
      BY DEF Child
    <2>3. CASE FrqPasses(m)
      <3>1. child' = [child EXCEPT ![i] = c("serve")] /\ net' = (net \ {m}) \cup {DataFrom(c("serve"))}
        BY <2>3 DEF ChildReceiveFrq, ChildTurn, Replace
      <3> HIDE DEF c
      <3>2. PICK ch : ch = c("serve")
        OBVIOUS
      <3>3. PICK S : S = {DataFrom(ch)}
        OBVIOUS
      <3>4. \A x \in S : /\ x.kind = "DATA" /\ x.client = m.client /\ x.port = m.port
                         /\ x.block = 1 /\ x.part = 1
        BY <2>1, <3>2, <3>3, Fields DEF DataFrom
      <3> QED BY <2>1, <2>3, <3>1, <3>2, <3>3, <3>4
    <2>4. CASE ~FrqPasses(m)
      <3>1. child' = [child EXCEPT ![i] = e] /\ net' = (net \ {m}) \cup {}
        BY <2>4 DEF ChildReceiveFrq, ChildTurn, Replace
      <3>2. PICK ch : ch = e
        OBVIOUS
      <3>3. ch.st = "wait" /\ ch.port = m.port /\ ch.block = 1 /\ ch.part = 1 /\ ch.clock = 2
        BY <2>2, <3>2
      <3>4. child' = [child EXCEPT ![i] = ch]
        BY <3>1, <3>2
      <3> HIDE DEF e
      <3>5. PICK S : S = {}
        OBVIOUS
      <3>6. net' = (net \ {m}) \cup S /\ \A x : x \notin S
        BY <3>1, <3>5
      <3> QED BY <2>4, <3>3, <3>4, <3>5, <3>6
    <2> QED BY <2>3, <2>4
  <1>6. \A x, y \in S : x = y
    BY <1>5
  <1>7. KidTurn(i, ch)
    <2>1. \A x : x.kind = "REPLY" => (x \in net' <=> x \in net)
      BY <1>2, <1>5
    <2>2. \A j \in Slots \ {i} : Bound(j) => child[j].port # child[i].port
      BY <1>1, TheChild
    <2> QED BY <1>1, <1>4, <1>5, <2>1, <2>2 DEF KidTurn
  <1>8. /\ OneBound' /\ NotBegun' /\ Given' /\ LateByClash' /\ child'[i] = ch
        /\ \A x \in net : ~InTurn(child[i], x) => OnTime(x)'
        /\ \A j \in Slots \ {i}, x \in net : InTurn(child[j], x) => InTurn(child[j], x)'
        /\ \A c \in Clients, p \in Ports : Wants(c, p)' <=> Wants(c, p)
    BY <1>7, KidQuick
  <1>9. \A j \in Slots \ {i} : child'[j] = child[j]
    BY <1>5 DEF IInv, Typed
  <1>10. \A x : ~InTurn(child[i], x)
    BY <1>1 DEF InTurn
  <1>11. ASSUME NEW x \in S PROVE InTurn(child[i], x)' /\ Talk(x) /\ FrqPasses(m)
    <2>1. FrqPasses(m)
      BY <1>5, <1>11
    <2>2. 1 <= length /\ length' = length /\ cPc' = cPc /\ cBlock' = cBlock /\ cClock' = cClock
      BY <1>4, Sizes DEF setup, clientVars, IInv, Typed
    <2>3. /\ x.kind = "DATA" /\ x.client = m.client /\ x.port = m.port /\ x.block = 1 /\ x.part = 1
          /\ child'[i].st = "serve" /\ child'[i].port = m.port /\ child'[i].block = 1
          /\ child'[i].part = 1
      BY <1>5, <1>8, <1>11, <2>1
    <2> QED BY <1>3, <2>1, <2>2, <2>3 DEF InTurn, Talk
  <1>12. InTime'
    <2>1. \A x \in S : OnTime(x)'
      BY <1>5, <1>11 DEF OnTime, Sought
    <2> QED BY <1>5, <1>8, <1>10, <2>1 DEF InTime
  <1>13. Single'
    BY <1>2, <1>5, <1>6, SwapSingle
  <1>14. OneToken'
    <2>1. ASSUME NEW x \in net, Talk(x), x.port = m.port PROVE FALSE
      <3>1. PICK j \in Slots : Bound(j) /\ child[j].st = "serve" /\ x.port = child[j].port
        BY <2>1, Token
      <3> QED BY <2>1, <3>1, <1>1, TheChild
    <2> QED BY <1>5, <1>6, <2>1 DEF Quick, OneToken
  <1>15. Kept'
    <2>1. ASSUME NEW j \in Slots \ {i}, child[j].st = "serve"
          PROVE  child[j].clock = 2 /\ \E x \in net' : InTurn(child[j], x)'
      <3>1. PICK x \in net : InTurn(child[j], x)
        BY <2>1 DEF Quick, Kept
      <3>2. x # m
        BY <3>1, <1>2 DEF InTurn
      <3> QED BY <2>1, <3>1, <3>2, <1>5, <1>8 DEF Quick, Kept
    <2>2. child'[i].st = "serve" => child'[i].clock = 2 /\ \E x \in net' : InTurn(child[i], x)'
      BY <1>5, <1>8, <1>11
    <2> QED BY <2>1, <2>2, <1>9 DEF Kept
  <1>16. Going'
    BY <1>2, <1>4, <1>5 DEF Quick, Going, clientVars
  <1>17. ASSUME NEW c \in Clients, NEW p \in Ports, Wants(c, p)
         PROVE  (AtServe(p) \/ AtFirst(c, p) \/ AtSecond(c, p))'
    <2>1. CASE child[i].port # p
      <3>1. \A x \in net : x.kind = "FRQ" /\ x.port = p => x \in net'
        BY <1>1, <1>5, <2>1
      <3> QED BY <1>7, <1>17, <2>1, <3>1, OthersMinded
    <2>2. CASE child[i].port = p
      <3>1. m.client = c
        BY <1>1, <1>3, <1>17, <2>2 DEF Wants, GivenTo
      <3>2. FrqPasses(m)
        BY <1>3, <1>17, <3>1 DEF Wants, FrqPasses
      <3> QED BY <1>1, <1>5, <1>8, <2>2, <3>2 DEF AtServe
    <2> QED BY <2>1, <2>2
  <1>18. Attended'
    BY <1>8, <1>17 DEF Attended, Minded
  <1> QED BY <1>8, <1>12, <1>13, <1>14, <1>15, <1>16, <1>18 DEF Quick

\* A serving child that is sent a datagram is sent a FRQ or the one in its turn.
LEMMA ServedTurn ==
  ASSUME IInv, Quick, NEW m \in net, NEW i \in Slots, child[i].st = "serve", ToChild(i, m)
  PROVE  /\ m.kind # "FRQ" => m.kind = "ACK" /\ InTurn(child[i], m)
         /\ child[i] \in Kid /\ Bound(i) /\ m.port = child[i].port /\ m.client \in Clients
         /\ cPort[m.client] = m.port
  <1>1. child[i] \in Kid /\ Bound(i) /\ m.port = child[i].port /\ m.client \in Clients
    BY Kids, InFlight DEF ToChild, Bound, IInv
  <1>2. cPort[m.client] = m.port
    BY DEF ToChild, IInv, Good, GoodMail
  <1>3. ASSUME m.kind # "FRQ" PROVE m.kind = "ACK" /\ InTurn(child[i], m)
    <2>1. Talk(m) /\ m.kind # "DATA"
      BY <1>3 DEF ToChild, Talk
    <2>2. PICK j \in Slots : InTurn(child[j], m) /\ Bound(j) /\ m.port = child[j].port /\ m.kind # "ERROR"
      BY <2>1, Token
    <2>3. j = i
      BY <1>1, <2>2, TheChild
    <2> QED BY <2>1, <2>2, <2>3 DEF Talk
  <1> QED BY <1>1, <1>2, <1>3

LEMMA ChildIgnoreQuick ==
  ASSUME IInv, Quick, NEW m \in net, NEW i \in Slots, ChildIgnore(i, m)
  PROVE  Quick'
  <1>1. /\ child[i].st = "serve" /\ ToChild(i, m) /\ Ignored(i, m) /\ Bound(i)
        /\ child[i] \in Kid /\ m.port = child[i].port
        /\ m.kind # "FRQ" => m.kind = "ACK" /\ InTurn(child[i], m)
    BY ServedTurn DEF ChildIgnore
  <1>2. m.kind = "FRQ"
    BY <1>1 DEF Ignored, InTurn
  <1> DEFINE h == Heard(i, m)
  <1>3. /\ h.st = "serve" /\ h.port = child[i].port /\ h.block = child[i].block
        /\ h.part = child[i].part /\ h.clock = 2
    BY <1>1, HeardKid DEF Heard, IInv, Kid
  <1>4. /\ child' = [child EXCEPT ![i] = h] /\ net' = net \ {m}
        /\ UNCHANGED <<setup, clientVars, tempPort>>
    BY DEF ChildIgnore, ChildTurn, Replace
  <1> HIDE DEF h
  <1>5. KidTurn(i, h)
    BY <1>1, <1>2, <1>3, <1>4, TheChild DEF KidTurn
  <1>6. /\ OneBound' /\ NotBegun' /\ Given' /\ LateByClash' /\ child'[i] = h
        /\ \A x \in net : ~InTurn(child[i], x) => OnTime(x)'
        /\ \A j \in Slots \ {i}, x \in net : InTurn(child[j], x) => InTurn(child[j], x)'
        /\ \A c \in Clients, p \in Ports : Wants(c, p)' <=> Wants(c, p)
    BY <1>5, KidQuick
  <1>7. \A j \in Slots \ {i} : child'[j] = child[j]
    BY <1>4 DEF IInv, Typed
  <1>8. ASSUME NEW x \in net, InTurn(child[i], x) PROVE InTurn(child[i], x)'
    <2>1. length' = length /\ Stays(x.client)
      BY <1>4 DEF Stays, setup, clientVars
    <2>2. Goes(i)
      BY <1>1, <1>3, <1>6 DEF Goes
    <2> QED BY <1>8, <2>1, <2>2, StillInTurn
  <1>9. InTime'
    <2>1. \A x \in net : InTurn(child[i], x) => OnTime(x)'
      BY <1>8 DEF InTurn, OnTime, Sought
    <2> QED BY <1>4, <1>6, <2>1 DEF InTime
  <1>10. Single' /\ OneToken'
    BY <1>4 DEF Quick, Single, OneToken
  <1>11. Kept'
    <2>1. ASSUME NEW j \in Slots, child[j].st = "serve"
          PROVE  child[j].clock = 2 /\ \E x \in net' : InTurn(child[j], x)'
      <3>1. PICK x \in net : InTurn(child[j], x)
        BY <2>1 DEF Quick, Kept
      <3>2. x # m
        BY <3>1, <1>2 DEF InTurn
      <3> QED BY <2>1, <3>1, <3>2, <1>4, <1>6, <1>8 DEF Quick, Kept
    <2> QED BY <2>1, <1>1, <1>3, <1>6, <1>7 DEF Kept
  <1>12. Going'
    BY <1>2, <1>4 DEF Quick, Going, clientVars, Talk
  <1>13. ASSUME NEW c \in Clients, NEW p \in Ports, Wants(c, p)
         PROVE  (AtServe(p) \/ AtFirst(c, p) \/ AtSecond(c, p))'
    <2>1. CASE child[i].port # p
      <3>1. \A x \in net : x.kind = "FRQ" /\ x.port = p => x \in net'
        BY <1>1, <1>4, <2>1
      <3> QED BY <1>5, <1>13, <2>1, <3>1, OthersMinded
    <2>2. CASE child[i].port = p
      BY <1>3, <1>6, <2>2 DEF AtServe
    <2> QED BY <2>1, <2>2
  <1>14. Attended'
    BY <1>6, <1>13 DEF Attended, Minded
  <1> QED BY <1>6, <1>9, <1>10, <1>11, <1>12, <1>14 DEF Quick

LEMMA ChildReceiveErrorQuick ==
  ASSUME IInv, Quick, NEW m \in net, NEW i \in Slots, ChildReceiveError(i, m)
  PROVE  FALSE
  BY ServedTurn DEF ChildReceiveError

LEMMA ChildReceiveAckQuick ==
  ASSUME IInv, Quick, NEW m \in net, NEW i \in Slots, ChildReceiveAck(i, m)
  PROVE  Quick'
  <1>1. /\ child[i].st = "serve" /\ m.kind = "ACK" /\ m.block = child[i].block
        /\ child[i] \in Kid /\ Bound(i) /\ m.port = child[i].port /\ m.client \in Clients
        /\ InTurn(child[i], m) /\ Talk(m) /\ Carries(m)
    BY ServedTurn DEF ChildReceiveAck, Talk, Carries
  <1>2. /\ child[i].block \in 1 .. Restart - 1 /\ child[i].part \in Nat /\ child[i].part \in 1 .. PastEnd
        /\ length \in Nat /\ PastEnd = length + 1 /\ Restart \in Nat /\ Restart > 3
    BY <1>1, Sizes DEF Kid, IInv, Typed
  <1>3. /\ child[i].part < length /\ cPc[m.client] = "fetch"
        /\ cBlock[m.client] = Held(child[i].block) /\ cClock[m.client] = 1
    BY <1>1, <1>2 DEF InTurn
  <1>4. PICK n : n = Next1(i, m)
    OBVIOUS
  <1>5. /\ n.st = "serve" /\ n.port = child[i].port /\ n.peer = m.client
        /\ n.block = cBlock[m.client] + 1 /\ n.part = child[i].part + 1
    <2>1. n.part = child[i].part + 1
      BY <1>1, <1>2, <1>3, <1>4, NextKid DEF IInv
    <2>2. n.block = cBlock[m.client] + 1
      BY <1>1, <1>2, <1>3, <1>4, NextKid DEF IInv, Held
    <2> QED BY <1>1, <1>4, <2>1, <2>2, NextKid DEF IInv
  <1>6. n.clock = 2
    <2>1. Heard(i, m) \in Kid /\ Heard(i, m).clock = 2
      BY <1>1, HeardKid DEF Heard, Kid, IInv
    <2> QED BY <1>4, <2>1 DEF Next1, Kid
  <1>7. PICK S : S = {DataFrom(n)}
    OBVIOUS
  <1>8. /\ child' = [child EXCEPT ![i] = n] /\ net' = (net \ {m}) \cup S
        /\ UNCHANGED <<setup, clientVars, tempPort>>
    BY <1>4, <1>7 DEF ChildReceiveAck, ChildTurn, Replace, Next1
  <1>9. \A x \in S : /\ x.kind = "DATA" /\ x.client = m.client /\ x.port = n.port
                     /\ x.block = n.block /\ x.part = n.part
    BY <1>5, <1>7, Fields DEF DataFrom
  <1>10. (\A x, y \in S : x = y) /\ \E x \in S : x \in net'
    BY <1>7, <1>8
  <1>11. KidTurn(i, n)
    <2>1. \A x : x.kind = "REPLY" => (x \in net' <=> x \in net)
      BY <1>1, <1>8, <1>9
    <2>2. \A j \in Slots \ {i} : Bound(j) => child[j].port # child[i].port
      BY <1>1, TheChild
    <2> QED BY <1>1, <1>5, <1>8, <2>1, <2>2 DEF KidTurn
  <1>12. /\ OneBound' /\ NotBegun' /\ Given' /\ LateByClash' /\ child'[i] = n
         /\ \A x \in net : ~InTurn(child[i], x) => OnTime(x)'
         /\ \A j \in Slots \ {i}, x \in net : InTurn(child[j], x) => InTurn(child[j], x)'
         /\ \A c \in Clients, p \in Ports : Wants(c, p)' <=> Wants(c, p)
    BY <1>11, KidQuick
  <1>13. \A j \in Slots \ {i} : child'[j] = child[j]
    BY <1>8 DEF IInv, Typed
  <1>14. ASSUME NEW x \in S PROVE InTurn(child[i], x)' /\ Talk(x)
    <2>1. length' = length /\ cPc' = cPc /\ cBlock' = cBlock /\ cClock' = cClock
      BY <1>8 DEF setup, clientVars
    <2>2. n.part <= length
      BY <1>2, <1>3, <1>5
    <2> QED BY <1>3, <1>5, <1>9, <1>12, <1>14, <2>1, <2>2 DEF InTurn, Talk
  <1>15. ASSUME NEW x \in net, Talk(x), x.port = m.port PROVE x = m
    BY <1>1, <1>15 DEF Quick, OneToken
  <1>16. InTime'
    <2>1. \A x \in S : OnTime(x)'
      BY <1>9, <1>14 DEF OnTime, Sought
    <2>2. \A x \in net \ {m} : ~InTurn(child[i], x)
      BY <1>1, <1>15 DEF InTurn, Talk
    <2> QED BY <1>8, <1>12, <2>1, <2>2 DEF InTime
  <1>17. Single'
    BY <1>1, <1>8, <1>9, <1>10, SwapSingle
  <1>18. OneToken'
    BY <1>1, <1>5, <1>8, <1>9, <1>10, <1>15 DEF Quick, OneToken
  <1>19. Kept'
    <2>1. ASSUME NEW j \in Slots \ {i}, child[j].st = "serve"
          PROVE  child[j].clock = 2 /\ \E x \in net' : InTurn(child[j], x)'
      <3>1. PICK x \in net : InTurn(child[j], x)
        BY <2>1 DEF Quick, Kept
      <3>2. x # m
        BY <2>1, <3>1, <1>1, TheChild DEF InTurn, Bound
      <3> QED BY <2>1, <3>1, <3>2, <1>8, <1>12 DEF Quick, Kept
    <2>2. child'[i].clock = 2 /\ \E x \in net' : InTurn(child[i], x)'
      BY <1>6, <1>10, <1>12, <1>14
    <2> QED BY <2>1, <2>2, <1>13 DEF Kept
  <1>20. Going'
    <2> SUFFICES ASSUME NEW d \in Clients, cPc[d] = "fetch", cBlock[d] # 0
                 PROVE  cClock[d] = 1 /\ \E x \in net' : Talk(x) /\ x.client = d
      BY <1>8 DEF Going, clientVars
    <2>1. CASE d = m.client
      BY <2>1, <1>3, <1>9, <1>10, <1>14
    <2>2. CASE d # m.client
      BY <2>2, <1>8 DEF Quick, Going
    <2> QED BY <2>1, <2>2
  <1>21. ASSUME NEW c \in Clients, NEW p \in Ports, Wants(c, p)
         PROVE  (AtServe(p) \/ AtFirst(c, p) \/ AtSecond(c, p))'
    <2>1. CASE child[i].port # p
      <3>1. \A x \in net : x.kind = "FRQ" /\ x.port = p => x \in net'
        BY <1>1, <1>8, <2>1
      <3> QED BY <1>11, <1>21, <2>1, <3>1, OthersMinded
    <2>2. CASE child[i].port = p
      BY <1>5, <1>12, <2>2 DEF AtServe
    <2> QED BY <2>1, <2>2
  <1>22. Attended'
    BY <1>12, <1>21 DEF Attended, Minded
  <1> QED BY <1>12, <1>16, <1>17, <1>18, <1>19, <1>20, <1>22 DEF Quick

LEMMA ChildReceiveFinalAckQuick ==
  ASSUME IInv, Quick, NEW m \in net, NEW i \in Slots, ChildReceiveFinalAck(i, m)
  PROVE  Quick'
  <1>1. /\ child[i].st = "serve" /\ m.kind = "ACK" /\ m.block = 0
        /\ child[i] \in Kid /\ Bound(i) /\ m.port = child[i].port /\ m.client \in Clients
        /\ cPort[m.client] = m.port /\ InTurn(child[i], m) /\ Talk(m)
    BY ServedTurn DEF ChildReceiveFinalAck, Talk
  <1>2. cPc[m.client] = "finished"
    BY <1>1 DEF InTurn, Kid
  <1>3. /\ child' = [child EXCEPT ![i] = Free] /\ net' = net \ {m} /\ Free.st = "free"
        /\ UNCHANGED <<setup, clientVars, tempPort>>
    BY DEF ChildReceiveFinalAck, ChildTurn, Replace, Free
  <1>4. KidTurn(i, Free)
    BY <1>1, <1>3 DEF KidTurn
  <1>5. /\ OneBound' /\ NotBegun' /\ Given' /\ LateByClash' /\ child'[i] = Free
        /\ \A x \in net : ~InTurn(child[i], x) => OnTime(x)'
        /\ \A j \in Slots \ {i}, x \in net : InTurn(child[j], x) => InTurn(child[j], x)'
        /\ \A c \in Clients, p \in Ports : Wants(c, p)' <=> Wants(c, p)
    BY <1>4, KidQuick
  <1>6. \A j \in Slots \ {i} : child'[j] = child[j]
    BY <1>3 DEF IInv, Typed
  <1>7. InTime'
    <2>1. \A x \in net \ {m} : ~InTurn(child[i], x)
      BY <1>1 DEF Quick, OneToken, InTurn, Talk
    <2> QED BY <1>3, <1>5, <2>1 DEF InTime
  <1>8. Single' /\ OneToken'
    BY <1>3 DEF Quick, Single, OneToken
  <1>9. Kept'
    <2>1. ASSUME NEW j \in Slots \ {i}, child[j].st = "serve"
          PROVE  child[j].clock = 2 /\ \E x \in net' : InTurn(child[j], x)'
      <3>1. PICK x \in net : InTurn(child[j], x)
        BY <2>1 DEF Quick, Kept
      <3>2. x # m
        BY <2>1, <3>1, <1>1, TheChild DEF InTurn, Bound
      <3> QED BY <2>1, <3>1, <3>2, <1>3, <1>5 DEF Quick, Kept
    <2> QED BY <2>1, <1>3, <1>5, <1>6 DEF Kept
  <1>10. Going'
    <2> SUFFICES ASSUME NEW d \in Clients, cPc[d] = "fetch", cBlock[d] # 0
                 PROVE  cClock[d] = 1 /\ \E x \in net' : Talk(x) /\ x.client = d
      BY <1>3 DEF Going, clientVars
    <2> QED BY <1>2, <1>3 DEF Quick, Going
  <1>11. ASSUME NEW c \in Clients, NEW p \in Ports, Wants(c, p)
         PROVE  (AtServe(p) \/ AtFirst(c, p) \/ AtSecond(c, p))'
    <2>1. child[i].port # p
      BY <1>1, <1>2, <1>11 DEF Wants, GivenTo
    <2>2. \A x \in net : x.kind = "FRQ" /\ x.port = p => x \in net'
      BY <1>1, <1>3
    <2> QED BY <1>4, <1>11, <2>1, <2>2, OthersMinded
  <1>12. Attended'
    BY <1>5, <1>11 DEF Attended, Minded
  <1> QED BY <1>5, <1>7, <1>8, <1>9, <1>10, <1>12 DEF Quick

-----------------------------------------------------------------------------
(* The network and the server process.                                      *)

LEMMA DropQuick ==
  ASSUME IInv, Quick, NEW m \in net, Drop(m)
  PROVE  Quick'
  <1>1. UNCHANGED <<setup, clientVars, tempPort, child>> /\ net' = net \ {m} /\ Unreceived(m)
    BY DEF Drop, Replace
  <1>2. m.kind = "FRQ" /\ m.port \notin BoundPorts
    <2>1. ASSUME Talk(m) PROVE FALSE
      <3>1. PICK j \in Slots : InTurn(child[j], m) /\ Bound(j) /\ m.port = child[j].port
        BY <2>1, Token
      <3> QED BY <3>1, <1>1 DEF Unreceived, InTurn, BoundPorts
    <2>2. m.kind # "REPLY"
      BY <1>1 DEF Unreceived, Quick, InTime, OnTime, Sought
    <2> QED BY <1>1, <2>1, <2>2 DEF Unreceived, Talk
  <1>3. /\ UNCHANGED <<asks, length, cPc, cPort, cTimeouts, cClock, cBlock>>
        /\ \A i \in Slots : Goes(i)
        /\ \A c : Stays(c)
    BY <1>1 DEF Goes, Stays, setup, clientVars
  <1>4. OneBound' /\ NotBegun'
    BY <1>1 DEF Quick, OneBound, NotBegun, Bound
  <1>5. InTime'
    BY <1>1, <1>3, StillOnTime DEF Quick, InTime
  <1>6. Single' /\ OneToken'
    BY <1>1 DEF Quick, Single, OneToken
  <1>7. Kept'
    <2>1. ASSUME NEW j \in Slots, child[j].st = "serve"
          PROVE  child[j].clock = 2 /\ \E x \in net' : InTurn(child[j], x)'
      <3>1. PICK x \in net : InTurn(child[j], x)
        BY <2>1 DEF Quick, Kept
      <3>2. x # m
        BY <3>1, <1>2 DEF InTurn
      <3>3. InTurn(child[j], x)'
        BY <3>1, <1>3, StillInTurn
      <3> QED BY <2>1, <3>2, <3>3, <1>1 DEF Quick, Kept
    <2> QED BY <2>1, <1>1 DEF Kept
  <1>8. Going'
    BY <1>1, <1>2, <1>3 DEF Quick, Going, Talk
  <1>9. \A c, p : GivenTo(c, p)' <=> GivenTo(c, p)
    BY <1>1, <1>2, <1>3 DEF GivenTo
  <1>10. Given'
    BY <1>1, <1>9, StillGiven DEF Quick
  <1>11. ASSUME NEW c \in Clients, NEW p \in Ports, Wants(c, p)'
         PROVE  (AtServe(p) \/ AtFirst(c, p) \/ AtSecond(c, p))'
    <2>1. Wants(c, p)
      BY <1>3, <1>9, <1>11 DEF Wants
    <2>2. AtServe(p) => AtServe(p)'
      BY <1>1 DEF AtServe
    <2>3. AtFirst(c, p) => AtFirst(c, p)'
      BY <1>1, <1>2, <1>3 DEF AtFirst
    <2>4. ASSUME AtSecond(c, p) PROVE AtSecond(c, p)'
      <3>1. ASSUME m.client = c PROVE FALSE
        <4>1. cPort[c] = m.port /\ cPc[c] = "fetch"
          BY <1>2, <2>4, <3>1 DEF IInv, Good, GoodMail, AtSecond
        <4>2. \A y \in net : y.kind = "REPLY" => cPc[y.client] = "find"
          BY DEF Quick, InTime, OnTime, Sought
        <4>3. p = m.port
          BY <2>1, <4>1, <4>2 DEF Wants, GivenTo
        <4>4. p \in BoundPorts
          BY <2>4 DEF AtSecond, BoundPorts, Bound
        <4> QED BY <1>2, <4>3, <4>4
      <3> QED BY <1>1, <1>3, <2>4, <3>1 DEF AtSecond
    <2> QED BY <2>1, <2>2, <2>3, <2>4 DEF Quick, Attended, Minded
  <1>12. Attended'
    BY <1>11 DEF Attended, Minded
  <1>13. LateByClash'
    BY <1>3 DEF Quick, LateByClash, Excused, SharedBy
  <1> QED BY <1>4, <1>5, <1>6, <1>7, <1>8, <1>10, <1>12, <1>13 DEF Quick

LEMMA ListenQuick ==
  ASSUME IInv, Quick, NEW m \in net, NEW port \in Ports \cup {Elsewhere}, NEW i \in Slots,
         Listen(m, port, i)
  PROVE  Quick'
  <1>1. m.kind = "BOOT" /\ child[i] = Free /\ child[i].st = "free" /\ m.client \in Clients
    BY InFlight DEF Listen, Free, IInv
  <1>2. UNCHANGED <<setup, clientVars>> /\ tempPort' = port
    BY DEF Listen
  <1>3. PICK ch : /\ child' = [child EXCEPT ![i] = ch]
                  /\ ch.st = "born" /\ ch.port = port /\ ch.part = 1
    <2>1. PICK ch : ch = Child("born", port, m.client, 0)
      OBVIOUS
    <2>2. child' = [child EXCEPT ![i] = ch]
      BY <2>1 DEF Listen
    <2>3. ch.st = "born" /\ ch.port = port /\ ch.part = 1
      BY <2>1 DEF Child
    <2> QED BY <2>2, <2>3
  <1>4. PICK S : /\ net' = (net \ {m}) \cup S /\ (\A x, y \in S : x = y)
                 /\ \A x \in S : x.kind = "REPLY" /\ x.client = m.client /\ x.port = port
                 /\ Matches(m.name) => port \in Ports /\ \E x \in S : TRUE
                 /\ ~Matches(m.name) => S = {} /\ port = tempPort
    <2>1. CASE Matches(m.name)
      <3>1. PICK S : S = {Reply(m.client, port)}
        OBVIOUS
      <3>2. net' = (net \ {m}) \cup S /\ port \in Ports
        BY <2>1, <3>1 DEF Listen, Replace
      <3>3. \A x \in S : x.kind = "REPLY" /\ x.client = m.client /\ x.port = port
        BY <3>1, Fields DEF Reply
      <3>4. (\A x, y \in S : x = y) /\ \E x \in S : TRUE
        BY <3>1
      <3> QED BY <2>1, <3>2, <3>3, <3>4
    <2>2. CASE ~Matches(m.name)
      <3>1. PICK S : S = {}
        OBVIOUS
      <3>2. net' = (net \ {m}) \cup S /\ port = tempPort
        BY <2>2, <3>1 DEF Listen, Replace
      <3>3. \A x : x \notin S
        BY <3>1
      <3> QED BY <2>2, <3>1, <3>2, <3>3
    <2> QED BY <2>1, <2>2
  <1>5. /\ child'[i] = ch /\ \A j \in Slots \ {i} : child'[j] = child[j]
    BY <1>3 DEF IInv, Typed
  <1>6. /\ UNCHANGED <<asks, length, cPc, cPort, cTimeouts, cClock, cBlock>> /\ \A c : Stays(c)
    BY <1>2 DEF Stays, setup, clientVars
  <1>7. \A j \in Slots : child[j].st # "free" => Goes(j) /\ child'[j] = child[j]
    BY <1>1, <1>5 DEF Goes
  <1>8. OneBound' /\ NotBegun'
    <2>1. \A j \in Slots : Bound(j)' => Bound(j) /\ child'[j] = child[j]
      BY <1>3, <1>5 DEF Bound
    <2> QED BY <1>3, <1>5, <2>1 DEF Quick, OneBound, NotBegun
  <1>9. Matches(m.name) => cPc[m.client] = "find" /\ cClock[m.client] = 1 /\ Carries(m)
    BY <1>1 DEF Quick, InTime, OnTime, Sought, Carries
  <1>10. InTime'
    <2>1. \A x \in net : OnTime(x)'
      BY <1>6, <1>7, StillOnTime DEF Quick, InTime
    <2>2. \A x \in S : OnTime(x)'
      BY <1>4, <1>6, <1>9 DEF OnTime, Talk
    <2> QED BY <1>4, <2>1, <2>2 DEF InTime
  <1>11. Single'
    <2>1. CASE Matches(m.name)
      BY <2>1, <1>4, <1>9, SwapSingle
    <2>2. CASE ~Matches(m.name)
      BY <2>2, <1>4 DEF Quick, Single
    <2> QED BY <2>1, <2>2
  <1>12. OneToken'
    BY <1>4 DEF Quick, OneToken, Talk
  <1>13. Kept'
    <2>1. ASSUME NEW j \in Slots, child[j].st = "serve"
          PROVE  child[j].clock = 2 /\ \E x \in net' : InTurn(child[j], x)'
      <3>1. PICK x \in net : InTurn(child[j], x)
        BY <2>1 DEF Quick, Kept
      <3>2. x # m
        BY <3>1, <1>1 DEF InTurn
      <3>3. InTurn(child[j], x)'
        BY <2>1, <3>1, <1>6, <1>7, StillInTurn
      <3> QED BY <2>1, <3>2, <3>3, <1>4 DEF Quick, Kept
    <2> QED BY <2>1, <1>3, <1>5 DEF Kept
  <1>14. Going'
    BY <1>1, <1>4, <1>6 DEF Quick, Going, Talk
  <1>15. /\ \A c, p : GivenTo(c, p) => GivenTo(c, p)'
         /\ \A c, p : GivenTo(c, p)' => GivenTo(c, p) \/ (c = m.client /\ p = port /\ Matches(m.name))
         /\ Matches(m.name) => GivenTo(m.client, port)'
    <2>1. \A c, p : GivenTo(c, p) => GivenTo(c, p)'
      BY <1>1, <1>4, <1>6 DEF GivenTo
    <2>2. ASSUME NEW c, NEW p, GivenTo(c, p)'
          PROVE  GivenTo(c, p) \/ (c = m.client /\ p = port /\ Matches(m.name))
      BY <2>2, <1>1, <1>4, <1>6 DEF GivenTo
    <2>3. Matches(m.name) => GivenTo(m.client, port)'
      BY <1>4 DEF GivenTo
    <2> QED BY <2>1, <2>2, <2>3
  <1>16. Given'
    <2>1. ASSUME NEW p, Known(p) PROVE Known(p)'
      BY <2>1, <1>15 DEF Known
    <2>2. Known(port)'
      <3>1. CASE Matches(m.name)
        BY <3>1, <1>1, <1>15 DEF Known
      <3>2. CASE ~Matches(m.name)
        BY <3>2, <1>4, <2>1 DEF Quick, Given
      <3> QED BY <3>1, <3>2
    <2>3. Known(tempPort)'
      BY <2>2, <1>2 DEF Known, GivenTo
    <2>4. ASSUME NEW j \in Slots, child'[j].st # "free"
          PROVE  Known(child[j].port)'
      <3>1. PICK q : q = child'[j].port
        OBVIOUS
      <3>2. Known(q)'
        <4>1. CASE j = i
          BY <4>1, <3>1, <2>2, <1>3, <1>5
        <4>2. CASE j # i
          BY <4>2, <3>1, <2>1, <2>4, <1>5 DEF Quick, Given
        <4> QED BY <4>1, <4>2
      <3> QED BY <3>1, <3>2 DEF Known, GivenTo
    <2> QED BY <2>3, <2>4 DEF Given
  <1>17. ASSUME Matches(m.name), NEW p \in Ports PROVE ~GivenTo(m.client, p)
    <2>1. cPort[m.client] = NoPort
      BY <1>1, <1>9, <1>17 DEF IInv, Good, GoodClient
    <2>2. \A x \in net : x.client = m.client => x.kind # "REPLY"
      BY <1>1, <1>9, <1>17 DEF Quick, Single, Carries
    <2> QED BY <2>1, <2>2, ServerAssumption DEF GivenTo
  <1>18. ASSUME NEW c \in Clients, NEW p \in Ports, Wants(c, p)'
         PROVE  (AtServe(p) \/ AtFirst(c, p) \/ AtSecond(c, p))'
    <2>1. CASE Matches(m.name) /\ p = port
      <3>1. c = m.client
        BY <2>1, <1>1, <1>15, <1>18 DEF Wants
      <3>2. \A d \in Clients : ~GivenTo(d, p)
        BY <2>1, <3>1, <1>15, <1>17, <1>18 DEF Wants
      <3>3. \A j \in Slots : child[j].st # "free" => child[j].port # p
        BY <3>2 DEF Quick, Given, Known
      <3>4. \A j \in Slots : child'[j].st = "wait" => child'[j].port # p
        BY <3>3, <1>3, <1>5
      <3>5. \E x \in net' : x.kind = "REPLY" /\ x.client = c /\ x.port = p
        BY <2>1, <3>1, <1>4
      <3>6. AtFirst(c, p)'
        BY <2>1, <3>4, <3>5, <1>3, <1>5 DEF AtFirst
      <3> QED BY <3>6
    <2>2. CASE ~(Matches(m.name) /\ p = port)
      <3>1. Wants(c, p)
        BY <2>2, <1>6, <1>15, <1>18 DEF Wants
      <3>2. AtServe(p) => AtServe(p)'
        BY <1>7 DEF AtServe
      <3>3. ASSUME AtFirst(c, p) PROVE AtFirst(c, p)'
        <4>1. \A j \in Slots : child'[j].st = "wait" /\ child'[j].port = p => child'[j].clock = 2
          BY <3>3, <1>3, <1>5 DEF AtFirst
        <4>2. \E j \in Slots : child'[j].st \in {"born", "wait"} /\ child'[j].port = p
          BY <3>3, <1>7 DEF AtFirst
        <4> QED BY <3>3, <4>1, <4>2, <1>1, <1>4, <1>6 DEF AtFirst
      <3>4. AtSecond(c, p) => AtSecond(c, p)'
        <4>1. ASSUME AtSecond(c, p)
              PROVE  \E j \in Slots : child'[j].st = "wait" /\ child'[j].port = p /\ child'[j].clock = 1
          BY <4>1, <1>7 DEF AtSecond
        <4> QED BY <4>1, <1>1, <1>4, <1>6 DEF AtSecond
      <3> QED BY <3>1, <3>2, <3>3, <3>4 DEF Quick, Attended, Minded
    <2> QED BY <2>1, <2>2
  <1>19. Attended'
    BY <1>18 DEF Attended, Minded
  <1>20. LateByClash'
    BY <1>6 DEF Quick, LateByClash, Excused, SharedBy
  <1> QED BY <1>8, <1>10, <1>11, <1>12, <1>13, <1>14, <1>16, <1>19, <1>20 DEF Quick

LEMMA StillQuick ==
  ASSUME Quick, UNCHANGED vars
  PROVE  Quick'
  <1>1. /\ UNCHANGED <<asks, length, cPc, cPort, cTimeouts, cClock, cBlock, tempPort, child, net>>
    BY DEF vars, setup, clientVars
  <1>2. OneBound' /\ NotBegun' /\ Single' /\ OneToken'
    BY <1>1 DEF Quick, OneBound, NotBegun, Bound, Single, OneToken
  <1>3. InTime' /\ Kept' /\ Going'
    BY <1>1 DEF Quick, InTime, OnTime, InTurn, Kept, Going
  <1>4. Given' /\ LateByClash'
    BY <1>1 DEF Quick, Given, Known, GivenTo, LateByClash, Excused, SharedBy
  <1>5. Attended'
    BY <1>1 DEF Quick, Attended, Minded, Wants, GivenTo, AtServe, AtFirst, AtSecond
  <1> QED BY <1>2, <1>3, <1>4, <1>5 DEF Quick

LEMMA StepQuick ==
  ASSUME IInv, [Next]_vars, losses = 0 => Quick
  PROVE  losses' = 0 => Quick'
  <1>1. CASE \E m \in net : Lose(m)
    BY <1>1 DEF Lose, IInv, Typed, TypeOK
  <1>2. CASE [Next]_vars /\ losses' = losses
    <2> SUFFICES ASSUME Quick PROVE Quick'
      BY <1>2
    <2>1. ASSUME NEW c \in Clients, Broadcast(c) \/ FindTimeout(c) \/ FetchTimeout(c) PROVE Quick'
      BY <2>1, BroadcastQuick, FetchTimeoutQuick
    <2>2. ASSUME NEW c \in Clients, NEW m \in net,
                 FindReply(c, m) \/ FetchOldData(c, m) \/ FetchData(c, m)
          PROVE  Quick'
      BY <2>2, FindReplyQuick, FetchOldDataQuick, FetchDataQuick
    <2>3. ASSUME NEW m \in net, NEW i \in Slots, NEW port \in Ports \cup {Elsewhere},
                 Listen(m, port, i)
          PROVE  Quick'
      BY <2>3, ListenQuick
    <2>4. ASSUME NEW m \in net, NEW i \in Slots,
                 \/ ChildReceiveFrq(i, m)
                 \/ ChildIgnore(i, m) \/ ChildReceiveError(i, m)
                 \/ ChildReceiveAck(i, m) \/ ChildReceiveFinalAck(i, m)
          PROVE  Quick'
      BY <2>4, ChildReceiveFrqQuick, ChildIgnoreQuick, ChildReceiveErrorQuick,
         ChildReceiveAckQuick, ChildReceiveFinalAckQuick
    <2>5. ASSUME NEW i \in Slots, ChildBind(i) \/ ChildTimeout(i) PROVE Quick'
      BY <2>5, ChildBindQuick, ChildTimeoutQuick
    <2>6. ASSUME NEW m \in net, Drop(m) \/ Lose(m) PROVE Quick'
      <3>1. ~Lose(m)
        BY <1>2 DEF Lose, IInv, Typed, TypeOK
      <3> QED BY <2>6, <3>1, DropQuick
    <2>7. CASE Tick
      BY <2>7, TickQuick
    <2>8. CASE UNCHANGED vars
      BY <2>8, StillQuick
    <2> QED BY <1>2, <2>1, <2>2, <2>3, <2>4, <2>5, <2>6, <2>7, <2>8 DEF Next, Step, Listening
  <1>3. [Next]_vars => losses' = losses \/ \E m \in net : Lose(m)
    <2>1. \A c \in Clients, m \in net :
             FindReply(c, m) \/ FetchOldData(c, m) \/ FetchData(c, m) => losses' = losses
      BY DEF FindReply, FetchOldData, FetchData, ClientTurn
    <2>2. \A c \in Clients : Broadcast(c) \/ FindTimeout(c) \/ FetchTimeout(c) => losses' = losses
      BY DEF Broadcast, FindTimeout, FetchTimeout, ClientTurn
    <2>3. \A i \in Slots, m \in net :
             /\ \A port \in Ports \cup {Elsewhere} : Listen(m, port, i) => losses' = losses
             /\ ChildReceiveFrq(i, m) \/ ChildIgnore(i, m) \/ ChildReceiveError(i, m)
                \/ ChildReceiveAck(i, m) \/ ChildReceiveFinalAck(i, m) => losses' = losses
      BY DEF Listen, ChildReceiveFrq, ChildIgnore, ChildReceiveError, ChildReceiveAck,
             ChildReceiveFinalAck, ChildTurn
    <2>4. \A i \in Slots : ChildBind(i) \/ ChildTimeout(i) => losses' = losses
      BY DEF ChildBind, ChildTimeout, ChildTurn
    <2>5. (Tick => losses' = losses) /\ \A m \in net : Drop(m) => losses' = losses
      BY DEF Tick, Drop
    <2>6. UNCHANGED vars => losses' = losses
      BY DEF vars
    <2> QED BY <2>1, <2>2, <2>3, <2>4, <2>5, <2>6 DEF Next, Step, Listening
  <1> QED BY <1>1, <1>2, <1>3

\* While nothing is lost, a client whose FRQ passes and who was given a port
\* gives up only if another client was given the same port, for any number of
\* clients and ports: the fork before bind(), a FRQ that comes too early, the children
\* of requests that do not match, which clients that ask for another file make
\* from the start, and the retries of others do no harm (main,
\* listenClient, the request loop of startMyftpServer).
THEOREM UnservedIsClash == Spec => []UnservedOnlyByClash
  <1>1. Init => (losses = 0 => Quick)
    BY InitQuick
  <1>2. IInv /\ (losses = 0 => Quick) /\ [Next]_vars => (losses = 0 => Quick)'
    BY StepQuick
  <1>3. IInv /\ (losses = 0 => Quick) => UnservedOnlyByClash
    BY DEF Quick, LateByClash, Excused, UnservedOnlyByClash
  <1>4. Spec => [](losses = 0 => Quick)
    BY <1>1, <1>2, Invariance, PTL DEF Spec
  <1> QED BY <1>3, <1>4, Invariance, PTL

=============================================================================

------------------------ MODULE MyftpTransferProofs ------------------------
(***************************************************************************)
(* Proofs about MyftpTransfer, and about MyftpTimed, which puts it on a    *)
(* clock, for every file length, wrap-around, time-out and bound that      *)
(* satisfies TransferAssumption and TimedAssumption.                       *)
(***************************************************************************)
EXTENDS MyftpTransferInv, MyftpTimed, TLAPS
-----------------------------------------------------------------------------
(* Block numbers. *)

\* Two multiples of C that differ by less than C are equal.
LEMMA MultiplesApart ==
    ASSUME NEW C \in Nat, NEW q \in Nat, NEW r \in Nat,
           q * C - r * C < C, r * C - q * C < C
    PROVE  q = r
<1>1. ASSUME NEW x \in Nat, NEW y \in Nat, x > y PROVE x * C - y * C >= C
  <2>1. PICK d \in Nat : x = y + 1 + d
    <3>1. x - y - 1 \in Nat /\ x = y + 1 + (x - y - 1)
      BY <1>1
    <3> QED BY <3>1
  <2>2. x * C = y * C + C + d * C
    BY <2>1
  <2>3. d * C >= 0
    BY <2>1
  <2>4. x * C \in Nat /\ y * C \in Nat /\ d * C \in Nat
    BY <2>1
  <2> QED BY <2>2, <2>3, <2>4
<1>2. q * C \in Nat /\ r * C \in Nat
  OBVIOUS
<1>3. CASE q > r
  BY <1>1, <1>2, <1>3
<1>4. CASE r > q
  BY <1>1, <1>2, <1>4
<1> QED BY <1>3, <1>4

LEMMA WrapSize == BlockWrap \in Nat /\ BlockWrap > 3 /\ BlockWrap - 2 \in Nat
  BY TransferAssumption

\* The server's block++ numbers the next block.
LEMMA NumberedNext ==
    ASSUME NEW k \in Nat \ {0}, NEW b \in Nat, Numbered(k, b)
    PROVE  Numbered(k + 1, NextBlock(b))
<1> DEFINE C == BlockWrap - 2
<1>1. C \in Nat /\ BlockWrap > 3
  BY WrapSize
<1>2. CASE k = 1 /\ b = 1
  <2>1. k + 1 = 2 + 0 * C /\ NextBlock(b) = 2 /\ 2 \in 2 .. BlockWrap - 1
    BY <1>2, WrapSize DEF NextBlock
  <2> QED BY <2>1 DEF Numbered
<1>3. CASE b \in 2 .. BlockWrap - 1 /\ \E q \in 0 .. k : k = b + q * C
  <2>1. PICK q \in 0 .. k : k = b + q * C
    BY <1>3
  <2>2. CASE b + 1 = BlockWrap
    <3>1. (q + 1) * C = q * C + C /\ q * C \in Nat
      BY <1>1
    <3>2. k + 1 = 2 + (q + 1) * C /\ q + 1 \in 0 .. k + 1
      BY <1>1, <2>1, <2>2, <3>1
    <3>3. NextBlock(b) = 2 /\ 2 \in 2 .. BlockWrap - 1
      BY <2>2, WrapSize DEF NextBlock
    <3> QED BY <3>2, <3>3 DEF Numbered
  <2>3. CASE b + 1 # BlockWrap
    <3>1. q * C \in Nat
      BY <1>1
    <3>2. k + 1 = (b + 1) + q * C /\ q \in 0 .. k + 1
      BY <1>1, <2>1, <3>1
    <3>3. NextBlock(b) = b + 1 /\ b + 1 \in 2 .. BlockWrap - 1
      BY <1>3, <2>3, WrapSize DEF NextBlock
    <3> QED BY <3>2, <3>3 DEF Numbered
  <2> QED BY <2>2, <2>3
<1> QED BY <1>2, <1>3 DEF Numbered

\* A number on the wire names one block among BlockWrap - 2 successive ones.
LEMMA NumberedOnce ==
    ASSUME NEW i \in Nat \ {0}, NEW k \in Nat \ {0}, NEW b \in Nat,
           Numbered(i, b), Numbered(k, b),
           k - i < BlockWrap - 2, i - k < BlockWrap - 2
    PROVE  i = k
<1> DEFINE C == BlockWrap - 2
<1>1. C \in Nat
  BY WrapSize
<1>2. CASE b = 1
  BY <1>2 DEF Numbered
<1>3. CASE b # 1
  <2>1. PICK q \in Nat : i = b + q * C
    BY <1>3 DEF Numbered
  <2>2. PICK r \in Nat : k = b + r * C
    BY <1>3 DEF Numbered
  <2>3. q * C \in Nat /\ r * C \in Nat
    BY <1>1
  <2>4. q * C - r * C < C /\ r * C - q * C < C
    BY <2>1, <2>2, <2>3, <1>1
  <2>5. q = r
    BY <2>4, <1>1, MultiplesApart
  <2> QED BY <2>1, <2>2, <2>5
<1> QED BY <1>2, <1>3

\* A block has one number.
LEMMA NumberedUnique ==
    ASSUME NEW k \in Nat \ {0}, NEW b \in Nat, NEW c \in Nat,
           Numbered(k, b), Numbered(k, c)
    PROVE  b = c
<1> DEFINE C == BlockWrap - 2
<1>1. C \in Nat
  BY WrapSize
<1>2. CASE k = 1
  <2>1. ASSUME NEW d \in Nat, Numbered(k, d) PROVE d = 1
    <3>1. CASE d # 1
      <4>1. PICK q \in Nat : d >= 2 /\ k = d + q * C
        BY <2>1, <3>1 DEF Numbered
      <4>2. q * C \in Nat
        BY <1>1
      <4> QED BY <1>2, <4>1, <4>2
    <3> QED BY <3>1
  <2> QED BY <2>1
<1>3. CASE k # 1
  <2>1. PICK q \in Nat : k = b + q * C
    BY <1>3 DEF Numbered
  <2>2. PICK r \in Nat : k = c + r * C
    BY <1>3 DEF Numbered
  <2>3. q * C \in Nat /\ r * C \in Nat
    BY <1>1
  <2>4. b \in 2 .. C + 1 /\ c \in 2 .. C + 1
    BY <1>3, WrapSize DEF Numbered
  <2>5. q * C - r * C < C /\ r * C - q * C < C
    BY <2>1, <2>2, <2>3, <2>4, <1>1
  <2>6. q = r
    BY <2>5, <1>1, MultiplesApart
  <2> QED BY <2>1, <2>2, <2>3, <2>6
<1> QED BY <1>2, <1>3
-----------------------------------------------------------------------------
(* Messages. *)

LEMMA ReceiveKeeps ==
    ASSUME NEW m, NEW S, NEW now, Receive(m, S, now), faults \in 0 .. MaxFaults
    PROVE  /\ \A x \in net' : (x \in net \/ x \in S) /\ now - x.at <= Lag
           /\ faults' \in 0 .. MaxFaults
  BY TransferAssumption DEF Receive, Alive

LEMMA SentAreMessages ==
    ASSUME IInv
    PROVE  /\ MsgInv(Frq)
           /\ sRead # 0 => \A b \in Nat : MsgInv(Error(b, sRead))
           /\ sRead # 0 => MsgInv(Data(sBlock, sRead))
<1> USE DEF Packet, Packets, Ops
<1>1. sRead \in Nat /\ sBlock \in Nat
  BY DEF IInv, TypeOK
<1>2. MsgInv(Frq)
  BY DEF MsgInv, Frq
<1>3. ASSUME sRead # 0, NEW b \in Nat PROVE MsgInv(Error(b, sRead))
  BY <1>1, <1>3 DEF MsgInv, Error
<1>4. ASSUME sRead # 0 PROVE MsgInv(Data(sBlock, sRead))
  BY <1>1, <1>4, TransferAssumption DEF MsgInv, Data, DataInv, IInv, ServerInv
<1> QED BY <1>2, <1>3, <1>4

\* A step that writes no block, reads none and sends only proper messages
\* preserves the invariant.
LEMMA QuietStep ==
    ASSUME IInv, TypeOK', UNCHANGED <<sRead, sBlock, cBlock, written>>,
           cPc' = "finished" <=> cPc = "finished",
           sPc' \in {"frq", "ack"} => sPc' = sPc,
           sPc' = "done" => cPc' = "finished",
           \A x \in net' : MsgInv(x)
    PROVE  IInv'
<1>1. WrittenIsPrefix' /\ InStep'
  BY DEF IInv, WrittenIsPrefix, InStep
<1>2. StartInv' /\ ServerInv'
  BY DEF IInv, StartInv, ServerInv, Blocks, Numbered
<1>3. ClientInv'
  BY DEF IInv, ClientInv, Blocks, Numbered
<1>4. NetInv'
  <2>1. ASSUME NEW x, MsgInv(x) PROVE MsgInv(x)'
    BY <2>1 DEF MsgInv, DataInv, AckInv, Blocks, Numbered
  <2> QED BY <2>1 DEF NetInv
<1> QED BY <1>1, <1>2, <1>3, <1>4 DEF IInv
-----------------------------------------------------------------------------
(* The steps of the server. *)

LEMMA ServerFrqTimeoutInv == IInv /\ ServerFrqTimeout => IInv'
<1> SUFFICES ASSUME IInv, ServerFrqTimeout PROVE IInv'
  OBVIOUS
<1> USE DEF ServerFrqTimeout, clientVars
<1>1. TypeOK'
  BY TransferAssumption DEF IInv, TypeOK
<1>2. \A x \in net' : MsgInv(x)
  BY DEF IInv, NetInv
<1> QED BY <1>1, <1>2, QuietStep DEF IInv, ServerInv

LEMMA ServerAckTimeoutInv == IInv /\ ServerAckTimeout => IInv'
<1> SUFFICES ASSUME IInv, ServerAckTimeout PROVE IInv'
  OBVIOUS
<1> USE DEF ServerAckTimeout, clientVars, Send
<1>1. \A x \in net' : MsgInv(x)
  BY SentAreMessages DEF IInv, NetInv, StartInv
<1>2. TypeOK'
  BY <1>1, TransferAssumption DEF IInv, TypeOK, MsgInv
<1> QED BY <1>1, <1>2, QuietStep DEF IInv, ServerInv

LEMMA ServerStayInv ==
    ASSUME IInv, NEW m \in net, NEW S, ServerStay(m, S),
           S \subseteq {Data(sBlock, sRead)}
    PROVE  IInv'
<1> USE DEF ServerStay, clientVars
<1>1. faults \in 0 .. MaxFaults
  BY DEF IInv, TypeOK
<1>2. /\ \A x \in net' : x \in net \/ x \in S
      /\ faults' \in 0 .. MaxFaults
  BY <1>1, ReceiveKeeps
<1>3. \A x \in net' : MsgInv(x)
  BY <1>2, SentAreMessages DEF IInv, NetInv, StartInv
<1>4. TypeOK'
  BY <1>2, <1>3, TransferAssumption DEF IInv, TypeOK, MsgInv
<1> QED BY <1>3, <1>4, QuietStep DEF IInv, ServerInv

LEMMA ServerReceiveFinalAckInv ==
    ASSUME IInv, NEW m \in net, ServerReceiveFinalAck(m)
    PROVE  IInv'
<1> USE DEF ServerReceiveFinalAck, clientVars
<1>1. faults \in 0 .. MaxFaults
  BY DEF IInv, TypeOK
<1>2. /\ \A x \in net' : x \in net
      /\ faults' \in 0 .. MaxFaults
  BY <1>1, ReceiveKeeps
<1>3. \A x \in net' : MsgInv(x)
  BY <1>2 DEF IInv, NetInv
<1>4. TypeOK'
  BY <1>2, <1>3, TransferAssumption DEF IInv, TypeOK, MsgInv
<1>5. cPc = "finished"
  BY DEF IInv, NetInv, MsgInv, AckInv, Numbered
<1> QED BY <1>3, <1>4, <1>5, QuietStep DEF IInv, ServerInv

\* The FRQ loop ends: the first block is read.
LEMMA ServerFrqReceiveInv ==
    ASSUME IInv, NEW m \in net, ServerFrqReceive(m)
    PROVE  IInv'
<1> USE DEF ServerFrqReceive, clientVars
<1>1. faults \in 0 .. MaxFaults
  BY DEF IInv, TypeOK
<1>2. CASE ~m.ok
  <2>1. /\ \A x \in net' : x \in net
        /\ faults' \in 0 .. MaxFaults
    BY <1>1, <1>2, ReceiveKeeps
  <2>2. \A x \in net' : MsgInv(x)
    BY <2>1 DEF IInv, NetInv
  <2>3. TypeOK'
    BY <1>2, <2>1, <2>2, TransferAssumption DEF IInv, TypeOK, MsgInv
  <2> QED BY <1>2, <2>2, <2>3, QuietStep DEF IInv, ServerInv
<1>3. CASE m.ok
  <2>1. /\ \A x \in net' : x \in net \/ x = Data(1, 1)
        /\ faults' \in 0 .. MaxFaults
    BY <1>1, <1>3, ReceiveKeeps DEF IInv, StartInv
  <2>2. /\ sRead = 0 /\ sRead' = 1 /\ sBlock = 1 /\ sBlock' = 1
        /\ Blocks = 0 /\ written' = written
        /\ cPc' = cPc /\ cBlock' = cBlock
    BY <1>3 DEF IInv, StartInv
  <2>3. \A x \in net' : MsgInv(x)'
    <3>1. ASSUME NEW x \in net PROVE MsgInv(x)'
      BY <2>2, <3>1 DEF MsgInv, IInv, NetInv
    <3>2. MsgInv(Data(1, 1))'
      BY <2>2, TransferAssumption
      DEF MsgInv, DataInv, Data, Packet, Packets, Ops, Numbered
    <3> QED BY <2>1, <3>1, <3>2
  <2>4. TypeOK'
    BY <1>3, <2>1, <2>2, <2>3, TransferAssumption DEF IInv, TypeOK, MsgInv
  <2>5. WrittenIsPrefix' /\ InStep'
    BY <2>2, TransferAssumption DEF IInv, WrittenIsPrefix, InStep, Blocks
  <2>6. StartInv' /\ ServerInv' /\ ClientInv'
    BY <1>3, <2>2 DEF IInv, StartInv, ServerInv, ClientInv, Numbered, Blocks
  <2> QED BY <2>3, <2>4, <2>5, <2>6 DEF IInv, NetInv
<1> QED BY <1>2, <1>3

\* An ACK with the current number is an ACK of the current block, however many
\* times the numbers have wrapped.
LEMMA AckIsCurrent ==
    ASSUME IInv, NEW m \in net, m.ok, m.op = "ACK", m.block = sBlock, sPc = "ack"
    PROVE  sRead = Blocks /\ Blocks < FileBlocks
<1>1. sRead \in Nat \ {0} /\ Blocks \in Nat /\ sBlock \in Nat \ {0} /\ Blocks <= sRead
  BY DEF IInv, TypeOK, StartInv, InStep, Blocks
<1>2. AckInv(m) /\ m.at \in Nat
  BY DEF IInv, NetInv, MsgInv, Packets
<1>3. PICK a \in 1 .. Blocks :
         a < FileBlocks /\ m.at - a <= Lag /\ Numbered(a, sBlock)
  BY <1>1, <1>2 DEF AckInv
<1>4. sRead - a <= 2 * Lag
  BY <1>1, <1>2, <1>3, TransferAssumption DEF AckInv
<1>5. a = sRead
  BY <1>1, <1>3, <1>4, NumberedOnce, TransferAssumption DEF IInv, ServerInv
<1> QED BY <1>1, <1>3, <1>5

LEMMA ServerReceiveAckInv ==
    ASSUME IInv, NEW m \in net, ServerReceiveAck(m)
    PROVE  IInv'
<1> USE DEF ServerReceiveAck, clientVars
<1>1. sRead = Blocks /\ Blocks < FileBlocks /\ cPc # "finished"
  BY AckIsCurrent, TransferAssumption DEF IInv, ClientInv
<1>2. /\ \A x \in net' : /\ x \in net \/ x = Data(sBlock', sRead')
                         /\ sRead' - x.at <= Lag
      /\ faults' \in 0 .. MaxFaults
  BY ReceiveKeeps DEF IInv, TypeOK
<1>3. /\ sRead \in Nat \ {0} /\ sRead' = sRead + 1
      /\ sBlock \in 1 .. BlockWrap - 1 /\ sBlock' \in 1 .. BlockWrap - 1
  BY WrapSize DEF IInv, TypeOK, StartInv, NextBlock
<1>4. Numbered(sRead', sBlock')
  BY <1>3, NumberedNext DEF IInv, ServerInv
<1>5. \A x \in net' : MsgInv(x)'
  <2>1. ASSUME NEW x \in net, sRead' - x.at <= Lag PROVE MsgInv(x)'
    <3>1. MsgInv(x)
      BY DEF IInv, NetInv
    <3>2. x.ok /\ x.op = "DATA" => DataInv(x)'
      BY <1>3, <2>1, <3>1 DEF MsgInv, DataInv, Numbered
    <3>3. x.ok /\ x.op = "ACK" => AckInv(x)'
      BY <1>3, <2>1, <3>1 DEF MsgInv, AckInv, Numbered, Blocks, Packets
    <3> QED BY <1>3, <3>1, <3>2, <3>3 DEF MsgInv
  <2>2. ASSUME NEW x, x = Data(sBlock', sRead') PROVE MsgInv(x)'
    BY <1>3, <1>4, <2>2, TransferAssumption
    DEF MsgInv, DataInv, Data, Packet, Packets, Ops, Numbered
  <2> QED BY <1>2, <2>1, <2>2
<1>6. TypeOK'
  BY <1>2, <1>3, <1>5, TransferAssumption DEF IInv, TypeOK, MsgInv
<1>7. WrittenIsPrefix' /\ InStep'
  BY <1>1, <1>3, TransferAssumption DEF IInv, WrittenIsPrefix, InStep, Blocks
<1>8. StartInv' /\ ServerInv' /\ ClientInv'
  BY <1>1, <1>3, <1>4 DEF IInv, StartInv, ServerInv, ClientInv, Numbered, Blocks
<1> QED BY <1>5, <1>6, <1>7, <1>8 DEF IInv, NetInv

LEMMA ServerReceiveInv == ASSUME IInv, NEW m \in net, ServerReceive(m) PROVE IInv'
<1>1. CASE ServerReceiveFrq(m)
  BY <1>1, ServerStayInv DEF ServerReceiveFrq
<1>2. CASE ServerReceiveError(m)
  <2>1. PICK S \in SUBSET {Data(sBlock, sRead)} : ServerStay(m, S)
    BY <1>2 DEF ServerReceiveError
  <2> QED BY <2>1, ServerStayInv
<1>3. CASE ServerReceiveDamaged(m)
  <2>1. PICK S \in SUBSET {Data(sBlock, sRead)} : ServerStay(m, S)
    BY <1>3 DEF ServerReceiveDamaged
  <2> QED BY <2>1, ServerStayInv
<1>4. CASE ServerReceiveOldAck(m)
  BY <1>4, ServerStayInv DEF ServerReceiveOldAck
<1> QED
  BY <1>1, <1>2, <1>3, <1>4, ServerFrqReceiveInv, ServerReceiveAckInv,
     ServerReceiveFinalAckInv DEF ServerReceive
-----------------------------------------------------------------------------
(* The steps of the client. *)

\* The client has a block number exactly when it has written a block, and
\* then the server has read one.
LEMMA ClientHasBlock ==
    ASSUME IInv, cPc = "recv"
    PROVE  /\ cBlock = 0 <=> Blocks = 0
           /\ Blocks # 0 => sRead # 0
<1>1. Blocks \in Nat /\ cBlock \in Nat /\ Numbered(Blocks + 1, cBlock + 1)
  BY WrapSize DEF IInv, TypeOK, ClientInv, Blocks
<1>2. Numbered(1, 1)
  BY DEF Numbered
<1>3. Blocks = 0 => cBlock = 0
  BY <1>1, <1>2, NumberedUnique
<1>4. cBlock = 0 => Blocks = 0
  BY <1>1 DEF Numbered
<1>5. Blocks # 0 => sRead # 0
  BY <1>1 DEF IInv, InStep, TypeOK, Blocks
<1> QED BY <1>3, <1>4, <1>5

LEMMA ClientTimeoutInv == IInv /\ ClientTimeout => IInv'
<1> SUFFICES ASSUME IInv, ClientTimeout PROVE IInv'
  OBVIOUS
<1> USE DEF ClientTimeout, serverVars, Send
<1>1. cBlock # 0 => sRead # 0
  BY ClientHasBlock
<1>2. \A x \in net' : MsgInv(x)
  BY <1>1, SentAreMessages DEF IInv, NetInv, TypeOK
<1>3. TypeOK'
  BY <1>2, TransferAssumption DEF IInv, TypeOK, MsgInv
<1> QED BY <1>2, <1>3, QuietStep DEF IInv, ServerInv

LEMMA ClientStayInv ==
    ASSUME IInv, NEW m \in net, NEW reply, ClientStay(m, reply), MsgInv(reply)
    PROVE  IInv'
<1> USE DEF ClientStay, serverVars
<1>1. /\ \A x \in net' : x \in net \/ x = reply
      /\ faults' \in 0 .. MaxFaults
  BY ReceiveKeeps DEF IInv, TypeOK
<1>2. \A x \in net' : MsgInv(x)
  BY <1>1 DEF IInv, NetInv
<1>3. TypeOK'
  BY <1>1, <1>2, TransferAssumption DEF IInv, TypeOK, MsgInv
<1> QED BY <1>2, <1>3, QuietStep DEF IInv, ServerInv

LEMMA ClientReceiveDamagedInv ==
    ASSUME IInv, NEW m \in net, ToClient(m), ClientReceiveDamaged(m)
    PROVE  IInv'
<1>1. sRead # 0 /\ cBlock \in Nat
  BY WrapSize DEF IInv, NetInv, MsgInv, ToClient, TypeOK
<1> QED BY <1>1, SentAreMessages, ClientStayInv DEF ClientReceiveDamaged

\* A DATA out of turn answers to a block that is already in the file.
LEMMA ClientReceiveOldDataInv ==
    ASSUME IInv, NEW m \in net, ToClient(m), ClientReceiveOldData(m)
    PROVE  IInv'
<1>1. DataInv(m) /\ m \in Packets /\ sRead \in Nat
  BY DEF IInv, NetInv, MsgInv, ToClient, ClientReceiveOldData, TypeOK
<1>2. /\ Blocks \in Nat /\ sRead <= Blocks + 1 /\ Blocks < FileBlocks
      /\ cBlock + 1 \in Nat /\ Numbered(Blocks + 1, cBlock + 1)
  BY WrapSize DEF IInv, InStep, TypeOK, ClientInv, Blocks, ClientReceiveOldData, ClientStay
<1>3. m.idx # Blocks + 1
  BY <1>1, <1>2, NumberedUnique DEF DataInv, Packets, ClientReceiveOldData
<1>4. m.idx \in 1 .. Blocks /\ m.idx < FileBlocks /\ sRead - m.idx <= Lag
  BY <1>1, <1>2, <1>3, TransferAssumption DEF DataInv
<1>5. MsgInv(Ack(m.block, sRead))
  <2>1. AckInv(Ack(m.block, sRead))
    BY <1>1, <1>4, TransferAssumption DEF AckInv, DataInv, Ack, Packet
  <2> QED
    BY <2>1, <1>1 DEF MsgInv, Ack, Packet, Packets, Ops, DataInv
<1> QED BY <1>5, ClientStayInv DEF ClientReceiveOldData

\* A DATA with the expected number is the next block of the file.
LEMMA DataIsNext ==
    ASSUME IInv, NEW m \in net, ToClient(m), ClientReceiveData(m)
    PROVE  /\ m.idx = Blocks + 1 /\ sRead = Blocks + 1 /\ Blocks < FileBlocks
           /\ Numbered(Blocks + 1, m.block)
<1>1. DataInv(m) /\ m \in Packets /\ sRead \in Nat
  BY DEF IInv, NetInv, MsgInv, ToClient, ClientReceiveData, TypeOK
<1>2. /\ Blocks \in Nat /\ sRead <= Blocks + 1 /\ Blocks < FileBlocks
      /\ Numbered(Blocks + 1, m.block)
  BY DEF IInv, InStep, TypeOK, ClientInv, Blocks, ClientReceiveData
<1>3. /\ m.idx \in 1 .. Blocks + 1 /\ m.idx <= sRead
      /\ Blocks + 1 - m.idx < BlockWrap - 2 /\ m.idx - (Blocks + 1) < BlockWrap - 2
  BY <1>1, <1>2, TransferAssumption DEF DataInv, IInv, InStep, Blocks
<1>4. m.idx = Blocks + 1
  BY <1>1, <1>2, <1>3, NumberedOnce DEF DataInv, Packets
<1> QED BY <1>1, <1>2, <1>3, <1>4

LEMMA ClientReceiveDataInv ==
    ASSUME IInv, NEW m \in net, ToClient(m), ClientReceiveData(m)
    PROVE  IInv'
<1> USE DEF ClientReceiveData, serverVars
<1>1. /\ m.idx = Blocks + 1 /\ sRead = Blocks + 1 /\ Blocks < FileBlocks
      /\ Numbered(Blocks + 1, m.block)
  BY DataIsNext
<1>2. /\ sRead' = sRead /\ sBlock' = sBlock /\ sPc' = sPc /\ sPc # "frq"
      /\ Blocks \in Nat /\ sRead \in Nat \ {0}
      /\ m.block \in Nat /\ cBlock \in Nat /\ cPc = "recv"
  BY <1>1, WrapSize DEF IInv, TypeOK, StartInv, Blocks, NetInv, MsgInv, Packets
<1>3. /\ written' = Append(written, Blocks + 1)
      /\ Blocks' = Blocks + 1
      /\ \A i \in 1 .. Blocks' : written'[i] = i
  <2>1. Payload(m.idx) = <<Blocks + 1>>
    BY <1>1, <1>2, TransferAssumption DEF Payload
  <2>2. written \in Seq(Nat) /\ \A i \in 1 .. Len(written) : written[i] = i
    BY DEF IInv, TypeOK, WrittenIsPrefix
  <2>3. written' = Append(written, Blocks + 1)
    BY <2>1, <2>2, <1>2
  <2> QED BY <2>2, <2>3, <1>2 DEF Blocks
<1>4. WrittenIsPrefix' /\ InStep'
  <2>1. Blocks' <= FileBlocks
    BY <1>1, <1>2, <1>3, TransferAssumption
  <2>2. WrittenIsPrefix'
    BY <1>3, <2>1 DEF WrittenIsPrefix, Blocks
  <2>3. sRead' - Blocks' \in {0, 1} /\ sRead' <= FileBlocks
    BY <1>1, <1>2, <1>3, TransferAssumption
  <2> QED BY <2>2, <2>3 DEF InStep, Blocks
<1>5. \A x \in net : MsgInv(x)'
  <2> SUFFICES ASSUME NEW x \in net PROVE MsgInv(x)'
    OBVIOUS
  <2>1. MsgInv(x)
    BY DEF IInv, NetInv
  <2>2. DataInv(x) => DataInv(x)'
    BY <1>2 DEF DataInv, Numbered
  <2>3. AckInv(x) => AckInv(x)'
    BY <1>2, <1>3 DEF AckInv, Numbered
  <2> QED BY <1>2, <2>1, <2>2, <2>3 DEF MsgInv
<1>6. StartInv' /\ ServerInv'
  BY <1>2 DEF IInv, StartInv, ServerInv, Numbered
<1>7. CASE Short(m.idx)
  <2>1. Blocks' = FileBlocks /\ cPc' = "finished" /\ cBlock' = 0
    BY <1>1, <1>2, <1>3, <1>7, TransferAssumption DEF Short
  <2>2. /\ \A x \in net' : x \in net \/ x = Ack(0, sRead)
        /\ faults' \in 0 .. MaxFaults
    BY <1>7, ReceiveKeeps DEF IInv, TypeOK
  <2>3. \A x \in net' : MsgInv(x)'
    <3>1. ASSUME NEW x, x = Ack(0, sRead) PROVE MsgInv(x)'
      BY <1>2, <2>1, <3>1, TransferAssumption
      DEF MsgInv, AckInv, Ack, Packet, Packets, Ops
    <3> QED BY <1>5, <2>2, <3>1
  <2>4. TypeOK'
    BY <1>2, <1>3, <2>1, <2>2, <2>3, TransferAssumption DEF IInv, TypeOK, MsgInv
  <2>5. ClientInv'
    BY <2>1 DEF ClientInv
  <2> QED BY <1>4, <1>6, <2>3, <2>4, <2>5 DEF IInv, NetInv
<1>8. CASE ~Short(m.idx)
  <2>1. m.block \in 1 .. BlockWrap - 1
    BY <1>1, WrapSize DEF Numbered
  <2>2. /\ Blocks' < FileBlocks /\ cPc' = cPc
        /\ cBlock' + 1 = NextBlock(m.block)
        /\ cBlock' \in 0 .. BlockWrap - 1
    BY <1>1, <1>2, <1>3, <1>8, <2>1, TransferAssumption, WrapSize
    DEF Short, NextBlock, ClientBlock
  <2>3. Numbered(Blocks' + 1, cBlock' + 1)
    BY <1>1, <1>2, <1>3, <2>2, NumberedNext
  <2>4. /\ \A x \in net' : x \in net \/ x = Ack(m.block, sRead)
        /\ faults' \in 0 .. MaxFaults
    BY <1>8, ReceiveKeeps DEF IInv, TypeOK
  <2>5. \A x \in net' : MsgInv(x)'
    <3>1. ASSUME NEW x, x = Ack(m.block, sRead) PROVE MsgInv(x)'
      <4>1. x \in Packets /\ x.op = "ACK" /\ x.at = sRead /\ x.block = m.block
        BY <1>2, <3>1 DEF Ack, Packet, Packets, Ops
      <4>2. AckInv(x)'
        <5>1. /\ Blocks' \in 1 .. Blocks' /\ Blocks' < FileBlocks
              /\ x.at - Blocks' <= Lag /\ Numbered(Blocks', x.block)
          BY <1>1, <1>2, <1>3, <2>2, <4>1, TransferAssumption
        <5>2. x.at <= sRead' /\ sRead' - x.at <= Lag
          BY <1>2, <4>1, TransferAssumption
        <5> QED BY <5>1, <5>2 DEF AckInv, Numbered
      <4> QED BY <1>2, <4>1, <4>2 DEF MsgInv
    <3> QED BY <1>5, <2>4, <3>1
  <2>6. TypeOK'
    BY <1>2, <1>3, <2>2, <2>4, <2>5, TransferAssumption DEF IInv, TypeOK, MsgInv
  <2>7. ClientInv'
    BY <1>2, <2>2, <2>3 DEF ClientInv, Numbered
  <2> QED BY <1>4, <1>6, <2>5, <2>6, <2>7 DEF IInv, NetInv
<1> QED BY <1>7, <1>8

LEMMA ClientReceiveInv == ASSUME IInv, NEW m \in net, ClientReceive(m) PROVE IInv'
  BY ClientReceiveDamagedInv, ClientReceiveOldDataInv, ClientReceiveDataInv
  DEF ClientReceive
-----------------------------------------------------------------------------
(* The network, and the invariant of the specification. *)

LEMMA LoseInv == ASSUME IInv, NEW m \in net, Lose(m) PROVE IInv'
<1> USE DEF Lose, serverVars, clientVars
<1>1. \A x \in net' : MsgInv(x)
  BY DEF IInv, NetInv
<1>2. TypeOK'
  BY DEF IInv, TypeOK
<1> QED BY <1>1, <1>2, QuietStep DEF IInv, ServerInv

LEMMA DamageInv == ASSUME IInv, NEW m \in net, Damage(m) PROVE IInv'
<1>1. /\ \A x \in net' : x \in net \/ x = [m EXCEPT !.ok = FALSE]
      /\ faults < MaxFaults /\ faults' = faults + 1
      /\ UNCHANGED <<serverVars, clientVars>>
  BY DEF Damage
<1>2. ASSUME NEW x, x = [m EXCEPT !.ok = FALSE] PROVE MsgInv(x)
  <2>1. MsgInv(m) /\ m \in Packets
    BY DEF IInv, NetInv, MsgInv
  <2>2. x \in Packets /\ x.op = m.op /\ ~x.ok
    BY <1>2, <2>1 DEF Packets
  <2> QED BY <2>1, <2>2 DEF MsgInv
<1>3. \A x \in net' : MsgInv(x)
  BY <1>1, <1>2 DEF IInv, NetInv
<1>4. TypeOK'
  <2>1. net' \subseteq Packets
    BY <1>3 DEF MsgInv
  <2>2. faults' \in 0 .. MaxFaults
    <3>1. faults \in 0 .. MaxFaults /\ MaxFaults \in Nat
      BY TransferAssumption DEF IInv, TypeOK
    <3> QED BY <1>1, <3>1
  <2> QED BY <1>1, <2>1, <2>2 DEF IInv, TypeOK, serverVars, clientVars
<1> QED BY <1>1, <1>3, <1>4, QuietStep DEF IInv, ServerInv, serverVars, clientVars

LEMMA InitInv == Init => IInv
<1> SUFFICES ASSUME Init PROVE IInv
  OBVIOUS
<1>1. /\ sPc = "frq" /\ sRead = 0 /\ sBlock = 1 /\ sTimeouts = 0
      /\ cPc = "recv" /\ cBlock = 0 /\ cTimeouts = 0
      /\ written = <<>> /\ Blocks = 0 /\ net = {Frq} /\ faults = 0
  BY DEF Init, Blocks
<1>2. Frq \in Packets /\ Frq.op = "FRQ"
  BY DEF Frq, Packet, Packets, Ops
<1>3. TypeOK
  BY <1>1, <1>2, TransferAssumption, WrapSize DEF TypeOK
<1>4. WrittenIsPrefix /\ InStep
  <2>1. Len(written) = 0
    BY <1>1 DEF Blocks
  <2>2. 0 <= FileBlocks /\ 1 .. 0 = {} /\ 0 - 0 = 0
    BY TransferAssumption
  <2> QED BY <1>1, <2>1, <2>2, ZenonT(20) DEF WrittenIsPrefix, InStep
<1>5. StartInv /\ ServerInv
  BY <1>1 DEF StartInv, ServerInv
<1>6. ClientInv
  BY <1>1, TransferAssumption DEF ClientInv, Numbered
<1>7. NetInv
  BY <1>1, <1>2 DEF NetInv, MsgInv
<1> QED BY <1>3, <1>4, <1>5, <1>6, <1>7 DEF IInv

LEMMA NextInv == IInv /\ [Next]_vars => IInv'
<1> SUFFICES ASSUME IInv, [Next]_vars PROVE IInv'
  OBVIOUS
<1>1. CASE UNCHANGED vars
  BY <1>1 DEF vars, serverVars, clientVars, IInv, TypeOK, WrittenIsPrefix,
     InStep, StartInv, ServerInv, ClientInv, NetInv, MsgInv, DataInv, AckInv,
     Blocks, Numbered
<1>2. CASE ServerTimeout
  BY <1>2, ServerFrqTimeoutInv, ServerAckTimeoutInv DEF ServerTimeout
<1>3. CASE ClientTimeout
  BY <1>3, ClientTimeoutInv
<1>4. ASSUME NEW m \in net,
             ServerReceive(m) \/ ClientReceive(m) \/ Lose(m) \/ Damage(m)
      PROVE  IInv'
  BY <1>4, ServerReceiveInv, ClientReceiveInv, LoseInv, DamageInv
<1> QED BY <1>1, <1>2, <1>3, <1>4 DEF Next, Terminated

\* The inductive invariant holds for ever.
THEOREM Invariance == Spec => []IInv
  BY InitInv, NextInv, PTL DEF Spec

\* Type correctness, for every value of the constants: block numbers and
\* time-out counters stay in the ranges of their C variables.
THEOREM TypeCorrect == Spec => []TypeOK
<1>1. IInv => TypeOK
  BY DEF IInv
<1> QED BY <1>1, Invariance, PTL

\* client_<filename> is at every moment a prefix of the served file.
THEOREM PrefixSafety == Spec => []WrittenIsPrefix
<1>1. IInv => WrittenIsPrefix
  BY DEF IInv
<1> QED BY <1>1, Invariance, PTL

\* Neither side reports success for a part of the file.
THEOREM WholeFile == Spec => []FinishMeansWholeFile
<1>1. IInv => FinishMeansWholeFile
  BY TransferAssumption
  DEF IInv, ClientInv, ServerInv, FinishMeansWholeFile, Blocks
<1> QED BY <1>1, Invariance, PTL

\* The server is never more than one block ahead of the client, never behind
\* it, and never reads past the short block.
THEOREM StopAndWait == Spec => []InStep
<1>1. IInv => InStep
  BY DEF IInv
<1> QED BY <1>1, Invariance, PTL
-----------------------------------------------------------------------------
(* Steps. *)

\* Once a block has been written no new FRQ reaches the wire.
THEOREM OneRequest == Spec => NoSecondRequest
<1> DEFINE A == ~FrqIn(net) /\ FrqIn(net') => written = <<>>
<1>1. IInv /\ [Next]_vars => [A]_vars
  <2> SUFFICES ASSUME IInv, Next, ~FrqIn(net), NEW x \in net', x.op = "FRQ"
               PROVE  written = <<>>
    BY DEF FrqIn
  <2> USE DEF FrqIn
  <2>1. CASE ServerTimeout
    BY <2>1 DEF ServerTimeout, ServerFrqTimeout, ServerAckTimeout, Send, Data, Packet
  <2>2. CASE ClientTimeout
    <3>1. cBlock = 0
      BY <2>2 DEF ClientTimeout, Send, Error, Packet
    <3>2. Blocks = 0
      BY <2>2, <3>1, ClientHasBlock DEF ClientTimeout
    <3> QED BY <3>2 DEF Blocks, IInv, TypeOK
  <2>3. ASSUME NEW m \in net, ServerReceive(m) PROVE FALSE
    <3>1. PICK S : /\ \E now : Receive(m, S, now)
                   /\ \A y \in S : y.op # "FRQ"
      BY <2>3 DEF ServerReceive, ServerFrqReceive, ServerReceiveFrq,
         ServerReceiveError, ServerReceiveDamaged, ServerReceiveOldAck,
         ServerReceiveAck, ServerReceiveFinalAck, ServerStay, Data, Packet
    <3> QED BY <3>1 DEF Receive, Alive
  <2>4. ASSUME NEW m \in net, ClientReceive(m) PROVE FALSE
    <3>1. PICK S : /\ \E now : Receive(m, S, now)
                   /\ \A y \in S : y.op # "FRQ"
      BY <2>4 DEF ClientReceive, ClientReceiveDamaged, ClientReceiveOldData,
         ClientReceiveData, ClientStay, Ack, Error, Packet
    <3> QED BY <3>1 DEF Receive, Alive
  <2>5. ASSUME NEW m \in net, Lose(m) \/ Damage(m) PROVE FALSE
    BY <2>5 DEF Lose, Damage, IInv, TypeOK, Packets
  <2> QED
    BY <2>1, <2>2, <2>3, <2>4, <2>5 DEF Next, Terminated, vars
<1> QED BY <1>1, Invariance, PTL DEF Spec, NoSecondRequest
-----------------------------------------------------------------------------
(* Refinement of FileCopy. *)

LEMMA CopyInit == Init => Copy!Init
  BY DEF Init, Copy!Init

LEMMA CopyStep == IInv /\ [Next]_vars => [Copy!Next]_(Copy!copyVars)
<1> SUFFICES ASSUME IInv, [Next]_vars
             PROVE  Copy!Next \/ UNCHANGED Copy!copyVars
  OBVIOUS
<1> USE DEF Copy!copyVars
<1>1. CASE UNCHANGED vars \/ Terminated
  BY <1>1 DEF vars, serverVars, clientVars, Terminated
<1>2. CASE ServerTimeout
  BY <1>2 DEF ServerTimeout, ServerFrqTimeout, ServerAckTimeout, clientVars,
     Copy!Next, Copy!SenderGivesUp
<1>3. CASE ClientTimeout
  BY <1>3 DEF ClientTimeout, serverVars, Copy!Next, Copy!ReceiverGivesUp
<1>4. ASSUME NEW m \in net, ServerReceive(m)
      PROVE  Copy!Next \/ UNCHANGED Copy!copyVars
  <2>1. CASE ServerReceiveFinalAck(m)
    <3>1. cPc = "finished"
      BY <2>1 DEF ServerReceiveFinalAck, IInv, NetInv, MsgInv, AckInv, Numbered
    <3> QED
      BY <2>1, <3>1 DEF ServerReceiveFinalAck, clientVars,
         Copy!Next, Copy!SenderConfirms
  <2>2. CASE ~ServerReceiveFinalAck(m)
    <3>1. /\ UNCHANGED <<written, cPc>>
          /\ sPc \in {"frq", "ack"} /\ sPc' \in {"frq", "ack"}
      BY <1>4, <2>2 DEF ServerReceive, ServerFrqReceive, ServerReceiveFrq,
         ServerReceiveError, ServerReceiveDamaged, ServerReceiveOldAck,
         ServerReceiveAck, ServerStay, clientVars
    <3> QED BY <3>1
  <2> QED BY <2>1, <2>2
<1>5. ASSUME NEW m \in net, ClientReceive(m)
      PROVE  Copy!Next \/ UNCHANGED Copy!copyVars
  <2>1. CASE ClientReceiveData(m)
    <3>1. m.idx = Blocks + 1 /\ Blocks < FileBlocks /\ Blocks \in Nat
      BY <1>5, <2>1, DataIsNext DEF ClientReceive, IInv, TypeOK, Blocks
    <3>2. Len(written') = Len(written) + 1
      <4>1. Payload(m.idx) = <<m.idx>> /\ written \in Seq(Nat) /\ m.idx \in Nat
        BY <3>1, TransferAssumption DEF Payload, IInv, TypeOK
      <4> QED BY <2>1, <4>1 DEF ClientReceiveData
    <3>3. cPc' = IF Len(written') = FileBlocks THEN "finished" ELSE "recv"
      BY <2>1, <3>1, <3>2, TransferAssumption DEF ClientReceiveData, Short, Blocks
    <3> QED
      BY <2>1, <3>1, <3>2, <3>3 DEF ClientReceiveData, serverVars, Blocks,
         Copy!Next, Copy!CopyBlock
  <2>2. CASE ClientReceiveDamaged(m) \/ ClientReceiveOldData(m)
    BY <2>2 DEF ClientReceiveDamaged, ClientReceiveOldData, ClientStay, serverVars
  <2> QED BY <1>5, <2>1, <2>2 DEF ClientReceive
<1>6. ASSUME NEW m \in net, Lose(m) \/ Damage(m)
      PROVE  UNCHANGED Copy!copyVars
  BY <1>6 DEF Lose, Damage, serverVars, clientVars
<1> QED BY <1>1, <1>2, <1>3, <1>4, <1>5, <1>6 DEF Next

\* The protocol implements FileCopy.
THEOREM Refinement == Spec => ImplementsFileCopy
  BY CopyInit, CopyStep, Invariance, PTL
  DEF Spec, ImplementsFileCopy, Copy!Spec
-----------------------------------------------------------------------------
(* MyftpTimed. *)

\* With its clocks left out, a step of MyftpTimed is a step of MyftpTransfer
\* or changes nothing.
LEMMA TimedStepIsStep == [TimedNext]_timedVars => [Next]_vars
<1> SUFFICES ASSUME TimedNext \/ UNCHANGED timedVars
             PROVE  Next \/ UNCHANGED vars
  OBVIOUS
<1>1. CASE UNCHANGED timedVars
  BY <1>1 DEF timedVars
<1>2. ASSUME NEW m \in net, TimedServerReceive(m) \/ TimedClientReceive(m)
      PROVE  Next
  BY <1>2 DEF TimedServerReceive, TimedClientReceive, Next
<1>3. ASSUME NEW m \in net, TimedLose(m) \/ TimedDamage(m) PROVE Next
  BY <1>3 DEF TimedLose, TimedDamage, Next
<1>4. CASE TimedServerTimeout \/ TimedClientTimeout
  BY <1>4 DEF TimedServerTimeout, TimedClientTimeout, Next
<1>5. CASE Tick
  BY <1>5 DEF Tick
<1>6. CASE TimedTerminated
  BY <1>6 DEF TimedTerminated, Next
<1> QED
  BY <1>1, <1>2, <1>3, <1>4, <1>5, <1>6 DEF TimedNext, TimedStep

\* The protocol on a clock is the protocol: all that is proved above holds
\* with the real time-outs, whatever the two values of SO_RCVTIMEO are.
THEOREM TimedRefines == TimedSpec => Spec
<1>1. TimedInit => Init
  BY DEF TimedInit
<1> QED BY <1>1, TimedStepIsStep, PTL DEF TimedSpec, Spec

\* While it runs, the server has been silent for as many full time-outs as
\* TimeoutNum counts and the part of the present one that is over; when it
\* leaves it has counted two more than the bound.
Patient ==
    /\ sClock \in Nat /\ sSilent \in Nat
    /\ \A m \in net : m.ok
    /\ ServerRuns => sSilent = sTimeouts * ServerTimeo + ServerTimeo - sClock
    /\ sPc = "exit" => sSilent >= MaxTimeouts * ServerTimeo + 2 * ServerTimeo

\* n + 1 time-outs are one more than n, and no fewer than the bound and one.
LEMMA OneTimeoutMore ==
    ASSUME NEW n \in Nat
    PROVE  /\ n * ServerTimeo \in Nat
           /\ (n + 1) * ServerTimeo = n * ServerTimeo + ServerTimeo
           /\ n > MaxTimeouts =>
                 n * ServerTimeo >= MaxTimeouts * ServerTimeo + ServerTimeo
<1>1. ServerTimeo \in Nat /\ MaxTimeouts \in Nat
  BY TimedAssumption, TransferAssumption
<1>2. n * ServerTimeo \in Nat /\ (n + 1) * ServerTimeo = n * ServerTimeo + ServerTimeo
  BY <1>1
<1>3. ASSUME n > MaxTimeouts
      PROVE  n * ServerTimeo >= MaxTimeouts * ServerTimeo + ServerTimeo
  <2>1. PICK d \in Nat : n = MaxTimeouts + 1 + d
    <3>1. n - MaxTimeouts - 1 \in Nat /\ n = MaxTimeouts + 1 + (n - MaxTimeouts - 1)
      BY <1>1, <1>3
    <3> QED BY <3>1
  <2>2. n * ServerTimeo = MaxTimeouts * ServerTimeo + ServerTimeo + d * ServerTimeo
    BY <1>1, <2>1
  <2>3. /\ d * ServerTimeo \in Nat
        /\ MaxTimeouts * ServerTimeo \in Nat
    BY <1>1
  <2> QED BY <1>1, <1>2, <2>2, <2>3
<1> QED BY <1>2, <1>3

\* What is sent is undamaged.
LEMMA SentIsWhole ==
    ASSUME \A x \in net : x.ok, NEW m \in net, NEW S, NEW now,
           \A x \in S : x.ok, Receive(m, S, now)
    PROVE  \A x \in net' : x.ok
  BY DEF Receive, Alive

\* A datagram received clears TimeoutNum as well as the clock.
LEMMA TimedServerReceivePatient ==
    ASSUME Patient, NEW m \in net, TimedServerReceive(m)
    PROVE  Patient'
<1>1. m.ok
  BY DEF Patient
<1>2. /\ sTimeouts' = 0 /\ sPc' # "exit"
      /\ \E S, now : /\ \A x \in S : x.ok
                     /\ Receive(m, S, now)
  BY <1>1 DEF TimedServerReceive, ServerReceive, ServerFrqReceive,
     ServerReceiveFrq, ServerReceiveError, ServerReceiveDamaged,
     ServerReceiveOldAck, ServerReceiveAck, ServerReceiveFinalAck, ServerStay,
     Data, Packet
<1>3. \A x \in net' : x.ok
  BY <1>2, SentIsWhole DEF Patient
<1>4. sClock' = ServerTimeo /\ sSilent' = 0
  BY DEF TimedServerReceive
<1>5. ServerTimeo \in Nat /\ 0 * ServerTimeo = 0
  BY TimedAssumption
<1>6. sSilent' = sTimeouts' * ServerTimeo + ServerTimeo - sClock'
  BY <1>2, <1>4, <1>5
<1> QED BY <1>2, <1>3, <1>4, <1>5, <1>6 DEF Patient

\* The clock has run out: a full time-out is over.
LEMMA TimedServerTimeoutPatient ==
    ASSUME IInv, Patient, TimedServerTimeout
    PROVE  Patient'
<1>1. /\ sClock = 0 /\ sClock' = ServerTimeo /\ sSilent' = sSilent
      /\ sPc \in {"frq", "ack"} /\ ServerTimeo \in Nat /\ MaxTimeouts \in Nat
  BY TimedAssumption, TransferAssumption
  DEF TimedServerTimeout, ServerTimeout, ServerFrqTimeout, ServerAckTimeout
<1>2. sTimeouts \in Nat
  BY TransferAssumption DEF IInv, TypeOK
<1>3. sSilent \in Nat /\ sSilent = sTimeouts * ServerTimeo + ServerTimeo
  <2>1. sSilent = sTimeouts * ServerTimeo + ServerTimeo - 0 /\ sSilent \in Nat
    BY <1>1 DEF Patient, ServerRuns
  <2> QED BY <1>1, <1>2, <2>1, OneTimeoutMore
<1>4. \A x \in net' : x.ok
  BY DEF Patient, TimedServerTimeout, ServerTimeout, ServerFrqTimeout,
     ServerAckTimeout, Send, Data, Packet
<1>5. CASE sTimeouts > MaxTimeouts
  <2>1. sPc' = "exit"
    BY <1>5 DEF TimedServerTimeout, ServerTimeout, ServerFrqTimeout, ServerAckTimeout
  <2>2. sTimeouts * ServerTimeo >= MaxTimeouts * ServerTimeo + ServerTimeo
    BY <1>2, <1>5, OneTimeoutMore
  <2>3. sTimeouts * ServerTimeo \in Nat /\ MaxTimeouts * ServerTimeo \in Nat
    BY <1>1, <1>2, OneTimeoutMore
  <2>4. sSilent >= MaxTimeouts * ServerTimeo + 2 * ServerTimeo
    BY <1>1, <1>3, <2>2, <2>3
  <2> QED BY <1>1, <1>3, <1>4, <2>1, <2>4 DEF Patient, ServerRuns
<1>6. CASE ~(sTimeouts > MaxTimeouts)
  <2>1. sPc' = sPc /\ sTimeouts' = sTimeouts + 1
    BY <1>6 DEF TimedServerTimeout, ServerTimeout, ServerFrqTimeout, ServerAckTimeout
  <2>2. sSilent' = sTimeouts' * ServerTimeo + ServerTimeo - sClock'
    <3>1. /\ sTimeouts * ServerTimeo \in Nat
          /\ sTimeouts' * ServerTimeo = sTimeouts * ServerTimeo + ServerTimeo
      BY <1>2, <2>1, OneTimeoutMore
    <3> QED BY <1>1, <1>3, <3>1
  <2> QED BY <1>1, <1>3, <1>4, <2>1, <2>2 DEF Patient, ServerRuns
<1> QED BY <1>5, <1>6

\* The client's turns leave the server and its clock alone.
LEMMA TimedClientPatient ==
    ASSUME Patient,
           TimedClientTimeout \/ \E m \in net : TimedClientReceive(m)
    PROVE  Patient'
<1>1. UNCHANGED <<sPc, sTimeouts, sClock, sSilent>>
  BY DEF TimedClientTimeout, TimedClientReceive, ClientTimeout, ClientReceive,
     ClientReceiveDamaged, ClientReceiveOldData, ClientReceiveData, ClientStay,
     serverVars
<1>2. \A x \in net' : x.ok
  <2>1. ASSUME NEW m \in net, TimedClientReceive(m)
        PROVE  \A x \in net' : x.ok
    <3>1. \E S, now : /\ \A x \in S : x.ok
                      /\ Receive(m, S, now)
      BY <2>1 DEF TimedClientReceive, ClientReceive, ClientReceiveDamaged,
         ClientReceiveOldData, ClientReceiveData, ClientStay, Ack, Error, Packet
    <3> QED BY <3>1, SentIsWhole DEF Patient
  <2>2. CASE TimedClientTimeout
    BY <2>2 DEF Patient, TimedClientTimeout, ClientTimeout, Send, Frq, Error, Packet
  <2> QED BY <2>1, <2>2
<1> QED BY <1>1, <1>2 DEF Patient, ServerRuns

LEMMA PatientInit == TimedInit => Patient
<1> SUFFICES ASSUME TimedInit PROVE Patient
  OBVIOUS
<1>1. ServerTimeo \in Nat /\ 0 * ServerTimeo = 0
  BY TimedAssumption
<1>2. sSilent = 0 /\ sClock = ServerTimeo /\ sTimeouts = 0 /\ sPc = "frq"
  BY DEF TimedInit, Init
<1>3. sSilent = sTimeouts * ServerTimeo + ServerTimeo - sClock
  BY <1>1, <1>2
<1>4. \A m \in net : m.ok
  BY DEF TimedInit, Init, Frq, Packet
<1> QED BY <1>1, <1>2, <1>3, <1>4 DEF Patient

\* A second passes for the clock and for the silence alike.
LEMMA TickPatient == IInv /\ Patient /\ Tick => Patient'
<1> SUFFICES ASSUME IInv, Patient, Tick PROVE Patient'
  OBVIOUS
<1>1. UNCHANGED <<sPc, sTimeouts, net>>
  BY DEF Tick, vars, serverVars
<1>2. \A x \in net' : x.ok
  BY <1>1 DEF Patient
<1>3. CASE ServerRuns
  <2>1. /\ sClock' = sClock - 1 /\ sSilent' = sSilent + 1
        /\ sClock \in Nat /\ sSilent \in Nat /\ sClock > 0
    BY <1>3 DEF Tick, Patient
  <2>2. PICK k \in Nat : k = sTimeouts * ServerTimeo
    BY OneTimeoutMore, TransferAssumption DEF IInv, TypeOK
  <2>3. k + ServerTimeo \in Nat /\ sSilent = k + ServerTimeo - sClock
    BY <1>3, <2>2, TimedAssumption DEF Patient
  <2>4. sSilent' = k + ServerTimeo - sClock'
    BY <2>1, <2>3, TimedAssumption
  <2>5. sSilent' = sTimeouts' * ServerTimeo + ServerTimeo - sClock'
    BY <1>1, <2>2, <2>4
  <2> QED BY <1>1, <1>2, <1>3, <2>1, <2>5 DEF Patient, ServerRuns
<1>4. CASE ~ServerRuns
  BY <1>1, <1>2, <1>4 DEF Tick, Patient, ServerRuns
<1> QED BY <1>3, <1>4

LEMMA PatientNext ==
    MaxFaults = 0 /\ IInv /\ Patient /\ [TimedNext]_timedVars => Patient'
<1> SUFFICES ASSUME MaxFaults = 0, IInv, Patient, TimedNext \/ UNCHANGED timedVars
             PROVE  Patient'
  OBVIOUS
<1>1. CASE UNCHANGED timedVars \/ TimedTerminated
  BY <1>1 DEF timedVars, vars, serverVars, clocks, TimedTerminated, Terminated,
     Patient, ServerRuns
<1>2. ASSUME NEW m \in net, TimedServerReceive(m) PROVE Patient'
  BY <1>2, TimedServerReceivePatient
<1>3. CASE TimedServerTimeout
  BY <1>3, TimedServerTimeoutPatient
<1>4. CASE TimedClientTimeout \/ \E m \in net : TimedClientReceive(m)
  BY <1>4, TimedClientPatient
<1>5. ASSUME NEW m \in net, TimedLose(m) PROVE Patient'
  BY <1>5 DEF TimedLose, Lose, serverVars, clocks, Patient, ServerRuns
<1>6. ASSUME NEW m \in net, TimedDamage(m) PROVE FALSE
  BY <1>6 DEF TimedDamage, Damage, IInv, TypeOK
<1>7. CASE Tick
  BY <1>7, TickPatient
<1> QED
  BY <1>1, <1>2, <1>3, <1>4, <1>5, <1>6, <1>7 DEF TimedNext, TimedStep

\* The server child leaves for want of datagrams only after more than 20
\* seconds of silence, for every time-out and bound that make up 20 seconds.
\* MaxFaults = 0: a damaged packet in the FRQ loop restarts recvfrom() without
\* clearing TimeoutNum, and so cuts the silence short.
THEOREM ServerWaits ==
    MaxFaults = 0 /\ (MaxTimeouts + 2) * ServerTimeo > 20 =>
        (TimedSpec => []ServerPatience)
<1> SUFFICES ASSUME MaxFaults = 0, (MaxTimeouts + 2) * ServerTimeo > 20
             PROVE  TimedSpec => []ServerPatience
  OBVIOUS
<1>1. TimedInit => Patient
  BY PatientInit
<1>2. IInv /\ Patient /\ [TimedNext]_timedVars => Patient'
  BY PatientNext
<1>3. Patient => ServerPatience
  <2>1. (MaxTimeouts + 2) * ServerTimeo = MaxTimeouts * ServerTimeo + 2 * ServerTimeo
    BY TransferAssumption, TimedAssumption
  <2>2. MaxTimeouts * ServerTimeo \in Nat /\ ServerTimeo \in Nat
    BY TransferAssumption, TimedAssumption
  <2> QED BY <2>1, <2>2 DEF Patient, ServerPatience
<1> QED BY <1>1, <1>2, <1>3, TimedRefines, Invariance, PTL DEF TimedSpec

=============================================================================

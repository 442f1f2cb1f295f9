-------------------------- MODULE MyftpTransferInv --------------------------
(***************************************************************************)
(* The inductive invariant of MyftpTransfer: what its two processes and    *)
(* the datagrams between them know of each other.  TLC checks it on a      *)
(* small instance, MyftpTransferProofs proves it for all.                  *)
(***************************************************************************)
EXTENDS MyftpTransfer

\* b is the number on the wire of the k-th block: 1, 2, ..., BlockWrap - 1,
\* and then again from 2.
Numbered(k, b) ==
    \/ k = 1 /\ b = 1
    \/ /\ b \in 2 .. BlockWrap - 1
       /\ \E q \in 0 .. k : k = b + q * (BlockWrap - 2)

Blocks == Len(written)

\* Before the FRQ is accepted nothing but FRQs is in flight.
StartInv ==
    /\ sPc = "frq" => sRead = 0
    /\ sPc = "ack" => sRead # 0
    /\ sRead = 0 => sBlock = 1 /\ Blocks = 0

ServerInv ==
    /\ sRead # 0 => Numbered(sRead, sBlock)
    /\ sPc = "done" => cPc = "finished"

ClientInv ==
    \/ cPc = "finished" /\ Blocks = FileBlocks
    \/ cPc # "finished" /\ Blocks < FileBlocks /\ Numbered(Blocks + 1, cBlock + 1)

DataInv(m) ==
    /\ m.idx \in 1 .. sRead /\ m.at = m.idx
    /\ sRead - m.idx <= Lag
    /\ Numbered(m.idx, m.block)

\* An ACK answers a block that was written, and one not much older than itself.
AckInv(m) ==
    /\ m.at <= sRead /\ sRead - m.at <= Lag
    /\ \/ m.block = 0 /\ cPc = "finished"
       \/ \E a \in 1 .. Blocks :
             a < FileBlocks /\ m.at - a <= Lag /\ Numbered(a, m.block)

MsgInv(m) ==
    /\ m \in Packets
    /\ sRead = 0 => m.op = "FRQ"
    /\ m.ok /\ m.op = "DATA" => DataInv(m)
    /\ m.ok /\ m.op = "ACK" => AckInv(m)

NetInv == \A m \in net : MsgInv(m)

\* What keeps stop-and-wait in step: both block variables number the blocks
\* they stand for, and whatever is in flight is too young for its number to
\* have come round again.
IInv ==
    /\ TypeOK /\ WrittenIsPrefix /\ InStep
    /\ StartInv /\ ServerInv /\ ClientInv /\ NetInv
=============================================================================

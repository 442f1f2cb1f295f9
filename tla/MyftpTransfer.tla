--------------------------- MODULE MyftpTransfer ---------------------------
(***************************************************************************)
(* One file transfer of HW5: the child of the server that runs             *)
(* startMyftpServer() and the client that runs startMyftpClient(), joined  *)
(* by UDP.  The protocol is stop-and-wait: the server sends DATA block by  *)
(* block and the client answers each with an ACK, the last one, a DATA     *)
(* packet of fewer than 512 bytes, with ACK 0.  A timed out or damaged     *)
(* receive is answered by an ERROR packet or a retransmission.             *)
(*                                                                         *)
(* File contents are abstract: block i of the file is the number i, and    *)
(* the last block, FileBlocks, is the short one (possibly of 0 bytes).     *)
(* One action is one turn of a recvfrom() loop, with everything the turn   *)
(* reads from the file, writes to it and sends.                            *)
(***************************************************************************)
EXTENDS Integers, Sequences

CONSTANTS
    FileBlocks,   \* DATA packets the file needs: its size \div 512 + 1
    BlockWrap,    \* the block number that is never used (65000 in the code)
    MaxTimeouts,  \* the bound in the tests TimeoutNum > 10
    Lag,          \* lifetime of a datagram, counted in blocks read by the server
    MaxFaults     \* duplications plus damages the network may cause

\* The wrapped block numbers 2 .. BlockWrap - 1 repeat; a datagram must be
\* gone before its number comes round again (an ACK may answer a DATA that is
\* already Lag blocks old, hence the factor 2).
ASSUME TransferAssumption ==
    /\ FileBlocks \in Nat \ {0}
    /\ BlockWrap \in Nat
    /\ MaxTimeouts \in Nat
    /\ Lag \in Nat
    /\ MaxFaults \in Nat
    /\ 2 * Lag + 1 < BlockWrap - 2

VARIABLES
    sPc,        \* where the server child is: the FRQ loop, the ACK loop, or ended
    sRead,      \* calls of fread() so far = number of the block being sent
    sBlock,     \* the int block of startMyftpServer
    sTimeouts,  \* its TimeoutNum
    cPc,        \* where the client is
    cBlock,     \* the int block of startMyftpClient
    cTimeouts,  \* TimeoutFirstNum while block = 0, TimeoutNum afterwards
    written,    \* what fwrite() has put in client_<filename>
    net,        \* datagrams in flight
    faults      \* duplications and damages so far

serverVars == <<sPc, sRead, sBlock, sTimeouts>>
clientVars == <<cPc, cBlock, cTimeouts, written>>
vars == <<serverVars, clientVars, net, faults>>
-----------------------------------------------------------------------------
(***************************************************************************)
(* Packets.  "idx" is the file block a DATA carries, "at" the value of     *)
(* sRead when the datagram was sent (the age of the datagram, unknown to   *)
(* the program), and "ok" says that in_cksum() of the packet is 0.         *)
(***************************************************************************)
Packet(op, block, idx, at) ==
    [op |-> op, block |-> block, idx |-> idx, at |-> at, ok |-> TRUE]

Frq == Packet("FRQ", 0, 0, 0)
Data(block, k) == Packet("DATA", block, k, k)
Ack(block, at) == Packet("ACK", block, 0, at)
Error(block, at) == Packet("ERROR", block, 0, at)

Ops == {"FRQ", "DATA", "ACK", "ERROR"}
Packets == [op : Ops, block : Nat, idx : Nat, at : Nat, ok : BOOLEAN]

FrqIn(S) == \E m \in S : m.op = "FRQ"

ToServer(m) == m.op # "DATA"
ToClient(m) == m.op = "DATA"

\* The datagrams of S that have not outlived the network when the server has
\* read "now" blocks.
Alive(S, now) == {m \in S : now - m.at <= Lag}

\* The server's block++, wrong: restarting where the client does.
RestartAtOne(b) == IF b + 1 = BlockWrap THEN 1 ELSE b + 1

\* The server's block++ with its restart at 2.
NextBlock(b) == IF b + 1 = BlockWrap THEN 2 ELSE b + 1

\* Wrong: the client's block restarts at 0.
RestartAtZero(b) == IF b = BlockWrap - 1 THEN 0 ELSE b

\* The client's block after writing block b: it restarts at 1.
ClientBlock(b) == IF b = BlockWrap - 1 THEN 1 ELSE b

\* What fread() delivers for its k-th call: one block, nothing past the end.
Payload(k) == IF k <= FileBlocks THEN <<k>> ELSE <<>>

\* ReadSize < 512: the k-th DATA packet is shorter than a full one.
Short(k) == k >= FileBlocks
-----------------------------------------------------------------------------
Init ==
    /\ sPc = "frq" /\ sRead = 0 /\ sBlock = 1 /\ sTimeouts = 0
    /\ cPc = "recv" /\ cBlock = 0 /\ cTimeouts = 0
    /\ written = <<>>
    /\ net = {Frq}          \* startMyftpClient sends FRQ before its loop
    /\ faults = 0

\* recvfrom() returns m; the turn ends with the datagrams "sends" on the wire.
\* A duplicate of m may stay behind.
Receive(m, sends, now) ==
    \/ /\ net' = Alive((net \ {m}) \cup sends, now)
       /\ UNCHANGED faults
    \/ /\ faults < MaxFaults
       /\ faults' = faults + 1
       /\ net' = Alive(net \cup sends, now)

Send(sends) == net' = net \cup sends /\ UNCHANGED faults
-----------------------------------------------------------------------------
(* The server child. *)

\* No FRQ for 2 seconds: try again, or give up.
ServerFrqTimeout ==
    /\ sPc = "frq"
    /\ IF sTimeouts > MaxTimeouts
         THEN sPc' = "exit" /\ UNCHANGED sTimeouts
         ELSE sTimeouts' = sTimeouts + 1 /\ UNCHANGED sPc
    /\ UNCHANGED <<sRead, sBlock, clientVars, net, faults>>

\* A datagram with a correct checksum ends the FRQ loop (its opcode is not
\* looked at); the first block is read and sent at once.  A damaged one is
\* ignored.
ServerFrqReceive(m) ==
    /\ sPc = "frq"
    /\ IF m.ok
         THEN /\ sPc' = "ack"
              /\ sRead' = 1
              /\ sTimeouts' = 0
              /\ Receive(m, {Data(sBlock, 1)}, 1)
         ELSE /\ UNCHANGED <<sPc, sRead, sTimeouts>>
              /\ Receive(m, {}, sRead)
    /\ UNCHANGED <<sBlock, clientVars>>

\* Wrong: the time-outs of the ACK loop are not counted.
UncountedAckTimeout ==
    /\ sPc = "ack"
    /\ Send({Data(sBlock, sRead)})
    /\ UNCHANGED <<sPc, sRead, sBlock, sTimeouts, clientVars>>

\* No ACK for 2 seconds: send the block again, or give up.
ServerAckTimeout ==
    /\ sPc = "ack"
    /\ IF sTimeouts > MaxTimeouts
         THEN /\ sPc' = "exit"
              /\ UNCHANGED <<sTimeouts, net, faults>>
         ELSE /\ sTimeouts' = sTimeouts + 1
              /\ Send({Data(sBlock, sRead)})
              /\ UNCHANGED sPc
    /\ UNCHANGED <<sRead, sBlock, clientVars>>

\* The turns of the ACK loop that leave the block alone: they may send it
\* again, and they all reset TimeoutNum.
ServerStay(m, sends) ==
    /\ sPc = "ack"
    /\ sTimeouts' = 0
    /\ Receive(m, sends, sRead)
    /\ UNCHANGED <<sPc, sRead, sBlock, clientVars>>

\* A late FRQ is ignored.
ServerReceiveFrq(m) == m.ok /\ m.op = "FRQ" /\ ServerStay(m, {})

\* Wrong: ERROR is taken to name the block that is missing.
ResendNamedBlock(m) ==
    /\ m.ok /\ m.op = "ERROR"
    /\ ServerStay(m, IF m.block = sBlock THEN {Data(sBlock, sRead)} ELSE {})

\* ERROR for the block before this one asks for this one; others are ignored.
ServerReceiveError(m) ==
    /\ m.ok /\ m.op = "ERROR"
    /\ ServerStay(m, IF m.block = sBlock - 1 THEN {Data(sBlock, sRead)} ELSE {})

\* A damaged packet: the opcode is examined before the checksum, so it may
\* pass for a FRQ or for an ERROR of any block; otherwise the block is resent.
ServerReceiveDamaged(m) ==
    /\ ~m.ok
    /\ \E sends \in {{}, {Data(sBlock, sRead)}} : ServerStay(m, sends)

\* An ACK of another block than 0 and the current one is ignored.
ServerReceiveOldAck(m) ==
    /\ m.ok /\ m.op = "ACK" /\ m.block \notin {0, sBlock}
    /\ ServerStay(m, {})

\* Wrong: any ACK advances the block.
AnyAckAdvances(m) ==
    /\ sPc = "ack"
    /\ m.ok /\ m.op = "ACK" /\ m.block # 0
    /\ sBlock' = NextBlock(sBlock)
    /\ sRead' = sRead + 1
    /\ sTimeouts' = 0
    /\ Receive(m, {Data(sBlock', sRead')}, sRead')
    /\ UNCHANGED <<sPc, clientVars>>

\* The current block is acknowledged: read and send the next one.
ServerReceiveAck(m) ==
    /\ sPc = "ack"
    /\ m.ok /\ m.op = "ACK" /\ m.block = sBlock
    /\ sBlock' = NextBlock(sBlock)
    /\ sRead' = sRead + 1
    /\ sTimeouts' = 0
    /\ Receive(m, {Data(sBlock', sRead')}, sRead')
    /\ UNCHANGED <<sPc, clientVars>>

\* Wrong: the opcode of a packet with block 0 is not looked at.
AnyZeroEnds(m) ==
    /\ sPc = "ack"
    /\ m.ok /\ m.block = 0
    /\ sPc' = "done"
    /\ sTimeouts' = 0
    /\ Receive(m, {}, sRead)
    /\ UNCHANGED <<sRead, sBlock, clientVars>>

\* ACK 0 ends the transfer.
ServerReceiveFinalAck(m) ==
    /\ sPc = "ack"
    /\ m.ok /\ m.op = "ACK" /\ m.block = 0
    /\ sPc' = "done"
    /\ sTimeouts' = 0
    /\ Receive(m, {}, sRead)
    /\ UNCHANGED <<sRead, sBlock, clientVars>>

ServerReceive(m) ==
    /\ ToServer(m)
    /\ \/ ServerFrqReceive(m)
       \/ ServerReceiveFrq(m)
       \/ ServerReceiveError(m)
       \/ ServerReceiveDamaged(m)
       \/ ServerReceiveOldAck(m)
       \/ ServerReceiveAck(m)
       \/ ServerReceiveFinalAck(m)

ServerTimeout == ServerFrqTimeout \/ ServerAckTimeout
-----------------------------------------------------------------------------
(* The client. *)

\* Nothing for 1 second: before the first block the FRQ is sent again, after
\* it an ERROR names the last block received.
ClientTimeout ==
    /\ cPc = "recv"
    /\ IF cTimeouts > MaxTimeouts
         THEN /\ cPc' = "gaveup"
              /\ UNCHANGED <<cTimeouts, net, faults>>
         ELSE /\ cTimeouts' = cTimeouts + 1
              /\ Send({IF cBlock = 0 THEN Frq ELSE Error(cBlock, sRead)})
              /\ UNCHANGED cPc
    /\ UNCHANGED <<cBlock, written, serverVars>>

\* The turns of the client's loop that leave the file alone.
ClientStay(m, reply) ==
    /\ cPc = "recv"
    /\ cTimeouts' = 0
    /\ Receive(m, {reply}, sRead)
    /\ UNCHANGED <<cPc, cBlock, written, serverVars>>

\* Wrong: a damaged packet is acknowledged.
AckDamaged(m) == ~m.ok /\ ClientStay(m, Ack(cBlock, sRead))

\* A damaged packet is answered by ERROR.
ClientReceiveDamaged(m) == ~m.ok /\ ClientStay(m, Error(cBlock, sRead))

\* Wrong: a DATA out of turn is acknowledged as the last block written.
AckLastBlock(m) ==
    /\ m.ok /\ m.block # cBlock + 1
    /\ ClientStay(m, Ack(cBlock, sRead))

\* A DATA out of turn is acknowledged again under its own number.
ClientReceiveOldData(m) ==
    /\ m.ok /\ m.block # cBlock + 1
    /\ ClientStay(m, Ack(m.block, sRead))

\* The expected DATA is written; the short one ends the transfer.
ClientReceiveData(m) ==
    /\ cPc = "recv"
    /\ m.ok /\ m.block = cBlock + 1
    /\ written' = written \o Payload(m.idx)
    /\ cTimeouts' = 0
    /\ IF Short(m.idx)
         THEN /\ cPc' = "finished"
              /\ cBlock' = 0
              /\ Receive(m, {Ack(0, sRead)}, sRead)
         ELSE /\ cBlock' = ClientBlock(m.block)
              /\ Receive(m, {Ack(m.block, sRead)}, sRead)
              /\ UNCHANGED cPc
    /\ UNCHANGED serverVars

ClientReceive(m) ==
    /\ ToClient(m)
    /\ \/ ClientReceiveDamaged(m)
       \/ ClientReceiveOldData(m)
       \/ ClientReceiveData(m)
-----------------------------------------------------------------------------
(* The network. *)

Lose(m) == net' = net \ {m} /\ UNCHANGED <<serverVars, clientVars, faults>>

Damage(m) ==
    /\ faults < MaxFaults /\ m.ok
    /\ faults' = faults + 1
    /\ net' = (net \ {m}) \cup {[m EXCEPT !.ok = FALSE]}
    /\ UNCHANGED <<serverVars, clientVars>>

Ended == sPc \in {"done", "exit"} /\ cPc \in {"finished", "gaveup"}

\* Both processes have returned and the network is empty.
Terminated == Ended /\ net = {} /\ UNCHANGED vars

Next ==
    \/ ServerTimeout
    \/ ClientTimeout
    \/ \E m \in net : ServerReceive(m) \/ ClientReceive(m) \/ Lose(m) \/ Damage(m)
    \/ Terminated

Spec == Init /\ [][Next]_vars
-----------------------------------------------------------------------------
(***************************************************************************)
(* Fairness.  Something happens as long as it must: a datagram in flight   *)
(* is received or lost in the end, and a recvfrom() to which nothing is on *)
(* its way times out (SO_RCVTIMEO runs anew for each, so no other timeout  *)
(* is certain).  And a datagram that is repeated for ever is not lost      *)
(* every time: without this the two sides could answer each other's        *)
(* retransmissions, and so reset each other's TimeoutNum, for ever.        *)
(***************************************************************************)
Settle == \E m \in net : ServerReceive(m) \/ ClientReceive(m) \/ Lose(m)
QuietServer == \A m \in net : ~ToServer(m)
QuietClient == \A m \in net : ~ToClient(m)

Fairness ==
    /\ WF_vars(\/ Settle
               \/ QuietServer /\ ServerTimeout
               \/ QuietClient /\ ClientTimeout)
    /\ SF_vars(\E m \in net : m.op = "ACK" /\ ServerReceive(m))
    /\ SF_vars(\E m \in net : ClientReceive(m))

FairSpec == Spec /\ Fairness
-----------------------------------------------------------------------------
\* Block numbers stay below the one that is never used, on both sides, and
\* neither TimeoutNum passes its bound by more than the final test.
TypeOK ==
    /\ sPc \in {"frq", "ack", "done", "exit"}
    /\ sRead \in Nat
    /\ sBlock \in 1 .. BlockWrap - 1
    /\ sTimeouts \in 0 .. MaxTimeouts + 1
    /\ cPc \in {"recv", "finished", "gaveup"}
    /\ cBlock \in 0 .. BlockWrap - 1
    /\ cTimeouts \in 0 .. MaxTimeouts + 1
    /\ written \in Seq(Nat)
    /\ net \subseteq Packets
    /\ faults \in 0 .. MaxFaults

\* The file on the client's disk is, at every moment, the first blocks of the
\* served file in order: none is skipped, repeated or written out of turn,
\* although an out-of-turn DATA is acknowledged and block numbers wrap.
WrittenIsPrefix ==
    /\ Len(written) <= FileBlocks
    /\ \A i \in 1 .. Len(written) : written[i] = i

\* "[Transmission finish!!]" is reported only for the whole file, and the
\* server ends its loop by ACK 0 only when the client has reported it.
FinishMeansWholeFile ==
    /\ cPc = "finished" => Len(written) = FileBlocks
    /\ sPc = "done" => cPc = "finished"

\* Stop and wait: the server is never more than one block ahead of the client
\* and never behind it, and never reads past the short block.
InStep ==
    /\ sRead - Len(written) \in {0, 1}
    /\ sRead <= FileBlocks

\* Once a block has been written the client never asks for the file again
\* (its block variable restarts at 1, not 0): a FRQ reaches the wire only
\* while the client's file is empty.
NoSecondRequest ==
    [][~FrqIn(net) /\ FrqIn(net') => written = <<>>]_vars

\* startMyftpServer() and startMyftpClient() both return, whatever the network
\* loses.
Termination == <>Ended
-----------------------------------------------------------------------------
\* The transfer implements FileCopy: the blocks written are the blocks copied,
\* and each side's outcome is what its loop ended with.
Copy == INSTANCE FileCopy WITH
    copied <- Len(written),
    receiver <- CASE cPc = "recv" -> "open"
                  [] cPc = "finished" -> "complete"
                  [] OTHER -> "partial",
    sender <- CASE sPc \in {"frq", "ack"} -> "serving"
                [] sPc = "done" -> "confirmed"
                [] OTHER -> "failed"

\* Every behaviour of the protocol, seen through that mapping, is one of
\* FileCopy: retransmissions, duplicates and losses are invisible in it.
ImplementsFileCopy == Copy!Spec
=============================================================================

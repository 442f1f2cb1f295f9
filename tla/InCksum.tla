------------------------------- MODULE InCksum -------------------------------
(***************************************************************************)
(* in_cksum() of HW5 (and fill_cksum() of HW6, the same loop) at work on   *)
(* one packet: the sender zeroes the checksum field, sums the packet and   *)
(* stores the answer; the wire may replace one 16-bit word; the receiver   *)
(* sums its whole zeroed buffer, which is longer than the packet whenever  *)
(* the last DATA block is short.                                           *)
(*                                                                         *)
(* A byte is 0 .. Base - 1 and a word is two bytes, low one first.  The    *)
(* program has Base = 256.                                                 *)
(***************************************************************************)
EXTENDS Integers, Sequences

CONSTANTS
    Base,       \* values of a byte
    BufLen      \* bytes of the receiver's buffer

Word == Base * Base

\* The buffers for DATA and for ACK and ERROR hold whole words (518 and 6
\* bytes); that of the server for a FRQ, of strlen() + 5 bytes, may not, and is
\* left to MyftpServer.  Two foldings are enough only while the words are fewer
\* than their values.
ASSUME CksumAssumption ==
    /\ Base \in Nat /\ Base > 1
    /\ BufLen \in Nat /\ BufLen % 2 = 0 /\ BufLen >= 4 /\ BufLen <= Word

VARIABLES
    phase,      \* "send", "wire", "recv" or "verdict"
    buf,        \* the bytes in_cksum() is called on
    w,          \* the next byte it looks at
    sum,        \* the int sum
    answer,     \* its result
    packet,     \* the packet on the wire
    change      \* what the wire did to it

vars == <<phase, buf, w, sum, answer, packet, change>>

Bytes == 0 .. Base - 1
Low(x) == x % Base
High(x) == x \div Base
\* The 16-bit word of the bytes at i and i + 1.
WordAt(b, i) == b[i] + Base * b[i + 1]
PutWord(b, i, x) == [b EXCEPT ![i] = Low(x), ![i + 1] = High(x)]

\* The checksum field is the second word of every header.
Field == 3

ZeroPad(b) == b \o [i \in 1 .. BufLen - Len(b) |-> 0]
-----------------------------------------------------------------------------
Init ==
    /\ phase = "send"
    /\ \E n \in 4 .. BufLen : \E b \in [1 .. n -> Bytes] :
          b[Field] = 0 /\ b[Field + 1] = 0 /\ buf = b
    /\ w = 1 /\ sum = 0 /\ answer = 0
    /\ packet = <<>> /\ change = "none"

nleft == Len(buf) - w + 1
Summing == phase \in {"send", "recv"}

\* Wrong: w is a pointer to bytes.
AddLowByte ==
    /\ Summing /\ nleft > 1
    /\ sum' = sum + buf[w]
    /\ w' = w + 2
    /\ UNCHANGED <<phase, buf, answer, packet, change>>

\* sum += *w++ while more than one byte is left.
AddWord ==
    /\ Summing /\ nleft > 1
    /\ sum' = sum + WordAt(buf, w)
    /\ w' = w + 2
    /\ UNCHANGED <<phase, buf, answer, packet, change>>

\* Wrong: the odd byte is added as the high byte of a word.
AddOddHigh ==
    /\ Summing /\ nleft = 1
    /\ sum' = sum + Base * buf[w]
    /\ w' = w + 1
    /\ UNCHANGED <<phase, buf, answer, packet, change>>

\* The odd byte at the end is the low byte of a word.
AddOddByte ==
    /\ Summing /\ nleft = 1
    /\ sum' = sum + buf[w]
    /\ w' = w + 1
    /\ UNCHANGED <<phase, buf, answer, packet, change>>

\* Wrong: the carry of the first folding is dropped.
FoldOnce(s) == (s \div Word) + (s % Word)

\* sum = (sum >> 16) + (sum & 0xFFFF); sum += (sum >> 16)
Fold(s) ==
    LET once == (s \div Word) + (s % Word)
    IN  once + once \div Word

\* answer = ~sum, in the 16 bits of an unsigned short.
Complement(s) == Word - 1 - (s % Word)

Answer(s) == Complement(Fold(s))

\* in_cksum() returns, and the sender stores its answer and sends.
SenderReturns ==
    /\ phase = "send" /\ nleft <= 0
    /\ answer' = Answer(sum)
    /\ packet' = PutWord(buf, Field, answer')
    /\ phase' = "wire"
    /\ UNCHANGED <<buf, w, sum, change>>

\* The packet arrives, as the bytes b, in the receiver's zeroed buffer.
Deliver(b, what) ==
    /\ phase = "wire"
    /\ phase' = "recv"
    /\ buf' = b
    /\ w' = 1 /\ sum' = 0
    /\ change' = what
    /\ UNCHANGED <<answer, packet>>

DeliverIntact == Deliver(ZeroPad(packet), "none")

\* One word of the packet is damaged.  0 and its ones' complement, Word - 1,
\* weigh the same.
DeliverDamaged ==
    LET b == ZeroPad(packet)
    IN  \E i \in {j \in 1 .. Len(packet) : j % 2 = 1 /\ j < BufLen} :
          \E x \in IF i < Len(packet) THEN 0 .. Word - 1 ELSE Bytes :
             /\ x # WordAt(b, i)
             /\ Deliver(PutWord(b, i, x),
                        IF {x, WordAt(b, i)} = {0, Word - 1} THEN "zero" ELSE "word")

\* in_cksum() returns: the packet is taken for intact if its answer is 0.
ReceiverReturns ==
    /\ phase = "recv" /\ nleft <= 0
    /\ answer' = Answer(sum)
    /\ phase' = "verdict"
    /\ UNCHANGED <<buf, w, sum, packet, change>>

Judged == phase = "verdict" /\ UNCHANGED vars

Next ==
    \/ AddWord \/ AddOddByte
    \/ SenderReturns \/ DeliverIntact \/ DeliverDamaged \/ ReceiverReturns
    \/ Judged

Spec == Init /\ [][Next]_vars
-----------------------------------------------------------------------------
\* Ones' complement addition with the end-around carry taken at every step:
\* the definition of the Internet checksum.
EndAround(x, y) == IF x + y >= Word THEN x + y - (Word - 1) ELSE x + y
OnesSum(b) ==
    LET s[n \in 0 .. Len(b) \div 2] ==
            IF n = 0 THEN 0 ELSE EndAround(s[n - 1], WordAt(b, 2 * n - 1))
    IN  s[Len(b) \div 2]

\* Carries collected in an int and folded in twice at the end give the same
\* checksum as the definition.
SameAsReference == phase = "verdict" => answer = Word - 1 - OnesSum(buf)

\* An undamaged packet passes, whatever its bytes and whether its length is
\* odd, although sender and receiver sum different numbers of bytes.
IntactPasses == phase = "verdict" /\ change = "none" => answer = 0

\* A packet with one damaged word does not pass, except when 0 became
\* Word - 1 or the reverse: the only damage to one word in_cksum() misses.
DamageDetected ==
    phase = "verdict" => ((change = "word") => (answer # 0))
=============================================================================

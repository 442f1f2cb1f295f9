--------------------------- MODULE InCksumProofs ---------------------------
(***************************************************************************)
(* What in_cksum()'s two foldings and complement promise for sums of every *)
(* size the program can form, and for words of every width.                *)
(***************************************************************************)
EXTENDS InCksum, WellFoundedInduction, TLAPS

\* The sums that two foldings are enough for: those of fewer than Word words.
FoldableSums == {s \in Nat : s \div Word <= Word - 2}

LEMMA WordSize == Word \in Nat /\ Word > 3
<1>1. Base \in Nat /\ Base >= 2
  BY CksumAssumption
<1>2. PICK d \in Nat : Base = 2 + d
  <2>1. Base - 2 \in Nat /\ Base = 2 + (Base - 2)
    BY <1>1
  <2> QED BY <2>1
<1>3. Word = 4 + 4 * d + d * d /\ d * d \in Nat
  BY <1>2 DEF Word
<1> QED BY <1>3

\* Quotient and remainder of a sum.
LEMMA Split ==
    ASSUME NEW s \in Nat
    PROVE  /\ s \div Word \in Nat /\ s % Word \in 0 .. Word - 1
           /\ s = Word * (s \div Word) + (s % Word)
  BY WordSize

LEMMA SplitUnique ==
    ASSUME NEW q \in Nat, NEW r \in 0 .. Word - 1
    PROVE  (Word * q + r) \div Word = q /\ (Word * q + r) % Word = r
<1> DEFINE s == Word * q + r
<1>0. Word * q \in Nat /\ s \in Nat
  BY WordSize
<1>1. /\ s \div Word \in Nat /\ s % Word \in 0 .. Word - 1
      /\ s = Word * (s \div Word) + (s % Word)
  BY <1>0, Split
<1> QED BY WordSize, <1>1

\* The result of in_cksum() for the sum q * Word + r.
LEMMA AnswerOf ==
    ASSUME NEW q \in Nat, NEW r \in 0 .. Word - 1, q <= Word - 1
    PROVE  Answer(Word * q + r) = IF q + r < Word THEN Word - 1 - (q + r)
                                                  ELSE 2 * Word - 2 - (q + r)
<1> DEFINE s == Word * q + r
<1>1. s \div Word = q /\ s % Word = r
  BY SplitUnique
<1>2. CASE q + r < Word
  <2>1. (q + r) \div Word = 0 /\ (q + r) % Word = q + r
    BY <1>2, WordSize
  <2>2. Fold(s) = q + r
    BY <1>1, <2>1, WordSize DEF Fold
  <2> QED BY <1>2, <2>1, <2>2 DEF Answer, Complement
<1>3. CASE q + r >= Word
  <2>1. q + r = Word * 1 + (q + r - Word) /\ q + r - Word \in 0 .. Word - 1
    BY <1>3, WordSize
  <2>2. (q + r) \div Word = 1
    BY <2>1, SplitUnique
  <2>3. Fold(s) = q + r + 1
    BY <1>1, <2>2, WordSize DEF Fold
  <2>4. q + r + 1 = Word * 1 + (q + r + 1 - Word) /\ q + r + 1 - Word \in 0 .. Word - 1
    BY <1>3, WordSize
  <2>5. (q + r + 1) % Word = q + r + 1 - Word
    BY <2>4, SplitUnique
  <2> QED BY <1>3, <2>3, <2>5, WordSize DEF Answer, Complement
<1> QED BY <1>2, <1>3, WordSize

SplitAnswer(s, q, r) ==
    /\ s = Word * q + r /\ q <= Word - 2
    /\ Answer(s) = IF q + r < Word THEN Word - 1 - (q + r) ELSE 2 * Word - 2 - (q + r)

LEMMA AnswerSplit ==
    ASSUME NEW s \in FoldableSums
    PROVE  \E q \in Nat, r \in 0 .. Word - 1 : SplitAnswer(s, q, r)
<1>1. \E q \in Nat, r \in 0 .. Word - 1 : s = Word * q + r /\ q <= Word - 2
  BY Split DEF FoldableSums
<1>2. PICK q \in Nat, r \in 0 .. Word - 1 : s = Word * q + r /\ q <= Word - 2
  BY <1>1
<1>3. q <= Word - 1
  BY <1>2, WordSize
<1>4. Answer(s) = IF q + r < Word THEN Word - 1 - (q + r) ELSE 2 * Word - 2 - (q + r)
  BY <1>2, <1>3, AnswerOf
<1> QED BY <1>2, <1>4 DEF SplitAnswer

\* The answer always fits the unsigned short it is stored in, so the checksum
\* field holds all of it.
THEOREM AnswerFits == \A s \in FoldableSums : Answer(s) \in 0 .. Word - 1
<1> SUFFICES ASSUME NEW s \in FoldableSums PROVE Answer(s) \in 0 .. Word - 1
  OBVIOUS
<1>1. PICK q \in Nat, r \in 0 .. Word - 1 : SplitAnswer(s, q, r)
  BY AnswerSplit
<1>2. /\ s = Word * q + r /\ q <= Word - 2
      /\ Answer(s) = IF q + r < Word THEN Word - 1 - (q + r) ELSE 2 * Word - 2 - (q + r)
  BY <1>1 DEF SplitAnswer
<1> QED BY <1>2, WordSize

\* A packet whose other words sum to s, with in_cksum()'s answer for s in its
\* checksum field, sums to a packet in_cksum() answers 0 for.
THEOREM FilledPacketPasses ==
    \A s \in FoldableSums : Answer(s + Answer(s)) = 0
<1> SUFFICES ASSUME NEW s \in FoldableSums PROVE Answer(s + Answer(s)) = 0
  OBVIOUS
<1>1. PICK q \in Nat, r \in 0 .. Word - 1 : SplitAnswer(s, q, r)
  BY AnswerSplit
<1>2. /\ s = Word * q + r /\ q <= Word - 2
      /\ Answer(s) = IF q + r < Word THEN Word - 1 - (q + r) ELSE 2 * Word - 2 - (q + r)
  BY <1>1 DEF SplitAnswer
<1>3. CASE q + r < Word
  <2>1. s + Answer(s) = Word * q + (Word - 1 - q)
    BY <1>2, <1>3, WordSize
  <2>2. Word - 1 - q \in 0 .. Word - 1
    BY <1>2, WordSize
  <2>3. Answer(Word * q + (Word - 1 - q)) = 0
    BY <1>2, <2>2, AnswerOf, WordSize
  <2> QED BY <2>1, <2>3
<1>4. CASE q + r >= Word
  <2>1. Word * (q + 1) = Word * q + Word /\ Word * q \in Nat
    BY <1>2, WordSize
  <2>2. s + Answer(s) = Word * (q + 1) + (Word - 2 - q)
    BY <1>2, <1>4, <2>1, WordSize
  <2>3. Word - 2 - q \in 0 .. Word - 1
    BY <1>2, WordSize
  <2>4. Answer(Word * (q + 1) + (Word - 2 - q)) = 0
    <3> DEFINE p == q + 1
               t == Word - 2 - q
    <3>1. p \in Nat /\ t \in 0 .. Word - 1 /\ p <= Word - 1 /\ p + t = Word - 1
      BY <1>2, <2>3, WordSize
    <3> HIDE DEF p, t
    <3>2. Answer(Word * p + t) = 0
      BY <3>1, AnswerOf, WordSize
    <3> QED BY <3>2 DEF p, t
  <2> QED BY <2>2, <2>4
<1> QED BY <1>2, <1>3, <1>4, WordSize

\* in_cksum() answers 0 for multiples of Word - 1 only.
LEMMA ZeroAnswer ==
    ASSUME NEW s \in FoldableSums, Answer(s) = 0
    PROVE  \E c \in Nat : s = c * (Word - 1)
<1>1. PICK q \in Nat, r \in 0 .. Word - 1 : SplitAnswer(s, q, r)
  BY AnswerSplit
<1>2. /\ s = Word * q + r /\ q <= Word - 2
      /\ Answer(s) = IF q + r < Word THEN Word - 1 - (q + r) ELSE 2 * Word - 2 - (q + r)
  BY <1>1 DEF SplitAnswer
<1>3. r = Word - 1 - q
  BY <1>2, WordSize
<1>4. (q + 1) * (Word - 1) = Word * q + (Word - 1 - q)
  BY <1>2, WordSize
<1> QED BY <1>2, <1>3, <1>4

\* Replacing one word x of a packet that passes by another word y gives a
\* packet that does not pass, except for the words 0 and Word - 1.
THEOREM WordDamageFails ==
    \A s \in FoldableSums, x, y \in 0 .. Word - 1 :
       /\ Answer(s) = 0 /\ x # y /\ {x, y} # {0, Word - 1}
       /\ s + y - x \in FoldableSums
       => Answer(s + y - x) # 0
<1> SUFFICES ASSUME NEW s \in FoldableSums, NEW x \in 0 .. Word - 1,
                    NEW y \in 0 .. Word - 1, Answer(s) = 0, x # y,
                    s + y - x \in FoldableSums, Answer(s + y - x) = 0
             PROVE  {x, y} = {0, Word - 1}
  OBVIOUS
<1>1. PICK c \in Nat : s = c * (Word - 1)
  BY ZeroAnswer
<1>2. PICK d \in Nat : s + y - x = d * (Word - 1)
  BY ZeroAnswer
<1>3. s \in Nat /\ y - x = (d - c) * (Word - 1)
  BY <1>1, <1>2, WordSize DEF FoldableSums
<1>4. CASE d - c >= 1
  <2>1. (d - c) * (Word - 1) >= Word - 1
    BY <1>4, WordSize
  <2> QED BY <1>3, <2>1, WordSize
<1>5. CASE d - c <= -1
  <2>1. (d - c) * (Word - 1) <= -(Word - 1)
    BY <1>5, WordSize
  <2> QED BY <1>3, <2>1, WordSize
<1>6. CASE d - c = 0
  BY <1>3, <1>6, WordSize
<1> QED BY <1>4, <1>5, <1>6
-----------------------------------------------------------------------------
(* The loop.  The sum of a packet is spoken of as the last of a function of  *)
(* partial sums, which grows by one word with every turn of the loop.        *)

Words == BufLen \div 2

LEMMA BufSize ==
    /\ Base \in Nat /\ Base >= 2
    /\ BufLen \in Nat /\ Words \in Nat /\ BufLen = 2 * Words /\ Words >= 2
    /\ 2 * Words <= Word
<1>1. BufLen \in Nat /\ BufLen % 2 = 0 /\ BufLen >= 4 /\ BufLen <= Word
  BY CksumAssumption
<1>2. BufLen = 2 * Words /\ Words \in Nat
  BY <1>1 DEF Words
<1> QED BY <1>1, <1>2, CksumAssumption

\* Word k of a packet, counted from 0: its last one may be a single byte, and
\* what is not there weighs nothing.
WordOf(b, k) == IF 2 * k + 2 <= Len(b) THEN WordAt(b, 2 * k + 1)
                ELSE IF 2 * k + 1 = Len(b) THEN b[2 * k + 1] ELSE 0

\* A low and a high byte make a word, and a word is made of two bytes.
LEMMA TwoBytes ==
    ASSUME NEW lo \in Bytes, NEW hi \in Bytes
    PROVE  lo + Base * hi \in 0 .. Word - 1
<1>1. Base \in Nat /\ Base >= 2
  BY BufSize
<1>2. PICK d \in Nat : hi + 1 + d = Base
  <2>1. Base - 1 - hi \in Nat /\ hi + 1 + (Base - 1 - hi) = Base
    BY <1>1 DEF Bytes
  <2> QED BY <2>1
<1>3. Word = Base * hi + Base + Base * d
  BY <1>1, <1>2 DEF Word, Bytes
<1>4. Base * hi \in Nat /\ Base * d \in Nat /\ lo \in 0 .. Base - 1
  BY <1>1, <1>2 DEF Bytes
<1> QED BY <1>1, <1>3, <1>4

LEMMA WordSplit ==
    ASSUME NEW x \in 0 .. Word - 1
    PROVE  /\ Low(x) \in Bytes /\ High(x) \in Bytes
           /\ Low(x) + Base * High(x) = x
<1>1. Base \in Nat /\ Base >= 2 /\ x \in Nat
  BY BufSize, WordSize
<1>2. /\ x % Base \in 0 .. Base - 1 /\ x \div Base \in Nat
      /\ x = Base * (x \div Base) + (x % Base)
  BY <1>1
<1>3. PICK q \in Nat : q = x \div Base
  BY <1>2
<1>4. q < Base
  <2> SUFFICES ASSUME q >= Base PROVE FALSE
    BY <1>1
  <2>1. PICK e \in Nat : q = Base + e
    <3>1. q - Base \in Nat /\ q = Base + (q - Base)
      BY <1>1
    <3> QED BY <3>1
  <2>2. Base * q = Word + Base * e /\ Base * e \in Nat
    BY <1>1, <2>1 DEF Word
  <2> QED BY <1>1, <1>2, <1>3, <2>2, WordSize
<1> QED BY <1>1, <1>2, <1>3, <1>4 DEF Low, High, Bytes

LEMMA WordOfRange ==
    ASSUME NEW b \in Seq(Bytes), NEW k \in Nat
    PROVE  WordOf(b, k) \in 0 .. Word - 1
<1>1. Base \in Nat /\ Base >= 2 /\ 0 \in Bytes
  BY BufSize DEF Bytes
<1>2. CASE 2 * k + 2 <= Len(b)
  <2>1. b[2 * k + 1] \in Bytes /\ b[2 * k + 2] \in Bytes
    BY <1>2
  <2>2. WordOf(b, k) = b[2 * k + 1] + Base * b[2 * k + 2]
    BY <1>2 DEF WordOf, WordAt
  <2> QED BY <2>1, <2>2, TwoBytes
<1>3. CASE 2 * k + 1 = Len(b)
  <2>1. b[2 * k + 1] \in Bytes
    BY <1>3
  <2>2. b[2 * k + 1] + Base * 0 \in 0 .. Word - 1
    BY <1>1, <2>1, TwoBytes
  <2>3. b[2 * k + 1] + Base * 0 = b[2 * k + 1]
    BY <1>1, <2>1 DEF Bytes
  <2>4. WordOf(b, k) = b[2 * k + 1]
    BY <1>3 DEF WordOf
  <2> QED BY <2>2, <2>3, <2>4
<1>4. CASE ~(2 * k + 2 <= Len(b)) /\ 2 * k + 1 # Len(b)
  BY <1>4, WordSize DEF WordOf
<1> QED BY <1>2, <1>3, <1>4

\* A word put in its place is that word, and no other changes.
LEMMA PutWordWords ==
    ASSUME NEW b \in Seq(Bytes), NEW d \in Nat, 2 * d + 2 <= Len(b),
           NEW x \in 0 .. Word - 1
    PROVE  /\ PutWord(b, 2 * d + 1, x) \in Seq(Bytes)
           /\ Len(PutWord(b, 2 * d + 1, x)) = Len(b)
           /\ WordOf(PutWord(b, 2 * d + 1, x), d) = x
           /\ \A k \in Nat \ {d} :
                 WordOf(PutWord(b, 2 * d + 1, x), k) = WordOf(b, k)
<1> DEFINE c == PutWord(b, 2 * d + 1, x)
<1>1. Low(x) \in Bytes /\ High(x) \in Bytes /\ Low(x) + Base * High(x) = x
  BY WordSplit
<1>2. /\ b \in [1 .. Len(b) -> Bytes] /\ Len(b) \in Nat
      /\ 2 * d + 1 \in 1 .. Len(b) /\ 2 * d + 2 \in 1 .. Len(b)
      /\ (2 * d + 1) + 1 = 2 * d + 2
  OBVIOUS
<1>3. /\ c \in [1 .. Len(b) -> Bytes]
      /\ c[2 * d + 1] = Low(x) /\ c[2 * d + 2] = High(x)
      /\ \A i \in 1 .. Len(b) : i \notin {2 * d + 1, 2 * d + 2} => c[i] = b[i]
  BY <1>1, <1>2 DEF PutWord
<1> HIDE DEF c
<1>4. c \in Seq(Bytes) /\ Len(c) = Len(b)
  BY <1>2, <1>3
<1>5. WordOf(c, d) = x
  BY <1>1, <1>3, <1>4 DEF WordOf, WordAt
<1>6. ASSUME NEW k \in Nat \ {d} PROVE WordOf(c, k) = WordOf(b, k)
  <2>1. /\ 2 * k + 1 \notin {2 * d + 1, 2 * d + 2}
        /\ 2 * k + 2 \notin {2 * d + 1, 2 * d + 2}
        /\ (2 * k + 1) + 1 = 2 * k + 2
    BY <1>6
  <2>2. CASE 2 * k + 2 <= Len(b)
    <3>1. c[2 * k + 1] = b[2 * k + 1] /\ c[2 * k + 2] = b[2 * k + 2]
      BY <1>3, <2>1, <2>2
    <3> QED BY <1>4, <2>1, <2>2, <3>1 DEF WordOf, WordAt
  <2>3. CASE 2 * k + 1 = Len(b)
    <3>1. c[2 * k + 1] = b[2 * k + 1]
      BY <1>3, <2>1, <2>3
    <3> QED BY <1>4, <2>3, <3>1 DEF WordOf
  <2>4. CASE ~(2 * k + 2 <= Len(b)) /\ 2 * k + 1 # Len(b)
    BY <1>4, <2>4 DEF WordOf
  <2> QED BY <2>2, <2>3, <2>4
<1> QED BY <1>4, <1>5, <1>6 DEF c

\* The receiver's zeroed buffer adds only words of no weight.
LEMMA PadWords ==
    ASSUME NEW b \in Seq(Bytes), Len(b) <= BufLen
    PROVE  /\ ZeroPad(b) \in Seq(Bytes) /\ Len(ZeroPad(b)) = BufLen
           /\ \A k \in Nat : WordOf(ZeroPad(b), k) = WordOf(b, k)
<1> DEFINE z == [i \in 1 .. BufLen - Len(b) |-> 0]
           c == ZeroPad(b)
<1>1. /\ Base \in Nat /\ Base >= 2 /\ BufLen \in Nat /\ BufLen = 2 * Words
      /\ Words \in Nat /\ Len(b) \in Nat /\ BufLen - Len(b) \in Nat
  BY BufSize
<1>2. z \in Seq(Bytes) /\ Len(z) = BufLen - Len(b)
  BY <1>1 DEF Bytes
<1>3. /\ c \in Seq(Bytes) /\ Len(c) = BufLen
      /\ \A i \in 1 .. Len(b) : c[i] = b[i]
      /\ \A i \in Len(b) + 1 .. BufLen : c[i] = 0
  BY <1>1, <1>2 DEF ZeroPad
<1> HIDE DEF c, z
<1>4. ASSUME NEW k \in Nat PROVE WordOf(c, k) = WordOf(b, k)
  <2>1. CASE 2 * k + 2 <= Len(b)
    <3>1. c[2 * k + 1] = b[2 * k + 1] /\ c[2 * k + 2] = b[2 * k + 2]
      BY <1>1, <1>3, <2>1
    <3>2. 2 * k + 2 <= Len(c) /\ (2 * k + 1) + 1 = 2 * k + 2
      BY <1>1, <1>3, <2>1
    <3> QED BY <2>1, <3>1, <3>2 DEF WordOf, WordAt
  <2>2. CASE 2 * k + 1 = Len(b)
    <3>1. 2 * k + 2 <= BufLen
      BY <1>1, <2>2
    <3>2. c[2 * k + 1] = b[2 * k + 1] /\ c[2 * k + 2] = 0 /\ b[2 * k + 1] \in Bytes
      BY <1>1, <1>3, <2>2, <3>1
    <3>3. WordOf(c, k) = b[2 * k + 1] + Base * 0
      BY <1>3, <3>1, <3>2 DEF WordOf, WordAt
    <3>4. WordOf(b, k) = b[2 * k + 1]
      BY <2>2 DEF WordOf
    <3> QED BY <1>1, <3>2, <3>3, <3>4 DEF Bytes
  <2>3. CASE ~(2 * k + 2 <= Len(b)) /\ 2 * k + 1 # Len(b)
    <3>1. WordOf(b, k) = 0
      BY <2>3 DEF WordOf
    <3>2. CASE 2 * k + 2 <= BufLen
      <4>1. c[2 * k + 1] = 0 /\ c[2 * k + 2] = 0 /\ (2 * k + 1) + 1 = 2 * k + 2
        BY <1>1, <1>3, <2>3, <3>2
      <4> QED BY <1>1, <1>3, <3>1, <3>2, <4>1 DEF WordOf, WordAt
    <3>3. CASE ~(2 * k + 2 <= BufLen)
      <4>1. 2 * k + 1 # BufLen
        BY <1>1
      <4> QED BY <1>3, <3>1, <3>3, <4>1 DEF WordOf
    <3> QED BY <3>2, <3>3
  <2> QED BY <2>1, <2>2, <2>3
<1> QED BY <1>3, <1>4 DEF c
-----------------------------------------------------------------------------
(* The invariant. *)

\* The loop has added n words.
Reached(n) ==
    /\ n \in 0 .. Words
    /\ w = 2 * n + 1 \/ (w = 2 * n /\ w = Len(buf) + 1)

\* g has the sums of the first 0, 1, ..., n words of b.
Tally(g, b, n) ==
    /\ g \in [Nat -> Int] /\ g[0] = 0
    /\ \A k \in 0 .. n - 1 : g[k + 1] = g[k] + WordOf(b, k)

\* The sum so far, of the packet whose checksum field is still 0.
Sending ==
    phase = "send" =>
       /\ buf \in Seq(Bytes) /\ Len(buf) \in 4 .. BufLen
       /\ WordOf(buf, 1) = 0
       /\ \E n \in Nat, g \in [Nat -> Int] :
             /\ Reached(n) /\ Tally(g, buf, n)
             /\ sum = g[n] /\ sum \in Nat /\ sum <= n * (Word - 1)

\* The packet on the wire is one that in_cksum() passes.
Passes(h) ==
    /\ h \in [Nat -> Int] /\ Tally(h, packet, Words)
    /\ h[Words] \in FoldableSums /\ Answer(h[Words]) = 0

\* What the wire says it did, when word x has become y.
Told(what, x, y) ==
    /\ what = "none" => x = y
    /\ what = "word" => x # y /\ {x, y} # {0, Word - 1}

\* The receiver's sum differs from that of the packet sent by the one word, if
\* any, that was damaged: word d, which was x and is y.
Received(h, n, d, x, y) ==
    /\ Reached(n)
    /\ \A k \in Nat \ {d} : WordOf(buf, k) = WordOf(packet, k)
    /\ WordOf(packet, d) = x /\ WordOf(buf, d) = y
    /\ sum = h[n] + (IF d < n THEN y - x ELSE 0)
    /\ sum \in Nat /\ sum <= n * (Word - 1)
    /\ Told(change, x, y)

OnWire ==
    phase # "send" =>
       /\ packet \in Seq(Bytes) /\ Len(packet) \in 4 .. BufLen
       /\ \E h \in [Nat -> Int] : Passes(h)

Receiving ==
    phase = "recv" =>
       /\ buf \in Seq(Bytes) /\ Len(buf) = BufLen
       /\ \E h \in [Nat -> Int], n \in Nat, d \in 0 .. Words - 1,
             x, y \in 0 .. Word - 1 :
             Passes(h) /\ Received(h, n, d, x, y)

IInv == Sending /\ OnWire /\ Receiving /\ IntactPasses /\ DamageDetected

\* The sum of all the words a buffer holds can be folded.
LEMMA FewWords ==
    ASSUME NEW s \in Nat, s <= (Words + 1) * (Word - 1)
    PROVE  s \in FoldableSums
<1>1. Word \in Nat /\ Word > 3 /\ Words \in Nat /\ Words + 1 <= Word - 1
  BY BufSize, WordSize
<1>2. PICK e \in Nat : Word - 1 = Words + 1 + e
  <2>1. Word - 1 - (Words + 1) \in Nat
        /\ Word - 1 = Words + 1 + (Word - 1 - (Words + 1))
    BY <1>1
  <2> QED BY <2>1
<1>3. (Word - 1) * (Word - 1) = (Words + 1) * (Word - 1) + e * (Word - 1)
      /\ e * (Word - 1) >= 0
  <2>1. PICK m \in Nat : m = Word - 1
    BY <1>1
  <2>2. m = Words + 1 + e
    BY <1>2, <2>1
  <2>3. m * m = (Words + 1) * m + e * m
    BY <1>1, <2>1, <2>2
  <2> QED BY <2>1, <2>3
<1>4. /\ (Words + 1) * (Word - 1) \in Nat /\ e * (Word - 1) \in Nat
      /\ (Word - 1) * (Word - 1) \in Nat
  BY <1>1, <1>2
<1>5. s <= (Word - 1) * (Word - 1)
  BY <1>3, <1>4
<1>6. PICK q \in Nat, r \in 0 .. Word - 1 : s = Word * q + r /\ q = s \div Word
  BY Split
<1>7. q <= Word - 2
  <2> SUFFICES ASSUME q >= Word - 1 PROVE FALSE
    BY <1>1
  <2>1. PICK f \in Nat : q = Word - 1 + f
    <3>1. q - (Word - 1) \in Nat /\ q = Word - 1 + (q - (Word - 1))
      BY <1>1
    <3> QED BY <3>1
  <2>2. Word * q = (Word - 1) * (Word - 1) + (Word - 1) + Word * f
    BY <1>1, <2>1
  <2>3. Word * f \in Nat /\ Word * q \in Nat
    BY <1>1
  <2> QED BY <1>1, <1>4, <1>5, <1>6, <2>2, <2>3
<1> QED BY <1>6, <1>7 DEF FoldableSums

\* A turn of the loop, by a word or by the odd byte at the end.
LEMMA Turn ==
    ASSUME buf \in Seq(Bytes), Len(buf) <= BufLen, NEW n \in Nat, Reached(n),
           AddWord \/ AddOddByte
    PROVE  /\ n + 1 \in 0 .. Words
           /\ w' = 2 * (n + 1) + 1 \/ (w' = 2 * (n + 1) /\ w' = Len(buf) + 1)
           /\ sum' = sum + WordOf(buf, n)
           /\ UNCHANGED <<phase, buf, answer, packet, change>>
<1>1. /\ BufLen \in Nat /\ BufLen = 2 * Words /\ Words \in Nat /\ Len(buf) \in Nat
  BY BufSize
<1>2. w = 2 * n + 1 /\ (2 * n + 1) + 1 = 2 * n + 2
  BY <1>1 DEF Reached, AddWord, AddOddByte, nleft
<1>3. CASE AddWord
  <2>1. 2 * n + 2 <= Len(buf)
    BY <1>1, <1>2, <1>3 DEF AddWord, nleft
  <2>2. sum' = sum + WordOf(buf, n)
    BY <1>2, <1>3, <2>1 DEF AddWord, WordOf
  <2>3. w' = 2 * (n + 1) + 1 /\ n + 1 \in 0 .. Words
    BY <1>1, <1>2, <1>3, <2>1 DEF AddWord
  <2> QED BY <1>3, <2>2, <2>3 DEF AddWord
<1>4. CASE AddOddByte
  <2>1. 2 * n + 1 = Len(buf)
    BY <1>1, <1>2, <1>4 DEF AddOddByte, nleft
  <2>2. sum' = sum + WordOf(buf, n)
    BY <1>1, <1>2, <1>4, <2>1 DEF AddOddByte, WordOf
  <2>3. w' = 2 * (n + 1) /\ w' = Len(buf) + 1 /\ n + 1 \in 0 .. Words
    BY <1>1, <1>2, <1>4, <2>1 DEF AddOddByte
  <2> QED BY <1>4, <2>2, <2>3 DEF AddOddByte
<1> QED BY <1>3, <1>4

\* One more word keeps the sum below its bound.
LEMMA OneWordMore ==
    ASSUME NEW n \in Nat, NEW s \in Nat, s <= n * (Word - 1),
           NEW v \in 0 .. Word - 1
    PROVE  s + v \in Nat /\ s + v <= (n + 1) * (Word - 1)
<1>1. PICK m \in Nat : m = Word - 1
  BY WordSize
<1>2. n * m \in Nat /\ (n + 1) * m = n * m + m
  BY <1>1
<1> QED BY <1>1, <1>2

LEMMA TurnSending ==
    ASSUME IInv, phase = "send", AddWord \/ AddOddByte
    PROVE  Sending'
<1>1. /\ buf \in Seq(Bytes) /\ Len(buf) \in 4 .. BufLen /\ WordOf(buf, 1) = 0
      /\ BufLen \in Nat
  BY BufSize DEF IInv, Sending
<1>2. PICK n \in Nat, g \in [Nat -> Int] :
         /\ Reached(n) /\ Tally(g, buf, n)
         /\ sum = g[n] /\ sum \in Nat /\ sum <= n * (Word - 1)
  BY DEF IInv, Sending
<1>3. /\ n + 1 \in 0 .. Words
      /\ w' = 2 * (n + 1) + 1 \/ (w' = 2 * (n + 1) /\ w' = Len(buf) + 1)
      /\ sum' = sum + WordOf(buf, n)
      /\ UNCHANGED <<phase, buf>>
  BY <1>1, <1>2, Turn
<1>4. PICK v \in 0 .. Word - 1 : v = WordOf(buf, n)
  BY <1>1, WordOfRange
<1>5. sum' \in Nat /\ sum' <= (n + 1) * (Word - 1)
  BY <1>2, <1>3, <1>4, OneWordMore
<1>6. PICK f \in [Nat -> Int] :
         \A k \in Nat : f[k] = IF k = n + 1 THEN sum + v ELSE g[k]
  <2>1. [k \in Nat |-> IF k = n + 1 THEN sum + v ELSE g[k]] \in [Nat -> Int]
    BY <1>2, <1>4
  <2> QED BY <2>1
<1>7. Tally(f, buf, n + 1)
  <2>1. f[0] = 0
    BY <1>2, <1>6 DEF Tally
  <2>2. ASSUME NEW k \in 0 .. (n + 1) - 1 PROVE f[k + 1] = f[k] + WordOf(buf, k)
    <3>1. CASE k = n
      BY <1>2, <1>4, <1>6, <3>1
    <3>2. CASE k # n
      <4>1. k \in 0 .. n - 1 /\ k # n + 1 /\ k + 1 # n + 1 /\ k \in Nat /\ k + 1 \in Nat
        BY <2>2, <3>2
      <4> QED BY <1>2, <1>6, <4>1 DEF Tally
    <3> QED BY <3>1, <3>2
  <2> QED BY <1>6, <2>1, <2>2 DEF Tally
<1>8. f[n + 1] = sum'
  BY <1>3, <1>4, <1>6
<1>9. Reached(n + 1)'
  BY <1>3 DEF Reached
<1>10. Tally(f, buf, n + 1)'
  BY <1>3, <1>7 DEF Tally, WordOf, WordAt
<1>11. WordOf(buf, 1)' = 0
  BY <1>1, <1>3 DEF WordOf, WordAt
<1>12. \E i \in Nat, e \in [Nat -> Int] :
          /\ Reached(i)' /\ Tally(e, buf, i)'
          /\ sum' = e[i] /\ sum' \in Nat /\ sum' <= i * (Word - 1)
  BY <1>5, <1>6, <1>8, <1>9, <1>10
<1> QED BY <1>1, <1>3, <1>11, <1>12 DEF Sending

LEMMA TurnReceiving ==
    ASSUME IInv, phase = "recv", AddWord \/ AddOddByte
    PROVE  Receiving' /\ OnWire'
<1>1. buf \in Seq(Bytes) /\ Len(buf) = BufLen /\ BufLen \in Nat
  BY BufSize DEF IInv, Receiving
<1>2. PICK h \in [Nat -> Int], n \in Nat, d \in 0 .. Words - 1,
           x \in 0 .. Word - 1, y \in 0 .. Word - 1 :
         Passes(h) /\ Received(h, n, d, x, y)
  BY DEF IInv, Receiving
<1>3. /\ n + 1 \in 0 .. Words
      /\ w' = 2 * (n + 1) + 1 \/ (w' = 2 * (n + 1) /\ w' = Len(buf) + 1)
      /\ sum' = sum + WordOf(buf, n)
      /\ UNCHANGED <<phase, buf, packet, change>>
  BY <1>1, <1>2, Turn DEF Received
<1>4. PICK v \in 0 .. Word - 1 : v = WordOf(buf, n)
  BY <1>1, WordOfRange
<1>5. sum' \in Nat /\ sum' <= (n + 1) * (Word - 1)
  BY <1>2, <1>3, <1>4, OneWordMore DEF Received
<1>6. /\ h[n] \in Int /\ h[n + 1] \in Int /\ n \in Nat /\ d \in Nat
      /\ sum = h[n] + (IF d < n THEN y - x ELSE 0)
      /\ x \in Int /\ y \in Int
  BY <1>2, BufSize, WordSize DEF Received
<1>7. h[n + 1] = h[n] + WordOf(packet, n)
  <2>1. n \in 0 .. Words - 1
    BY <1>3, BufSize
  <2> QED BY <1>2, <2>1 DEF Passes, Tally
<1>8. sum' = h[n + 1] + (IF d < n + 1 THEN y - x ELSE 0)
  <2>1. CASE n = d
    <3>1. WordOf(packet, n) = x /\ v = y
      BY <1>2, <1>4, <2>1 DEF Received
    <3> QED BY <1>3, <1>4, <1>6, <1>7, <2>1, <3>1
  <2>2. CASE n # d
    <3>1. WordOf(packet, n) = v
      BY <1>2, <1>4, <2>2 DEF Received
    <3>2. h[n + 1] = h[n] + v /\ sum' = sum + v /\ v \in Int
      BY <1>3, <1>4, <1>7, <3>1, WordSize
    <3>3. d < n <=> d < n + 1
      BY <1>6, <2>2
    <3> QED BY <1>6, <3>2, <3>3
  <2> QED BY <2>1, <2>2
<1>9. Reached(n + 1)'
  BY <1>3 DEF Reached
<1>10. Received(h, n + 1, d, x, y)'
  <2>1. /\ \A k \in Nat \ {d} : WordOf(buf', k) = WordOf(packet', k)
        /\ WordOf(packet', d) = x /\ WordOf(buf', d) = y
        /\ Told(change', x, y)
    BY <1>2, <1>3 DEF Received
  <2> QED BY <1>5, <1>8, <1>9, <2>1 DEF Received
<1>11. Passes(h)'
  <2>1. packet' = packet
    BY <1>3
  <2> QED BY <1>2, <2>1 DEF Passes, Tally, WordOf, WordAt
<1>12. Receiving'
  <2>1. \E e \in [Nat -> Int], i \in Nat, j \in 0 .. Words - 1,
           p, q \in 0 .. Word - 1 : Passes(e)' /\ Received(e, i, j, p, q)'
    BY <1>2, <1>10, <1>11
  <2> QED BY <1>1, <1>3, <2>1 DEF Receiving
<1>13. OnWire'
  <2>1. \E e \in [Nat -> Int] : Passes(e)'
    BY <1>11
  <2>2. packet \in Seq(Bytes) /\ Len(packet) \in 4 .. BufLen
    BY DEF IInv, OnWire
  <2> QED BY <1>3, <2>1, <2>2 DEF OnWire
<1> QED BY <1>12, <1>13

LEMMA Fewer ==
    ASSUME NEW n \in 0 .. Words
    PROVE  /\ n * (Word - 1) \in Nat
           /\ n * (Word - 1) <= Words * (Word - 1)
           /\ (n + 1) * (Word - 1) = n * (Word - 1) + (Word - 1)
           /\ Words * (Word - 1) \in Nat
           /\ (Words + 1) * (Word - 1) = Words * (Word - 1) + (Word - 1)
<1>1. PICK m \in Nat : m = Word - 1
  BY WordSize
<1>2. PICK e \in Nat : Words = n + e
  <2>1. Words - n \in Nat /\ Words = n + (Words - n)
    BY BufSize
  <2> QED BY <2>1
<1>3. /\ n \in Nat /\ n * m \in Nat /\ e * m \in Nat
      /\ (n + 1) * m = n * m + m
      /\ Words * m = n * m + e * m
      /\ (Words + 1) * m = Words * m + m
  BY <1>1, <1>2, BufSize
<1> QED BY <1>1, <1>3

\* The sender stores the answer in its checksum field, which held 0.
LEMMA SenderReturnsInv ==
    ASSUME IInv, SenderReturns
    PROVE  OnWire'
<1>1. /\ buf \in Seq(Bytes) /\ Len(buf) \in 4 .. BufLen /\ WordOf(buf, 1) = 0
      /\ BufLen \in Nat
  BY BufSize DEF IInv, Sending, SenderReturns
<1>2. PICK n \in Nat, g \in [Nat -> Int] :
         /\ Reached(n) /\ Tally(g, buf, n)
         /\ sum = g[n] /\ sum \in Nat /\ sum <= n * (Word - 1)
  BY DEF IInv, Sending, SenderReturns
<1>3. n \in 0 .. Words /\ n >= 2 /\ 2 * n >= Len(buf)
  <2>1. Len(buf) - w + 1 <= 0
    BY DEF SenderReturns, nleft
  <2>2. n \in 0 .. Words /\ (w = 2 * n + 1 \/ (w = 2 * n /\ w = Len(buf) + 1))
    BY <1>2 DEF Reached
  <2> QED BY <1>1, <2>1, <2>2, BufSize
<1>4. \A k \in Nat : k >= n => WordOf(buf, k) = 0
  BY <1>1, <1>3 DEF WordOf
<1>5. sum \in FoldableSums
  BY <1>2, <1>3, Fewer, FewWords, WordSize
<1>6. PICK a \in 0 .. Word - 1 : a = Answer(sum)
  BY <1>5, AnswerFits
<1>7. packet' = PutWord(buf, 3, a) /\ phase' = "wire"
  BY <1>6 DEF SenderReturns, Field
<1>8. /\ packet' \in Seq(Bytes) /\ Len(packet') = Len(buf)
      /\ WordOf(packet', 1) = a
      /\ \A k \in Nat \ {1} : WordOf(packet', k) = WordOf(buf, k)
  <2>1. 1 \in Nat /\ 2 * 1 + 2 <= Len(buf) /\ 2 * 1 + 1 = 3
    BY <1>1
  <2>2. /\ PutWord(buf, 2 * 1 + 1, a) \in Seq(Bytes)
        /\ Len(PutWord(buf, 2 * 1 + 1, a)) = Len(buf)
        /\ WordOf(PutWord(buf, 2 * 1 + 1, a), 1) = a
        /\ \A k \in Nat \ {1} :
              WordOf(PutWord(buf, 2 * 1 + 1, a), k) = WordOf(buf, k)
    BY <1>1, <2>1, PutWordWords
  <2> QED BY <1>7, <2>1, <2>2
<1>9. PICK h \in [Nat -> Int] :
         \A k \in Nat : h[k] = IF k <= 1 THEN g[k]
                               ELSE IF k <= n THEN g[k] + a ELSE g[n] + a
  <2>1. [k \in Nat |-> IF k <= 1 THEN g[k]
                       ELSE IF k <= n THEN g[k] + a ELSE g[n] + a] \in [Nat -> Int]
    BY <1>2, <1>6, WordSize
  <2> QED BY <2>1
<1>10. PICK p \in Seq(Bytes) : p = packet'
  BY <1>8
<1>11. Tally(h, p, Words)
  <2>1. \A k \in 0 .. n - 1 : g[k + 1] = g[k] + WordOf(buf, k)
    BY <1>2 DEF Tally
  <2>2. h[0] = 0
    BY <1>2, <1>9 DEF Tally
  <2>3. ASSUME NEW k \in 0 .. Words - 1 PROVE h[k + 1] = h[k] + WordOf(p, k)
    <3>1. k \in Nat /\ k + 1 \in Nat /\ g[k] \in Int /\ g[n] \in Int /\ a \in Int
      BY <1>2, <1>6, WordSize
    <3>2. CASE k = 0
      <4>1. g[0 + 1] = g[0] + WordOf(buf, 0)
        <5>1. 0 \in 0 .. n - 1
          BY <1>2, <1>3
        <5> QED BY <2>1, <5>1
      <4>2. h[1] = g[1] /\ h[0] = g[0] /\ 0 + 1 = 1
        BY <1>9
      <4>3. WordOf(p, 0) = WordOf(buf, 0)
        BY <1>8, <1>10
      <4> QED BY <3>2, <4>1, <4>2, <4>3
    <3>3. CASE k = 1
      <4>1. g[1 + 1] = g[1] + WordOf(buf, 1)
        <5>1. 1 \in 0 .. n - 1
          BY <1>2, <1>3
        <5> QED BY <2>1, <5>1
      <4>2. h[2] = g[2] + a /\ h[1] = g[1] /\ 1 + 1 = 2
        <5>1. 1 \in Nat /\ 2 \in Nat /\ 1 <= 1 /\ ~(2 <= 1) /\ 2 <= n
          BY <1>2, <1>3
        <5> QED BY <1>9, <5>1
      <4>3. WordOf(p, 1) = a
        BY <1>8, <1>10
      <4> QED BY <1>1, <3>1, <3>3, <4>1, <4>2, <4>3
    <3>4. CASE k >= 2 /\ k < n
      <4>1. k \in 0 .. n - 1 /\ ~(k <= 1) /\ ~(k + 1 <= 1) /\ k <= n /\ k + 1 <= n
        BY <1>2, <3>1, <3>4
      <4>2. h[k + 1] = g[k + 1] + a /\ h[k] = g[k] + a
        BY <1>9, <3>1, <4>1
      <4>3. g[k + 1] = g[k] + WordOf(buf, k) /\ WordOf(p, k) = WordOf(buf, k)
        BY <1>8, <1>10, <2>1, <3>1, <4>1
      <4>4. WordOf(buf, k) \in Int
        BY <1>1, <3>1, WordOfRange, WordSize
      <4> QED BY <3>1, <4>2, <4>3, <4>4
    <3>5. CASE k >= n
      <4>1. k # 1 /\ ~(k <= 1) /\ ~(k + 1 <= 1) /\ ~(k + 1 <= n)
        BY <1>2, <1>3, <3>1, <3>5
      <4>2. h[k + 1] = g[n] + a
        BY <1>9, <3>1, <4>1
      <4>3. h[k] = g[n] + a
        BY <1>2, <1>9, <3>1, <3>5, <4>1
      <4>4. WordOf(p, k) = 0
        BY <1>4, <1>8, <1>10, <3>1, <3>5, <4>1
      <4> QED BY <3>1, <4>2, <4>3, <4>4
    <3> QED BY <1>2, <3>1, <3>2, <3>3, <3>4, <3>5
  <2> QED BY <1>9, <2>2, <2>3 DEF Tally
<1>12. h[Words] = sum + Answer(sum)
  <2>1. Words \in Nat /\ ~(Words <= 1) /\ (Words <= n => Words = n)
    BY <1>3, BufSize
  <2> QED BY <1>2, <1>6, <1>9, <2>1
<1>13. Answer(h[Words]) = 0
  BY <1>5, <1>12, FilledPacketPasses
<1>14. h[Words] \in FoldableSums
  <2>1. sum + a \in Nat /\ sum + a <= (Words + 1) * (Word - 1)
    <3>1. /\ n * (Word - 1) \in Nat /\ Words * (Word - 1) \in Nat
          /\ n * (Word - 1) <= Words * (Word - 1)
          /\ (Words + 1) * (Word - 1) = Words * (Word - 1) + (Word - 1)
      BY <1>3, Fewer
    <3>2. a <= Word - 1 /\ a \in Nat /\ Word - 1 \in Nat
      BY <1>6, WordSize
    <3>3. PICK i \in Nat, j \in Nat : i = n * (Word - 1) /\ j = Words * (Word - 1)
      BY <3>1
    <3>4. /\ i \in Nat /\ j \in Nat /\ i <= j /\ sum \in Nat /\ sum <= i
          /\ (Words + 1) * (Word - 1) = j + (Word - 1)
      BY <1>2, <3>1, <3>3
    <3>5. PICK t \in Nat : t = Word - 1
      BY <3>2
    <3>6. a <= t /\ sum <= j /\ (Words + 1) * (Word - 1) = j + t
      BY <3>2, <3>4, <3>5
    <3>7. sum + a \in Nat /\ sum + a <= j + t
      BY <3>2, <3>4, <3>6
    <3> QED BY <3>6, <3>7
  <2> QED BY <1>6, <1>12, <2>1, FewWords
<1>15. Passes(h)'
  BY <1>10, <1>11, <1>13, <1>14 DEF Passes
<1>16. \E e \in [Nat -> Int] : Passes(e)'
  BY <1>15
<1> QED BY <1>1, <1>7, <1>8, <1>16 DEF OnWire

LEMMA DeliverInv ==
    ASSUME IInv, NEW b, NEW what, Deliver(b, what),
           b \in Seq(Bytes), Len(b) = BufLen,
           NEW d \in 0 .. Words - 1, NEW y \in 0 .. Word - 1,
           \A k \in Nat \ {d} : WordOf(b, k) = WordOf(packet, k),
           WordOf(b, d) = y, Told(what, WordOf(packet, d), y)
    PROVE  Receiving' /\ OnWire'
<1>1. packet \in Seq(Bytes) /\ Len(packet) \in 4 .. BufLen
  BY DEF IInv, OnWire, Deliver
<1>2. PICK h \in [Nat -> Int] : Passes(h)
  BY DEF IInv, OnWire, Deliver
<1>3. /\ phase' = "recv" /\ buf' = b /\ w' = 1 /\ sum' = 0 /\ change' = what
      /\ packet' = packet
  BY DEF Deliver
<1>4. PICK x \in 0 .. Word - 1 : x = WordOf(packet, d)
  <2>1. d \in Nat
    BY BufSize
  <2> QED BY <1>1, <2>1, WordOfRange
<1>5. Passes(h)'
  BY <1>2, <1>3 DEF Passes, Tally, WordOf, WordAt
<1>6. Reached(0)'
  BY <1>3, BufSize DEF Reached
<1>7. Received(h, 0, d, x, y)'
  <2>1. h[0] = 0
    BY <1>2 DEF Passes, Tally
  <2>2. sum' = h[0] + (IF d < 0 THEN y - x ELSE 0)
    BY <1>3, <2>1, BufSize
  <2>3. sum' \in Nat /\ sum' <= 0 * (Word - 1)
    BY <1>3, WordSize
  <2>4. /\ \A k \in Nat \ {d} : WordOf(buf', k) = WordOf(packet', k)
        /\ WordOf(packet', d) = x /\ WordOf(buf', d) = y
        /\ Told(change', x, y)
    BY <1>3, <1>4
  <2> QED BY <1>6, <2>2, <2>3, <2>4 DEF Received
<1>8. Receiving'
  <2>1. \E e \in [Nat -> Int], i \in Nat, j \in 0 .. Words - 1,
           p, q \in 0 .. Word - 1 : Passes(e)' /\ Received(e, i, j, p, q)'
    BY <1>5, <1>7
  <2> QED BY <1>3, <2>1 DEF Receiving
<1>9. OnWire'
  <2>1. \E e \in [Nat -> Int] : Passes(e)'
    BY <1>5
  <2> QED BY <1>1, <1>3, <2>1 DEF OnWire
<1> QED BY <1>8, <1>9

LEMMA DeliverIntactInv ==
    ASSUME IInv, DeliverIntact
    PROVE  Receiving' /\ OnWire'
<1>1. packet \in Seq(Bytes) /\ Len(packet) <= BufLen
  BY BufSize DEF IInv, OnWire, DeliverIntact, Deliver
<1>2. PICK b \in Seq(Bytes) : /\ b = ZeroPad(packet) /\ Len(b) = BufLen
                              /\ \A k \in Nat : WordOf(b, k) = WordOf(packet, k)
  BY <1>1, PadWords
<1>3. 0 \in 0 .. Words - 1 /\ 0 \in Nat
  BY BufSize
<1>4. PICK y \in 0 .. Word - 1 : y = WordOf(packet, 0)
  BY <1>1, WordOfRange
<1>5. Deliver(b, "none")
  BY <1>2 DEF DeliverIntact
<1>6. Told("none", WordOf(packet, 0), y)
  BY <1>4 DEF Told
<1>7. WordOf(b, 0) = y /\ \A k \in Nat \ {0} : WordOf(b, k) = WordOf(packet, k)
  BY <1>2, <1>4
<1> QED BY <1>2, <1>3, <1>5, <1>6, <1>7, DeliverInv

LEMMA DeliverDamagedInv ==
    ASSUME IInv, DeliverDamaged
    PROVE  Receiving' /\ OnWire'
<1>1. packet \in Seq(Bytes) /\ Len(packet) <= BufLen /\ Len(packet) \in Nat
  BY BufSize DEF IInv, OnWire, DeliverDamaged, Deliver
<1>2. PICK b \in Seq(Bytes) : /\ b = ZeroPad(packet) /\ Len(b) = BufLen
                              /\ \A k \in Nat : WordOf(b, k) = WordOf(packet, k)
  BY <1>1, PadWords
<1>3. PICK i \in 1 .. Len(packet) :
         /\ i % 2 = 1 /\ i < BufLen
         /\ \E x \in IF i < Len(packet) THEN 0 .. Word - 1 ELSE Bytes :
               /\ x # WordAt(b, i)
               /\ Deliver(PutWord(b, i, x),
                          IF {x, WordAt(b, i)} = {0, Word - 1} THEN "zero" ELSE "word")
  BY <1>2 DEF DeliverDamaged
<1>4. Bytes \subseteq 0 .. Word - 1
  <2> SUFFICES ASSUME NEW x \in Bytes PROVE x \in 0 .. Word - 1
    OBVIOUS
  <2>1. 0 \in Bytes /\ Base \in Nat
    BY BufSize DEF Bytes
  <2>2. x + Base * 0 \in 0 .. Word - 1
    BY <2>1, TwoBytes
  <2> QED BY <2>1, <2>2 DEF Bytes
<1>5. PICK x \in 0 .. Word - 1 :
         /\ x # WordAt(b, i)
         /\ Deliver(PutWord(b, i, x),
                    IF {x, WordAt(b, i)} = {0, Word - 1} THEN "zero" ELSE "word")
  BY <1>3, <1>4
<1>6. PICK d \in Nat : i = 2 * d + 1
  <2>1. (i - 1) \div 2 \in Nat /\ i = 2 * ((i - 1) \div 2) + 1
    BY <1>1, <1>3
  <2> QED BY <2>1
<1>7. d \in 0 .. Words - 1 /\ 2 * d + 2 <= Len(b)
  BY <1>2, <1>3, <1>6, BufSize
<1>8. WordAt(b, i) = WordOf(packet, d)
  <2>1. WordOf(b, d) = WordAt(b, i)
    BY <1>6, <1>7 DEF WordOf
  <2> QED BY <1>2, <1>6, <2>1
<1>9. PICK c \in Seq(Bytes) :
         /\ c = PutWord(b, 2 * d + 1, x) /\ Len(c) = Len(b)
         /\ WordOf(c, d) = x
         /\ \A k \in Nat \ {d} : WordOf(c, k) = WordOf(b, k)
  <2>1. 2 * d + 2 <= Len(b)
    BY <1>7
  <2> QED BY <2>1, PutWordWords
<1>10. PICK what : what = IF {x, WordAt(b, i)} = {0, Word - 1} THEN "zero" ELSE "word"
  OBVIOUS
<1>11. Deliver(c, what)
  BY <1>5, <1>6, <1>9, <1>10
<1>12. Told(what, WordOf(packet, d), x)
  BY <1>5, <1>8, <1>10 DEF Told
<1>13. \A k \in Nat \ {d} : WordOf(c, k) = WordOf(packet, k)
  BY <1>2, <1>9
<1>14. Len(c) = BufLen
  BY <1>2, <1>9
<1>15. WordOf(c, d) = x
  BY <1>9
<1>16. d \in 0 .. Words - 1
  BY <1>7
<1> QED BY <1>11, <1>12, <1>13, <1>14, <1>15, <1>16, DeliverInv

LEMMA ReceiverReturnsInv ==
    ASSUME IInv, ReceiverReturns
    PROVE  IntactPasses' /\ DamageDetected'
<1>1. buf \in Seq(Bytes) /\ Len(buf) = BufLen /\ BufLen \in Nat
  BY BufSize DEF IInv, Receiving, ReceiverReturns
<1>2. PICK h \in [Nat -> Int], n \in Nat, d \in 0 .. Words - 1,
           x \in 0 .. Word - 1, y \in 0 .. Word - 1 :
         Passes(h) /\ Received(h, n, d, x, y)
  BY DEF IInv, Receiving, ReceiverReturns
<1>3. n = Words /\ n \in 0 .. Words
  BY <1>1, <1>2, BufSize DEF Received, Reached, ReceiverReturns, nleft
<1>4. /\ sum = h[Words] + y - x /\ sum \in Nat
      /\ h[Words] \in FoldableSums /\ Answer(h[Words]) = 0
      /\ answer' = Answer(sum) /\ change' = change
  BY <1>2, <1>3, BufSize, WordSize DEF Received, Passes, ReceiverReturns, FoldableSums
<1>5. sum \in FoldableSums
  <2>1. sum <= (Words + 1) * (Word - 1)
    BY <1>2, <1>3, Fewer, WordSize DEF Received
  <2> QED BY <1>4, <2>1, FewWords
<1>6. change = "none" => answer' = 0
  <2>1. change = "none" => sum = h[Words]
    BY <1>2, <1>4, WordSize DEF Received, Told, FoldableSums
  <2> QED BY <1>4, <2>1
<1>7. change = "word" => answer' # 0
  <2>1. change = "word" => x # y /\ {x, y} # {0, Word - 1}
    BY <1>2 DEF Received, Told
  <2>2. h[Words] + y - x \in FoldableSums
    BY <1>4, <1>5
  <2> QED BY <1>4, <2>1, <2>2, WordDamageFails
<1> QED BY <1>4, <1>6, <1>7 DEF IntactPasses, DamageDetected

LEMMA InitIInv == Init => IInv
<1> SUFFICES ASSUME Init PROVE IInv
  OBVIOUS
<1>1. PICK m \in 4 .. BufLen : \E b \in [1 .. m -> Bytes] :
         b[3] = 0 /\ b[4] = 0 /\ buf = b
  BY DEF Init, Field
<1>2. buf \in Seq(Bytes) /\ Len(buf) = m
  BY <1>1, BufSize
<1>3. WordOf(buf, 1) = 0
  BY <1>1, <1>2, BufSize DEF WordOf, WordAt
<1>4. Reached(0)
  BY BufSize DEF Init, Reached
<1>5. PICK g \in [Nat -> Int] : g[0] = 0
  <2>1. [k \in Nat |-> 0] \in [Nat -> Int]
    OBVIOUS
  <2> QED BY <2>1
<1>6. Tally(g, buf, 0)
  BY <1>5 DEF Tally
<1>7. sum = g[0] /\ sum \in Nat /\ sum <= 0 * (Word - 1)
  BY <1>5, WordSize DEF Init
<1>8. \E i \in Nat, e \in [Nat -> Int] :
         /\ Reached(i) /\ Tally(e, buf, i)
         /\ sum = e[i] /\ sum \in Nat /\ sum <= i * (Word - 1)
  BY <1>4, <1>5, <1>6, <1>7
<1>9. Sending
  BY <1>1, <1>2, <1>3, <1>8 DEF Sending
<1> QED
  BY <1>9 DEF Init, IInv, OnWire, Receiving, IntactPasses, DamageDetected

LEMMA NextIInv == IInv /\ [Next]_vars => IInv'
<1> SUFFICES ASSUME IInv, [Next]_vars PROVE IInv'
  OBVIOUS
<1>1. CASE AddWord \/ AddOddByte
  <2>1. phase \in {"send", "recv"} /\ phase' = phase
    BY <1>1 DEF AddWord, AddOddByte, Summing
  <2>2. CASE phase = "send"
    <3>1. Sending'
      BY <1>1, <2>2, TurnSending
    <3> QED
      BY <2>1, <2>2, <3>1 DEF IInv, OnWire, Receiving, IntactPasses, DamageDetected
  <2>3. CASE phase = "recv"
    <3>1. Receiving' /\ OnWire'
      BY <1>1, <2>3, TurnReceiving
    <3> QED
      BY <2>1, <2>3, <3>1 DEF IInv, Sending, IntactPasses, DamageDetected
  <2> QED BY <2>1, <2>2, <2>3
<1>2. CASE SenderReturns
  <2>1. OnWire' /\ phase' = "wire"
    BY <1>2, SenderReturnsInv DEF SenderReturns
  <2> QED
    BY <2>1 DEF IInv, Sending, Receiving, IntactPasses, DamageDetected
<1>3. CASE DeliverIntact \/ DeliverDamaged
  <2>1. Receiving' /\ OnWire'
    BY <1>3, DeliverIntactInv, DeliverDamagedInv
  <2>2. phase' = "recv"
    BY <1>3 DEF DeliverIntact, DeliverDamaged, Deliver
  <2> QED BY <2>1, <2>2 DEF IInv, Sending, IntactPasses, DamageDetected
<1>4. CASE ReceiverReturns
  <2>1. IntactPasses' /\ DamageDetected'
    BY <1>4, ReceiverReturnsInv
  <2>2. phase = "recv" /\ phase' = "verdict" /\ UNCHANGED packet
    BY <1>4 DEF ReceiverReturns
  <2>3. OnWire'
    BY <2>2 DEF IInv, OnWire, Passes, Tally, WordOf, WordAt
  <2> QED BY <2>1, <2>2, <2>3 DEF IInv, Sending, Receiving
<1>5. CASE Judged \/ UNCHANGED vars
  <2>1. UNCHANGED vars
    BY <1>5 DEF Judged
  <2>2. Sending'
    BY <2>1 DEF vars, IInv, Sending, Reached, Tally, WordOf, WordAt
  <2>3. OnWire'
    BY <2>1 DEF vars, IInv, OnWire, Tally, Passes, WordOf, WordAt
  <2>4. Receiving'
    <3>1. ASSUME NEW h \in [Nat -> Int], NEW n \in Nat, NEW d \in 0 .. Words - 1,
                 NEW x \in 0 .. Word - 1, NEW y \in 0 .. Word - 1,
                 Passes(h) /\ Received(h, n, d, x, y)
          PROVE  Passes(h)' /\ Received(h, n, d, x, y)'
      <4>1. Passes(h)'
        BY <2>1, <3>1 DEF vars, Passes, Tally, WordOf, WordAt
      <4>2. Reached(n)'
        BY <2>1, <3>1 DEF vars, Received, Reached
      <4>3. Received(h, n, d, x, y)'
        BY <2>1, <3>1, <4>2 DEF vars, Received
      <4> QED BY <4>1, <4>3
    <3>2. CASE phase = "recv"
      <4>1. PICK h \in [Nat -> Int], n \in Nat, d \in 0 .. Words - 1,
                 x \in 0 .. Word - 1, y \in 0 .. Word - 1 :
               Passes(h) /\ Received(h, n, d, x, y)
        BY <3>2 DEF IInv, Receiving
      <4>2. Passes(h)' /\ Received(h, n, d, x, y)'
        BY <3>1, <4>1
      <4>3. \E e \in [Nat -> Int], i \in Nat, j \in 0 .. Words - 1,
               p, q \in 0 .. Word - 1 : Passes(e)' /\ Received(e, i, j, p, q)'
        BY <4>2
      <4> QED BY <2>1, <3>2, <4>3 DEF vars, IInv, Receiving
    <3>3. CASE phase # "recv"
      BY <2>1, <3>3 DEF vars, Receiving
    <3> QED BY <3>2, <3>3
  <2>5. IntactPasses' /\ DamageDetected'
    BY <2>1 DEF vars, IInv, IntactPasses, DamageDetected
  <2> QED BY <2>2, <2>3, <2>4, <2>5 DEF IInv
<1> QED BY <1>1, <1>2, <1>3, <1>4, <1>5 DEF Next

LEMMA Invariance == Spec => []IInv
  BY InitIInv, NextIInv, PTL DEF Spec

\* For every size of byte and every buffer of whole words: a packet that arrives
\* undamaged is taken for intact, whatever its length and bytes, although the
\* receiver sums more bytes than the sender did.
THEOREM IntactIsPassed == Spec => []IntactPasses
<1>1. IInv => IntactPasses
  BY DEF IInv
<1> QED BY <1>1, Invariance, PTL

\* For every size of byte and every buffer of whole words: one damaged word, the
\* last odd byte included, is noticed, except where 0 became all ones or the reverse.
THEOREM DamageIsNoticed == Spec => []DamageDetected
<1>1. IInv => DamageDetected
  BY DEF IInv
<1> QED BY <1>1, Invariance, PTL
-----------------------------------------------------------------------------
(* The checksum is the ones' complement sum of its definition.             *)

\* A set of numbers that is not empty has a least one.
LEMMA Least ==
    ASSUME NEW T \in SUBSET Nat, T # {}
    PROVE  \E m \in T : \A k \in T : m <= k
<1> DEFINE R == {p \in Nat \X Nat : p[1] < p[2]}
<1>1. ASSUME NEW x \in Nat, NEW y \in Nat, x < y PROVE <<x, y>> \in R
  BY <1>1
<1>2. IsWellFoundedOn(R, Nat)
  <2>1. R = OpToRel(<, Nat)
    BY DEF OpToRel
  <2> QED BY <2>1, NatLessThanWellFounded
<1> HIDE DEF R
<1>3. PICK m \in T : \A y \in T : <<y, m>> \notin R
  BY <1>2, WFMin
<1>4. ASSUME NEW k \in T PROVE m <= k
  <2>1. ~(k < m)
    BY <1>1, <1>3
  <2> QED BY <2>1
<1> QED BY <1>4

\* o has the ones' complement sums of the first 0, 1, ..., n words of b.
Ones(o, b, n) ==
    /\ o \in [Nat -> Int] /\ o[0] = 0
    /\ \A k \in 0 .. n - 1 : o[k + 1] = EndAround(o[k], WordOf(b, k))

\* The int is the ones' complement sum and the carries that are not yet folded
\* in; neither is 0 unless the other is.
Carries(s, x) ==
    /\ s \in Nat /\ x \in 0 .. Word - 1
    /\ \E q \in Nat : s = x + q * (Word - 1)
    /\ x = 0 <=> s = 0

Summed ==
    phase = "recv" =>
       \E n \in Nat, o \in [Nat -> Int] :
          Reached(n) /\ Ones(o, buf, n) /\ Carries(sum, o[n])

\* One more word, whose end-around carry is collected.
LEMMA CarryOn ==
    ASSUME NEW s, NEW x, Carries(s, x), NEW v \in 0 .. Word - 1
    PROVE  Carries(s + v, EndAround(x, v))
<1>1. PICK m \in Nat : m = Word - 1 /\ m > 2
  BY WordSize
<1>2. PICK q \in Nat : s = x + q * m
  BY <1>1 DEF Carries
<1>3. s \in Nat /\ x \in 0 .. m /\ v \in 0 .. m /\ (x = 0 <=> s = 0) /\ m + 1 = Word
  BY <1>1, WordSize DEF Carries
<1>4. CASE x + v >= Word
  <2>1. EndAround(x, v) = x + v - m
    BY <1>1, <1>4 DEF EndAround
  <2>2. (q + 1) * m = q * m + m /\ q * m \in Nat
    BY <1>1
  <2>3. s + v = (x + v - m) + (q + 1) * m
    BY <1>1, <1>2, <1>3, <2>2
  <2>4. x + v - m \in 1 .. m /\ s + v \in Nat /\ s + v > 0
    BY <1>1, <1>3, <1>4
  <2> QED BY <1>1, <2>1, <2>3, <2>4 DEF Carries
<1>5. CASE x + v < Word
  <2>1. EndAround(x, v) = x + v
    BY <1>3, <1>5 DEF EndAround
  <2>2. s + v = (x + v) + q * m /\ q * m \in Nat
    BY <1>1, <1>2, <1>3
  <2>3. x + v \in 0 .. m /\ s + v \in Nat /\ (x + v = 0 <=> s + v = 0)
    BY <1>1, <1>3, <1>5
  <2> QED BY <1>1, <2>1, <2>2, <2>3 DEF Carries
<1>6. x + v >= Word \/ x + v < Word
  BY <1>3, WordSize
<1> QED BY <1>4, <1>5, <1>6

\* Multiples of Word - 1 apart, and not 0: no more than one is a word.
LEMMA OneResidue ==
    ASSUME NEW m \in Nat, NEW x \in 1 .. m, NEW y \in 1 .. m,
           NEW p \in Nat, NEW q \in Nat, x + p * m = y + q * m
    PROVE  x = y
<1>1. p * m \in Nat /\ q * m \in Nat
  OBVIOUS
<1>2. CASE p = q
  BY <1>1, <1>2
<1>3. CASE p > q
  <2>1. PICK e \in Nat : p = q + 1 + e
    <3>1. p - q - 1 \in Nat /\ p = q + 1 + (p - q - 1)
      BY <1>3
    <3> QED BY <3>1
  <2>2. p * m = q * m + m + e * m /\ e * m \in Nat
    BY <2>1
  <2> QED BY <1>1, <2>2
<1>4. CASE q > p
  <2>1. PICK e \in Nat : q = p + 1 + e
    <3>1. q - p - 1 \in Nat /\ q = p + 1 + (q - p - 1)
      BY <1>4
    <3> QED BY <3>1
  <2>2. q * m = p * m + m + e * m /\ e * m \in Nat
    BY <2>1
  <2> QED BY <1>1, <2>2
<1> QED BY <1>2, <1>3, <1>4

\* The two foldings bring the carries home.
LEMMA FoldedIn ==
    ASSUME NEW s \in FoldableSums, NEW x, Carries(s, x)
    PROVE  Answer(s) = Word - 1 - x
<1>1. PICK m \in Nat : m = Word - 1 /\ m > 2 /\ Word = m + 1
  BY WordSize
<1>2. PICK q \in Nat : s = x + q * m
  BY <1>1 DEF Carries
<1>3. s \in Nat /\ x \in 0 .. m /\ (x = 0 <=> s = 0)
  BY <1>1 DEF Carries
<1>4. PICK c \in Nat, r \in 0 .. m :
         /\ s = (m + 1) * c + r /\ c <= m - 1
         /\ Answer(s) = IF c + r < m + 1 THEN m - (c + r) ELSE 2 * m - (c + r)
  <2>1. PICK c \in Nat, r \in 0 .. Word - 1 : SplitAnswer(s, c, r)
    BY AnswerSplit
  <2>2. c <= m - 1 /\ s = (m + 1) * c + r /\ r \in 0 .. m
    BY <1>1, <2>1 DEF SplitAnswer
  <2>3. Answer(s) = IF c + r < m + 1 THEN m - (c + r) ELSE 2 * m - (c + r)
    BY <1>1, <2>1, <2>2 DEF SplitAnswer
  <2> QED BY <2>2, <2>3
<1>5. PICK f \in 0 .. m, p \in Nat :
         Answer(s) = m - f /\ s = f + p * m /\ (f = 0 <=> s = 0)
  <2>1. (m + 1) * c = c * m + c /\ (c + 1) * m = c * m + m /\ c * m \in Nat
    BY <1>1, <1>4
  <2>2. c = 0 => c * m = 0
    BY <1>1
  <2>3. CASE c + r < m + 1
    <3>1. c + r \in 0 .. m /\ Answer(s) = m - (c + r) /\ s = (c + r) + c * m
      BY <1>1, <1>4, <2>1, <2>3
    <3>2. c + r = 0 <=> s = 0
      BY <1>4, <2>1, <2>2, <3>1
    <3>3. \E f \in 0 .. m : /\ Answer(s) = m - f /\ s = f + c * m
                            /\ (f = 0 <=> s = 0)
      BY <3>1, <3>2
    <3> QED BY <3>3
  <2>4. CASE c + r >= m + 1
    <3>1. /\ c + r - m \in 1 .. m /\ Answer(s) = m - (c + r - m)
          /\ s = (c + r - m) + (c + 1) * m /\ c + 1 \in Nat
      BY <1>1, <1>4, <2>1, <2>4
    <3>2. s # 0 /\ c + r - m # 0
      BY <1>1, <1>4, <2>1, <2>4, <3>1
    <3>3. \E f \in 0 .. m : /\ Answer(s) = m - f /\ s = f + (c + 1) * m
                            /\ (f = 0 <=> s = 0)
      <4>1. c + r - m \in 0 .. m
        BY <1>1, <3>1
      <4> QED BY <3>1, <3>2, <4>1
    <3> QED BY <3>1, <3>3
  <2> QED BY <1>1, <1>4, <2>3, <2>4
<1>6. f = x
  <2>1. CASE s = 0
    BY <1>3, <1>5, <2>1
  <2>2. CASE s # 0
    <3>1. f \in 1 .. m /\ x \in 1 .. m
      BY <1>1, <1>3, <1>5, <2>2
    <3> QED BY <1>2, <1>5, <3>1, OneResidue
  <2> QED BY <2>1, <2>2
<1> QED BY <1>1, <1>5, <1>6
\* OnesSum is the last of the sums that Ones lists.
LEMMA OnesSumIs ==
    ASSUME NEW b \in Seq(Bytes), Len(b) = BufLen, NEW o, Ones(o, b, Words)
    PROVE  OnesSum(b) = o[Words]
<1> DEFINE F(f) == [n \in 0 .. Words |->
                      IF n = 0 THEN 0 ELSE EndAround(f[n - 1], WordAt(b, 2 * n - 1))]
           at == CHOOSE f : f = F(f)
           v == [n \in 0 .. Words |-> o[n]]
<1>1. Words \in Nat /\ Words = Len(b) \div 2 /\ 2 * Words = Len(b)
  BY BufSize DEF Words
<1>2. \A n \in 1 .. Words : o[n] = EndAround(o[n - 1], WordAt(b, 2 * n - 1))
  <2>1. SUFFICES ASSUME NEW n \in 1 .. Words
                 PROVE  o[n] = EndAround(o[n - 1], WordAt(b, 2 * n - 1))
    OBVIOUS
  <2>2. n - 1 \in 0 .. Words - 1 /\ (n - 1) + 1 = n /\ 2 * (n - 1) + 1 = 2 * n - 1
        /\ 2 * (n - 1) + 2 <= Len(b)
    BY <1>1
  <2>3. o[n] = EndAround(o[n - 1], WordOf(b, n - 1))
    BY <2>2 DEF Ones
  <2> QED BY <2>2, <2>3 DEF WordOf
<1>3. v = F(v)
  <2>1. ASSUME NEW n \in 0 .. Words
        PROVE  v[n] = IF n = 0 THEN 0 ELSE EndAround(v[n - 1], WordAt(b, 2 * n - 1))
    <3>1. CASE n = 0
      BY <3>1, <1>1 DEF Ones
    <3>2. CASE n # 0
      <4>1. n \in 1 .. Words /\ n - 1 \in 0 .. Words
        BY <1>1, <3>2
      <4>2. v[n] = o[n] /\ v[n - 1] = o[n - 1]
        BY <4>1
      <4> QED BY <1>2, <3>2, <4>1, <4>2
    <3> QED BY <3>1, <3>2
  <2> QED BY <2>1
<1>4. at = F(at)
  BY <1>3
<1>5. ASSUME NEW f, f = F(f), NEW n \in 0 .. Words, n # 0
      PROVE  f[n] = EndAround(f[n - 1], WordAt(b, 2 * n - 1))
  <2>1. F(f)[n] = EndAround(f[n - 1], WordAt(b, 2 * n - 1))
    BY <1>5
  <2> HIDE DEF F
  <2>2. f[n] = F(f)[n]
    BY <1>5
  <2> QED BY <2>1, <2>2
<1>6. at[0] = v[0]
  <2>1. ASSUME NEW f, f = F(f) PROVE f[0] = 0
    <3>1. F(f)[0] = 0
      BY <1>1
    <3> HIDE DEF F
    <3> QED BY <2>1, <3>1
  <2> HIDE DEF F, at, v
  <2> QED BY <1>3, <1>4, <2>1
<1> HIDE DEF at, v
<1>7. \A n \in 0 .. Words : at[n] = v[n]
  <2> DEFINE T == {n \in 0 .. Words : at[n] # v[n]}
  <2>1. SUFFICES ASSUME T # {} PROVE FALSE
    OBVIOUS
  <2>2. PICK n \in T : \A j \in T : n <= j
    <3>1. T \in SUBSET Nat
      OBVIOUS
    <3> HIDE DEF T
    <3> QED BY <2>1, <3>1, Least
  <2>3. n # 0 /\ n \in 0 .. Words
    BY <1>6, <2>2
  <2>4. at[n - 1] = v[n - 1]
    <3>1. n - 1 \in 0 .. Words /\ ~(n <= n - 1)
      BY <1>1, <2>3
    <3> QED BY <2>2, <3>1
  <2> HIDE DEF F
  <2>5. at[n] = v[n]
    <3>1. at[n] = EndAround(at[n - 1], WordAt(b, 2 * n - 1))
      BY <1>4, <1>5, <2>3
    <3>2. v[n] = EndAround(v[n - 1], WordAt(b, 2 * n - 1))
      BY <1>3, <1>5, <2>3
    <3> QED BY <2>4, <3>1, <3>2
  <2> QED BY <2>2, <2>5
<1>8. OnesSum(b) = at[Words]
  BY <1>1 DEF OnesSum, at
<1>9. v[Words] = o[Words]
  BY <1>1 DEF v
<1>10. at[Words] = v[Words]
  <2>1. Words \in 0 .. Words
    BY <1>1
  <2> QED BY <1>7, <2>1
<1> QED BY <1>8, <1>9, <1>10

LEMMA TurnSummed ==
    ASSUME IInv, Summed, AddWord \/ AddOddByte
    PROVE  Summed'
<1>1. phase' = phase
  BY DEF AddWord, AddOddByte
<1>2. SUFFICES ASSUME phase = "recv"
               PROVE  \E n \in Nat, o \in [Nat -> Int] :
                         Reached(n)' /\ Ones(o, buf, n)' /\ Carries(sum, o[n])'
  BY <1>1 DEF Summed
<1>3. buf \in Seq(Bytes) /\ Len(buf) = BufLen /\ BufLen \in Nat
  BY <1>2, BufSize DEF IInv, Receiving
<1>4. PICK n \in Nat, o \in [Nat -> Int] :
         Reached(n) /\ Ones(o, buf, n) /\ Carries(sum, o[n])
  BY <1>2 DEF Summed
<1>5. /\ n + 1 \in 0 .. Words
      /\ w' = 2 * (n + 1) + 1 \/ (w' = 2 * (n + 1) /\ w' = Len(buf) + 1)
      /\ sum' = sum + WordOf(buf, n)
      /\ UNCHANGED buf
  BY <1>3, <1>4, Turn
<1>6. PICK v \in 0 .. Word - 1 : v = WordOf(buf, n)
  BY <1>3, WordOfRange
<1>7. PICK e : e = EndAround(o[n], v) /\ Carries(sum', e)
  BY <1>4, <1>5, <1>6, CarryOn
<1>8. e \in Int
  BY <1>7, WordSize DEF Carries
<1>9. PICK f \in [Nat -> Int] : \A k \in Nat : f[k] = IF k = n + 1 THEN e ELSE o[k]
  <2>1. [k \in Nat |-> IF k = n + 1 THEN e ELSE o[k]] \in [Nat -> Int]
    BY <1>8
  <2> QED BY <2>1
<1>10. Ones(f, buf, n + 1)
  <2>1. f[0] = 0
    BY <1>4, <1>9 DEF Ones
  <2>2. ASSUME NEW k \in 0 .. (n + 1) - 1 PROVE f[k + 1] = EndAround(f[k], WordOf(buf, k))
    <3>1. CASE k = n
      BY <1>6, <1>7, <1>9, <3>1
    <3>2. CASE k # n
      <4>1. k \in 0 .. n - 1 /\ k # n + 1 /\ k + 1 # n + 1 /\ k \in Nat /\ k + 1 \in Nat
        BY <2>2, <3>2
      <4>2. f[k] = o[k] /\ f[k + 1] = o[k + 1]
        BY <1>9, <4>1
      <4> QED BY <1>4, <4>1, <4>2 DEF Ones
    <3> QED BY <3>1, <3>2
  <2> QED BY <2>1, <2>2 DEF Ones
<1>11. Reached(n + 1)'
  BY <1>5 DEF Reached
<1>12. Ones(f, buf, n + 1)'
  BY <1>5, <1>10 DEF Ones, WordOf, WordAt
<1>13. Carries(sum, f[n + 1])'
  <2>1. f[n + 1] = e
    BY <1>9
  <2> QED BY <1>7, <2>1
<1> QED BY <1>11, <1>12, <1>13

LEMMA ReturnsSummed ==
    ASSUME IInv, Summed, ReceiverReturns
    PROVE  SameAsReference'
<1>1. buf \in Seq(Bytes) /\ Len(buf) = BufLen /\ BufLen \in Nat
  BY BufSize DEF IInv, Receiving, ReceiverReturns
<1>2. PICK n \in Nat, o \in [Nat -> Int] :
         Reached(n) /\ Ones(o, buf, n) /\ Carries(sum, o[n])
  BY DEF Summed, ReceiverReturns
<1>3. n = Words
  BY <1>1, <1>2, BufSize DEF Reached, ReceiverReturns, nleft
<1>4. sum \in FoldableSums
  <2>1. PICK h \in [Nat -> Int], i \in Nat, d \in 0 .. Words - 1,
             x \in 0 .. Word - 1, y \in 0 .. Word - 1 :
           Passes(h) /\ Received(h, i, d, x, y)
    BY DEF IInv, Receiving, ReceiverReturns
  <2>2. i \in 0 .. Words /\ sum \in Nat /\ sum <= i * (Word - 1)
    BY <2>1 DEF Received, Reached
  <2>3. sum <= (Words + 1) * (Word - 1)
    BY <2>2, Fewer, WordSize
  <2> QED BY <2>2, <2>3, FewWords
<1>5. Answer(sum) = Word - 1 - o[Words]
  BY <1>2, <1>3, <1>4, FoldedIn
<1>6. OnesSum(buf) = o[Words]
  BY <1>1, <1>2, <1>3, OnesSumIs
<1>7. answer' = Answer(sum) /\ buf' = buf
  BY DEF ReceiverReturns
<1>8. OnesSum(buf)' = OnesSum(buf)
  BY <1>7 DEF OnesSum, WordAt
<1> QED BY <1>5, <1>6, <1>7, <1>8 DEF SameAsReference

LEMMA NextSummed ==
    IInv /\ Summed /\ SameAsReference /\ [Next]_vars => Summed' /\ SameAsReference'
<1> SUFFICES ASSUME IInv, Summed, SameAsReference, [Next]_vars
             PROVE  Summed' /\ SameAsReference'
  OBVIOUS
<1>1. CASE AddWord \/ AddOddByte
  <2>1. Summed'
    BY <1>1, TurnSummed
  <2>2. phase' \in {"send", "recv"}
    BY <1>1 DEF AddWord, AddOddByte, Summing
  <2> QED BY <2>1, <2>2 DEF SameAsReference
<1>2. CASE SenderReturns
  BY <1>2 DEF SenderReturns, Summed, SameAsReference
<1>3. CASE DeliverIntact \/ DeliverDamaged
  <2>1. phase' = "recv" /\ w' = 1 /\ sum' = 0
    BY <1>3 DEF DeliverIntact, DeliverDamaged, Deliver
  <2>2. PICK o \in [Nat -> Int] : o[0] = 0
    <3>1. [k \in Nat |-> 0] \in [Nat -> Int]
      OBVIOUS
    <3> QED BY <3>1
  <2>3. Ones(o, buf, 0)'
    BY <2>2 DEF Ones
  <2>4. Reached(0)'
    BY <2>1, BufSize DEF Reached
  <2>5. Carries(0, 0)
    <3>1. 0 = 0 + 0 * (Word - 1)
      BY WordSize
    <3> QED BY <3>1, WordSize DEF Carries
  <2>6. Carries(sum, o[0])'
    BY <2>1, <2>2, <2>5
  <2> QED BY <2>1, <2>2, <2>3, <2>4, <2>6 DEF Summed, SameAsReference
<1>4. CASE ReceiverReturns
  <2>1. phase' = "verdict"
    BY <1>4 DEF ReceiverReturns
  <2> QED BY <1>4, <2>1, ReturnsSummed DEF Summed
<1>5. CASE Judged \/ UNCHANGED vars
  <2>1. UNCHANGED vars
    BY <1>5 DEF Judged
  <2>2. OnesSum(buf)' = OnesSum(buf)
    BY <2>1 DEF vars, OnesSum, WordAt
  <2>3. SameAsReference'
    BY <2>1, <2>2 DEF vars, SameAsReference
  <2>4. ASSUME NEW n \in Nat, NEW o \in [Nat -> Int], Reached(n), Ones(o, buf, n)
        PROVE  Reached(n)' /\ Ones(o, buf, n)'
    BY <2>1, <2>4 DEF vars, Reached, Ones, WordOf, WordAt
  <2>5. Summed'
    BY <2>1, <2>4 DEF vars, Summed
  <2> QED BY <2>3, <2>5
<1> QED BY <1>1, <1>2, <1>3, <1>4, <1>5 DEF Next

\* For every size of byte and every buffer of whole words: what in_cksum()
\* answers, with the carries of a whole packet collected in an int and folded in
\* twice at the end, is the complement of the ones' complement sum that defines the
\* checksum.
THEOREM SameAsDefinition == Spec => []SameAsReference
<1>1. Init => Summed /\ SameAsReference
  BY DEF Init, Summed, SameAsReference
<1> QED BY <1>1, NextSummed, Invariance, PTL DEF Spec

=============================================================================

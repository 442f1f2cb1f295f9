-------------------------- MODULE LinkedListProofs --------------------------
(***************************************************************************)
(* What the operations of LinkedList do to a well linked list, whatever    *)
(* its length: the lemmas that Chat and ChatQueue cite.                    *)
(***************************************************************************)
EXTENDS LinkedList, SequencesExt, SequenceTheorems, FiniteSetTheorems,
        WellFoundedInduction, TLAPS

Lists(Blocks) == [first : Blocks \cup {Null},
                  prev  : [Blocks -> Blocks \cup {Null}],
                  next  : [Blocks -> Blocks \cup {Null}]]

Nodes(s) == {s[i] : i \in 1..Len(s)}

-----------------------------------------------------------------------------
(* Sequences with one element more at the front, or one less.              *)

LEMMA Pushed ==
  ASSUME NEW S, NEW s \in Seq(S), NEW e \in S
  PROVE  /\ <<e>> \o s \in Seq(S)
         /\ Len(<<e>> \o s) = Len(s) + 1
         /\ \A j \in 1..(Len(s) + 1) : (<<e>> \o s)[j] = IF j = 1 THEN e ELSE s[j - 1]
         /\ Nodes(<<e>> \o s) = Nodes(s) \cup {e}
  <1>1. <<e>> \in Seq(S) /\ Len(<<e>>) = 1 /\ <<e>>[1] = e
    OBVIOUS
  <1>2. /\ <<e>> \o s \in Seq(S) /\ Len(<<e>> \o s) = Len(s) + 1
        /\ \A j \in 1..(Len(s) + 1) : (<<e>> \o s)[j] = IF j = 1 THEN e ELSE s[j - 1]
    BY <1>1, ConcatProperties
  <1> DEFINE t == <<e>> \o s
  <1> HIDE DEF t
  <1>3. ASSUME NEW j \in 1..Len(s) PROVE s[j] \in Nodes(t)
    <2>1. j + 1 \in 1..Len(t) /\ t[j + 1] = s[j]
      BY <1>2 DEF t
    <2> QED BY <2>1 DEF Nodes
  <1>4. e \in Nodes(t)
    BY <1>2 DEF Nodes, t
  <1>5. ASSUME NEW j \in 1..Len(t) PROVE t[j] \in Nodes(s) \cup {e}
    BY <1>2 DEF Nodes, t
  <1>6. Nodes(t) = Nodes(s) \cup {e}
    BY <1>3, <1>4, <1>5 DEF Nodes
  <1>7. Nodes(<<e>> \o s) = Nodes(s) \cup {e}
    BY <1>6 DEF t
  <1> QED BY <1>2, <1>7

LEMMA Removed ==
  ASSUME NEW S, NEW s \in Seq(S), NEW k \in 1..Len(s)
  PROVE  /\ RemoveAt(s, k) \in Seq(S)
         /\ Len(RemoveAt(s, k)) = Len(s) - 1
         /\ \A j \in 1..(Len(s) - 1) :
               RemoveAt(s, k)[j] = IF j < k THEN s[j] ELSE s[j + 1]
  <1> DEFINE a == SubSeq(s, 1, k - 1)
             b == SubSeq(s, k + 1, Len(s))
  <1>1. /\ a \in Seq(S) /\ Len(a) = k - 1
        /\ \A j \in 1..(k - 1) : a[j] = s[j]
    <2>1. \A j \in 1..(k - 1) : s[j] \in S
      BY ElementOfSeq
    <2> QED BY <2>1, SubSeqProperties
  <1>2. /\ b \in Seq(S) /\ Len(b) = Len(s) - k
        /\ \A j \in 1..(Len(s) - k) : b[j] = s[k + j]
    <2>1. \A j \in (k + 1)..Len(s) : s[j] \in S
      BY ElementOfSeq
    <2> QED BY <2>1, SubSeqProperties
  <1> HIDE DEF a, b
  <1>3. RemoveAt(s, k) = a \o b
    BY DEF RemoveAt, a, b
  <1> QED BY <1>1, <1>2, <1>3, ConcatProperties

LEMMA RemovedNodes ==
  ASSUME NEW S, NEW s \in Seq(S), NEW k \in 1..Len(s),
         \A i, j \in 1..Len(s) : s[i] = s[j] => i = j
  PROVE  /\ Nodes(RemoveAt(s, k)) = Nodes(s) \ {s[k]}
         /\ \A i, j \in 1..Len(RemoveAt(s, k)) :
               RemoveAt(s, k)[i] = RemoveAt(s, k)[j] => i = j
  <1> DEFINE t == RemoveAt(s, k)
  <1>1. /\ Len(t) = Len(s) - 1 /\ Len(s) \in Nat
        /\ \A j \in 1..(Len(s) - 1) : t[j] = IF j < k THEN s[j] ELSE s[j + 1]
    BY Removed, LenProperties
  <1> HIDE DEF t
  <1>2. ASSUME NEW j \in 1..Len(s), j # k PROVE s[j] \in Nodes(t)
    <2>1. CASE j < k
      BY <1>1, <2>1 DEF Nodes
    <2>2. CASE j > k
      <3>1. j - 1 \in 1..Len(t) /\ t[j - 1] = s[j]
        BY <1>1, <2>2
      <3> QED BY <3>1 DEF Nodes
    <2> QED BY <1>2, <2>1, <2>2, <1>1
  <1>3. ASSUME NEW j \in 1..Len(t) PROVE t[j] \in Nodes(s) \ {s[k]}
    BY <1>1 DEF Nodes
  <1>4. Nodes(t) = Nodes(s) \ {s[k]}
    BY <1>2, <1>3 DEF Nodes
  <1>5. \A i, j \in 1..Len(t) : t[i] = t[j] => i = j
    BY <1>1
  <1> QED BY <1>4, <1>5 DEF t

\* A sequence without repetition is one of those SetToSeqs gives for its nodes.
LEMMA NodesOnce ==
  ASSUME NEW S, NEW s \in Seq(S), \A i, j \in 1..Len(s) : s[i] = s[j] => i = j
  PROVE  /\ IsFiniteSet(Nodes(s))
         /\ Cardinality(Nodes(s)) = Len(s)
         /\ s \in SetToSeqs(Nodes(s))
  <1>1. Len(s) \in Nat /\ DOMAIN s = 1..Len(s) /\ s \in [1..Len(s) -> S]
    BY LenProperties
  <1>2. s \in [1..Len(s) -> Nodes(s)]
    BY <1>1 DEF Nodes
  <1>3. s \in Bijection(1..Len(s), Nodes(s))
    BY <1>2 DEF Bijection, Injection, Surjection, IsInjective, Nodes
  <1>4. ExistsBijection(1..Len(s), Nodes(s))
    BY <1>3 DEF ExistsBijection
  <1>5. IsFiniteSet(Nodes(s)) /\ Cardinality(Nodes(s)) = Len(s)
    BY <1>1, <1>4, FS_NatBijection, FS_CountingElements
  <1>6. s \in SetToSeqs(Nodes(s))
    BY <1>2, <1>5 DEF SetToSeqs
  <1> QED BY <1>5, <1>6

-----------------------------------------------------------------------------
(* The two operations.                                                     *)

\* A node that is not in the list enters at its head; into an empty list it
\* must come with both its fields NULL, as LinkToList assigns neither.
THEOREM LinkKeepsList ==
  ASSUME NEW B, Null \notin B, NEW l \in Lists(B), NEW s \in Seq(B), ListIs(l, s),
         NEW n \in B \ Nodes(s), s = <<>> => l.next[n] = Null,
         l.prev[n] = Null
  PROVE  /\ ListIs(LinkToList(l, n), <<n>> \o s)
         /\ LinkToList(l, n) \in Lists(B)
         /\ \A b \in B \ {n} : LinkToList(l, n).next[b] = l.next[b]
         /\ \A b \in B \ Nodes(s) : LinkToList(l, n).prev[b] = l.prev[b]
  <1> DEFINE t == <<n>> \o s
             m == LinkToList(l, n)
  <1>1. /\ Len(t) = Len(s) + 1 /\ Len(s) \in Nat
        /\ \A j \in 1..(Len(s) + 1) : t[j] = IF j = 1 THEN n ELSE s[j - 1]
    BY Pushed, LenProperties
  <1>2. \A j \in 1..Len(s) : s[j] \in B /\ s[j] # n
    BY ElementOfSeq DEF Nodes
  <1>3. CASE s = <<>>
    <2>1. m = [l EXCEPT !.first = n]
      BY <1>3 DEF LinkToList, ListIs
    <2>2. m.first = n /\ m.next = l.next /\ m.prev = l.prev /\ m \in Lists(B)
      BY <2>1 DEF Lists
    <2>3. Len(t) = 1 /\ t[1] = n /\ t # <<>>
      BY <1>1, <1>3
    <2> HIDE DEF m, t
    <2>4. ListIs(m, t)
      BY <1>3, <2>2, <2>3 DEF ListIs
    <2> QED BY <2>2, <2>4 DEF m, t
  <1>4. CASE s # <<>>
    <2>1. l.first = s[1] /\ Len(s) >= 1 /\ s[1] \in B
      BY <1>1, <1>2, <1>4 DEF ListIs
    <2>2. m = [first |-> n, prev |-> [l.prev EXCEPT ![s[1]] = n],
               next |-> [l.next EXCEPT ![n] = s[1]]]
      BY <2>1 DEF LinkToList
    <2>3. m \in Lists(B)
      BY <2>1, <2>2 DEF Lists
    <2>4. /\ m.first = n /\ m.next[n] = s[1] /\ m.prev[s[1]] = n
          /\ \A b \in B : b # n => m.next[b] = l.next[b]
          /\ \A b \in B : b # s[1] => m.prev[b] = l.prev[b]
      BY <2>1, <2>2 DEF Lists
    <2> HIDE DEF m, t
    <2>5. ASSUME NEW j \in 1..Len(t)
          PROVE  /\ m.next[t[j]] = IF j < Len(t) THEN t[j + 1] ELSE Null
                 /\ m.prev[t[j]] = IF j > 1 THEN t[j - 1] ELSE Null
      <3>1. CASE j = 1
        BY <1>1, <1>2, <2>1, <2>4, <3>1
      <3>2. CASE j = 2
        BY <1>1, <1>2, <2>1, <2>4, <3>2 DEF ListIs
      <3>3. CASE j > 2
        <4>1. j - 1 \in 1..Len(s) /\ t[j] = s[j - 1] /\ t[j - 1] = s[j - 2] /\ s[j - 1] # s[1]
          <5>1. /\ j - 1 \in 1..Len(s) /\ j \in 1..(Len(s) + 1)
                /\ j - 1 \in 1..(Len(s) + 1) /\ (j - 1) - 1 = j - 2
                /\ j # 1 /\ j - 1 # 1 /\ 1 \in 1..Len(s)
            BY <1>1, <3>3
          <5>2. t[j] = s[j - 1] /\ t[j - 1] = s[j - 2]
            BY <1>1, <5>1
          <5>3. s[j - 1] # s[1]
            BY <5>1 DEF ListIs
          <5> QED BY <5>1, <5>2, <5>3
        <4>2. s[j - 1] \in B /\ s[j - 1] # n
          BY <1>2, <4>1
        <4>3. /\ m.next[t[j]] = l.next[s[j - 1]]
              /\ m.prev[t[j]] = l.prev[s[j - 1]]
          BY <2>4, <4>1, <4>2
        <4>4. /\ l.next[s[j - 1]] = IF j - 1 < Len(s) THEN s[j] ELSE Null
              /\ l.prev[s[j - 1]] = s[j - 2]
          <5>1. (j - 1) + 1 = j /\ (j - 1) - 1 = j - 2 /\ j - 1 > 1
            BY <3>3
          <5>2. /\ l.next[s[j - 1]] = IF j - 1 < Len(s) THEN s[(j - 1) + 1] ELSE Null
                /\ l.prev[s[j - 1]] = IF j - 1 > 1 THEN s[(j - 1) - 1] ELSE Null
            BY <4>1 DEF ListIs
          <5> QED BY <5>1, <5>2
        <4>5. j < Len(t) => j - 1 < Len(s) /\ t[j + 1] = s[j]
          BY <1>1, <3>3
        <4>6. ~(j < Len(t)) => ~(j - 1 < Len(s))
          BY <1>1, <3>3
        <4> QED BY <3>3, <4>1, <4>3, <4>4, <4>5, <4>6
      <3> QED BY <3>1, <3>2, <3>3, <1>1
    <2>6. t # <<>> /\ t[1] = n
      BY <1>1
    <2>7. ASSUME NEW i \in 1..Len(t), NEW j \in 1..Len(t), t[i] = t[j]
          PROVE  i = j
      <3>1. \A k \in 1..Len(t) : k # 1 => t[k] = s[k - 1] /\ k - 1 \in 1..Len(s)
        BY <1>1
      <3>2. CASE i = 1 \/ j = 1
        BY <1>1, <1>2, <2>6, <2>7, <3>1, <3>2
      <3>3. CASE i # 1 /\ j # 1
        <4>1. i - 1 = j - 1
          BY <2>7, <3>1, <3>3 DEF ListIs
        <4> QED BY <1>1, <4>1
      <3> QED BY <3>2, <3>3
    <2>8. ListIs(m, t)
      BY <2>4, <2>5, <2>6, <2>7 DEF ListIs
    <2>9. s[1] \in Nodes(s)
      BY <1>1, <2>1 DEF Nodes
    <2> QED BY <2>3, <2>4, <2>8, <2>9 DEF m, t
  <1> QED BY <1>3, <1>4

\* A node leaves from wherever it is.
THEOREM DislinkKeepsList ==
  ASSUME NEW B, Null \notin B, NEW l \in Lists(B), NEW s \in Seq(B), ListIs(l, s),
         NEW k \in 1..Len(s)
  PROVE  /\ ListIs(DislinkFromList(l, s[k]), RemoveAt(s, k))
         /\ DislinkFromList(l, s[k]) \in Lists(B)
         /\ \A b \in B \ Nodes(RemoveAt(s, k)) :
               /\ DislinkFromList(l, s[k]).prev[b] = l.prev[b]
               /\ DislinkFromList(l, s[k]).next[b] = l.next[b]
         /\ \A b \in B : l.next[b] # s[k] =>
               DislinkFromList(l, s[k]).next[b] = l.next[b]
         /\ k > 1 => /\ DislinkFromList(l, s[k]).next[s[k-1]] = l.next[s[k]]
                     /\ l.next[s[k-1]] = s[k]
  <1> DEFINE t == RemoveAt(s, k)
             m == DislinkFromList(l, s[k])
             before == IF k > 1 THEN s[k - 1] ELSE Null
             after == IF k < Len(s) THEN s[k + 1] ELSE Null
  <1>1. /\ Len(t) = Len(s) - 1 /\ Len(s) \in Nat
        /\ \A j \in 1..(Len(s) - 1) : t[j] = IF j < k THEN s[j] ELSE s[j + 1]
    BY Removed, LenProperties
  <1>2. \A j \in 1..Len(s) : s[j] \in B
    BY ElementOfSeq
  <1>3. l.prev[s[k]] = before /\ l.next[s[k]] = after
    BY DEF ListIs
  <1>4. m = [first |-> IF before = Null THEN after ELSE l.first,
             prev  |-> IF after = Null THEN l.prev ELSE [l.prev EXCEPT ![after] = before],
             next  |-> IF before = Null THEN l.next ELSE [l.next EXCEPT ![before] = after]]
    BY <1>3 DEF DislinkFromList
  <1>5. /\ before \in B \cup {Null} /\ after \in B \cup {Null}
        /\ before = Null <=> k = 1
        /\ after = Null <=> k = Len(s)
    BY <1>1, <1>2
  <1>6. m \in Lists(B)
    BY <1>4, <1>5 DEF Lists
  <1>7. /\ m.first = IF before = Null THEN after ELSE l.first
        /\ \A b \in B : m.prev[b] = IF b = after THEN before ELSE l.prev[b]
        /\ \A b \in B : m.next[b] = IF b = before THEN after ELSE l.next[b]
    BY <1>4, <1>5 DEF Lists
  <1> HIDE DEF m, t
  <1>8. m.first = IF t = <<>> THEN Null ELSE t[1]
    <2>1. t = <<>> <=> Len(s) = 1
      <3>1. t \in Seq(B)
        BY Removed DEF t
      <3> QED BY <3>1, <1>1, EmptySeq
    <2>2. l.first = s[1]
      BY <1>1 DEF ListIs
    <2> QED BY <1>1, <1>5, <1>7, <2>1, <2>2
  <1>9. ASSUME NEW j \in 1..Len(t)
        PROVE  /\ m.next[t[j]] = IF j < Len(t) THEN t[j + 1] ELSE Null
               /\ m.prev[t[j]] = IF j > 1 THEN t[j - 1] ELSE Null
    <2>1. CASE j < k
      <3>1. t[j] = s[j] /\ j \in 1..Len(s) /\ s[j] \in B
        BY <1>1, <1>2, <2>1
      <3>2. s[j] = before <=> j = k - 1
        <4>1. k > 1 /\ k - 1 \in 1..Len(s) /\ j \in 1..Len(s)
          BY <1>1, <2>1
        <4>2. before = s[k - 1]
          BY <4>1
        <4> HIDE DEF before
        <4> QED BY <4>1, <4>2 DEF ListIs
      <3>3. s[j] # after
        <4>1. CASE k < Len(s)
          <5>1. k + 1 \in 1..Len(s) /\ j \in 1..Len(s) /\ j # k + 1
            BY <1>1, <2>1, <4>1
          <5>2. after = s[k + 1]
            BY <4>1
          <5> HIDE DEF after
          <5> QED BY <5>1, <5>2 DEF ListIs
        <4>2. CASE ~(k < Len(s))
          BY <1>2, <3>1, <4>2
        <4> QED BY <4>1, <4>2
      <3>4. l.next[s[j]] = s[j + 1] /\ l.prev[s[j]] = IF j > 1 THEN s[j - 1] ELSE Null
        BY <1>1, <2>1 DEF ListIs
      <3>5. m.next[s[j]] = IF j = k - 1 THEN after ELSE s[j + 1]
        BY <1>7, <3>1, <3>2, <3>4
      <3>6. m.prev[s[j]] = IF j > 1 THEN s[j - 1] ELSE Null
        BY <1>7, <3>1, <3>3, <3>4
      <3>7. /\ j < Len(t) => t[j + 1] = IF j = k - 1 THEN s[k + 1] ELSE s[j + 1]
            /\ j < Len(t) => k < Len(s) \/ j # k - 1
            /\ ~(j < Len(t)) => k = Len(s) /\ j = k - 1
        <4>1. /\ j < Len(t) => j + 1 \in 1..(Len(s) - 1)
              /\ j + 1 < k <=> j # k - 1
              /\ j = k - 1 => (j + 1) + 1 = k + 1
          BY <1>1, <2>1
        <4>2. j < Len(t) => t[j + 1] = IF j + 1 < k THEN s[j + 1] ELSE s[(j + 1) + 1]
          BY <1>1, <4>1
        <4>3. /\ j < Len(t) => k < Len(s) \/ j # k - 1
              /\ ~(j < Len(t)) => k = Len(s) /\ j = k - 1
          BY <1>1, <2>1
        <4> QED BY <4>1, <4>2, <4>3
      <3>8. j > 1 => t[j - 1] = s[j - 1]
        <4>1. j > 1 => j - 1 \in 1..(Len(s) - 1) /\ j - 1 < k
          BY <1>1, <2>1
        <4> QED BY <1>1, <4>1
      <3> QED BY <3>1, <3>5, <3>6, <3>7, <3>8
    <2>2. CASE j >= k
      <3>1. t[j] = s[j + 1] /\ j + 1 \in 1..Len(s) /\ s[j + 1] \in B
        BY <1>1, <1>2, <2>2
      <3>2. s[j + 1] = after <=> j = k
        <4>1. k < Len(s) /\ k + 1 \in 1..Len(s)
          BY <1>1, <2>2
        <4>2. after = s[k + 1]
          BY <4>1
        <4> HIDE DEF after
        <4>3. s[j + 1] = s[k + 1] => j + 1 = k + 1
          BY <3>1, <4>1 DEF ListIs
        <4> QED BY <1>1, <4>2, <4>3
      <3>3. s[j + 1] # before
        <4>1. CASE k > 1
          <5>1. k - 1 \in 1..Len(s) /\ j + 1 # k - 1
            BY <1>1, <2>2, <4>1
          <5>2. before = s[k - 1]
            BY <4>1
          <5> HIDE DEF before
          <5> QED BY <3>1, <5>1, <5>2 DEF ListIs
        <4>2. CASE ~(k > 1)
          BY <3>1, <4>2
        <4> QED BY <4>1, <4>2
      <3>4. /\ l.next[s[j + 1]] = IF j + 1 < Len(s) THEN s[j + 2] ELSE Null
            /\ l.prev[s[j + 1]] = s[j]
        BY <1>1, <2>2, <3>1 DEF ListIs
      <3>5. m.next[t[j]] = IF j < Len(t) THEN t[j + 1] ELSE Null
        BY <1>1, <1>7, <2>2, <3>1, <3>3, <3>4
      <3>6. CASE j = k
        BY <1>1, <1>7, <3>1, <3>2, <3>5, <3>6
      <3>7. CASE j > k
        <4>1. t[j - 1] = s[j]
          BY <1>1, <3>7
        <4> QED BY <1>1, <1>7, <3>1, <3>2, <3>4, <3>5, <3>7, <4>1
      <3> QED BY <2>2, <3>6, <3>7, <1>1
    <2> QED BY <2>1, <2>2, <1>1
  <1>10. ASSUME NEW i \in 1..Len(t), NEW j \in 1..Len(t), t[i] = t[j]
         PROVE  i = j
    <2>1. PICK x \in 1..Len(s) : t[i] = s[x] /\ x = IF i < k THEN i ELSE i + 1
      BY <1>1
    <2>2. PICK y \in 1..Len(s) : t[j] = s[y] /\ y = IF j < k THEN j ELSE j + 1
      BY <1>1
    <2>3. x = y
      BY <1>10, <2>1, <2>2 DEF ListIs
    <2> QED BY <1>1, <2>1, <2>2, <2>3
  <1>11. ListIs(m, t)
    BY <1>8, <1>9, <1>10 DEF ListIs
  <1>12. /\ before # Null => before \in Nodes(t)
         /\ after # Null => after \in Nodes(t)
    <2>1. ASSUME NEW j \in 1..Len(s), j # k PROVE s[j] \in Nodes(s) \ {s[k]}
      BY <2>1 DEF ListIs, Nodes
    <2>2. Nodes(t) = Nodes(s) \ {s[k]}
      BY RemovedNodes DEF ListIs, t
    <2> QED BY <1>1, <1>5, <2>1, <2>2
  <1>13. ASSUME NEW b \in B \ Nodes(t)
         PROVE  m.prev[b] = l.prev[b] /\ m.next[b] = l.next[b]
    BY <1>7, <1>12, <1>2
  <1>14. k > 1 => m.next[s[k-1]] = l.next[s[k]] /\ l.next[s[k-1]] = s[k]
    <2>1. k > 1 => k - 1 \in 1..Len(s) /\ before = s[k-1] /\ s[k-1] \in B
      BY <1>1, <1>2
    <2> QED BY <1>1, <1>3, <1>7, <2>1 DEF ListIs
  <1>15. ASSUME NEW b \in B, l.next[b] # s[k] PROVE m.next[b] = l.next[b]
    BY <1>1, <1>5, <1>7, <1>14, <1>15
  <1> QED BY <1>6, <1>11, <1>13, <1>14, <1>15 DEF m, t

-----------------------------------------------------------------------------
(* The walk along next.                                                    *)

LEMMA Least ==
  ASSUME NEW T \in SUBSET Nat, T # {}
  PROVE  \E m \in T : \A k \in T : m <= k
  <1> DEFINE R == {p \in Nat \X Nat : p[1] < p[2]}
  <1>1. ASSUME NEW x \in Nat, NEW y \in Nat, x < y PROVE <<x, y>> \in R
    BY <1>1
  <1>2. IsWellFoundedOn(R, Nat)
    <2>1. R = OpToRel(<, Nat)
      BY DEF OpToRel
    <2> QED BY <2>1, NatLessThanWellFounded
  <1> HIDE DEF R
  <1>3. PICK m \in T : \A y \in T : <<y, m>> \notin R
    BY <1>2, WFMin
  <1>4. ASSUME NEW k \in T PROVE m <= k
    <2>1. ~(k < m)
      BY <1>1, <1>3
    <2> QED BY <2>1
  <1> QED BY <1>4

\* NodeAt finds the nodes in their order, and NULL behind them.
THEOREM WalkOfList ==
  ASSUME NEW B, NEW l, NEW s \in Seq(B), Null \notin B, ListIs(l, s), NEW k \in Nat
  PROVE  NodeAt(l, k) = IF k < Len(s) THEN s[k + 1] ELSE Null
  <1> DEFINE F(f) == [i \in 0..k |-> IF i = 0 THEN l.first
                                     ELSE IF f[i-1] = Null THEN Null ELSE l.next[f[i-1]]]
             at == CHOOSE f : f = F(f)
             w == [i \in 0..k |-> IF i < Len(s) THEN s[i + 1] ELSE Null]
  <1>1. Len(s) \in Nat /\ \A j \in 1..Len(s) : s[j] \in B
    BY LenProperties, ElementOfSeq
  <1>2. w = F(w)
    <2>1. ASSUME NEW j \in 0..k
          PROVE  w[j] = IF j = 0 THEN l.first
                        ELSE IF w[j-1] = Null THEN Null ELSE l.next[w[j-1]]
      <3>1. CASE j = 0
        <4>1. l.first = IF 0 < Len(s) THEN s[1] ELSE Null
          BY <1>1, EmptySeq DEF ListIs
        <4> QED BY <3>1, <4>1
      <3>2. CASE j > 0
        <4>1. w[j] = IF j < Len(s) THEN s[j + 1] ELSE Null
          OBVIOUS
        <4>2. w[j-1] = IF j - 1 < Len(s) THEN s[j] ELSE Null
          BY <3>2
        <4>3. j - 1 < Len(s) => j \in 1..Len(s) /\ s[j] # Null
          BY <1>1, <3>2
        <4>4. j \in 1..Len(s) => l.next[s[j]] = IF j < Len(s) THEN s[j+1] ELSE Null
          BY DEF ListIs
        <4> QED BY <1>1, <3>2, <4>1, <4>2, <4>3, <4>4
      <3> QED BY <3>1, <3>2
    <2> QED BY <2>1
  <1>3. at = F(at)
    BY <1>2
  <1>4. ASSUME NEW f, f = F(f), NEW j \in 0..k, j > 0
        PROVE  f[j] = IF f[j-1] = Null THEN Null ELSE l.next[f[j-1]]
    <2>1. F(f)[j] = IF f[j-1] = Null THEN Null ELSE l.next[f[j-1]]
      BY <1>4
    <2> HIDE DEF F
    <2>2. f[j] = F(f)[j]
      BY <1>4
    <2> QED BY <2>1, <2>2
  <1> HIDE DEF at
  <1>5. \A j \in 0..k : at[j] = w[j]
    <2> DEFINE T == {j \in 0..k : at[j] # w[j]}
    <2>1. SUFFICES ASSUME T # {} PROVE FALSE
      OBVIOUS
    <2>2. PICK m \in T : \A j \in T : m <= j
      <3>1. T \in SUBSET Nat
        OBVIOUS
      <3> HIDE DEF T
      <3> QED BY <2>1, <3>1, Least
    <2>3. m = 0 => at[m] = w[m]
      BY <1>2, <1>3
    <2>4. m > 0 => at[m - 1] = w[m - 1]
      BY <2>2
    <2>5. m > 0 => at[m] = w[m]
      <3> HIDE DEF F, w
      <3>1. ASSUME m > 0
            PROVE  /\ at[m] = IF at[m-1] = Null THEN Null ELSE l.next[at[m-1]]
                   /\ w[m] = IF w[m-1] = Null THEN Null ELSE l.next[w[m-1]]
        BY <1>2, <1>3, <1>4, <3>1
      <3> QED BY <2>4, <3>1
    <2> QED BY <2>2, <2>3, <2>5
  <1>6. NodeAt(l, k) = at[k]
    BY DEF NodeAt, at
  <1> QED BY <1>5, <1>6

-----------------------------------------------------------------------------
(* What a thread that stands on a node of a list has still before it.      *)

From(s, b) == {s[j] : j \in {q \in 1..Len(s) : \E p \in 1..q : s[p] = b}}

LEMMA FromFirst ==
  ASSUME NEW B, NEW l, NEW s \in Seq(B), Null \notin B, ListIs(l, s)
  PROVE  From(s, l.first) = Nodes(s) /\ From(s, Null) = {} /\ l.first \in Nodes(s) \cup {Null}
  <1>1. Len(s) \in Nat /\ \A j \in 1..Len(s) : s[j] \in B
    BY LenProperties, ElementOfSeq
  <1>2. From(s, Null) = {}
    BY <1>1 DEF From
  <1>3. CASE s = <<>>
    <2>1. l.first = Null /\ Nodes(s) = {}
      BY <1>3, EmptySeq DEF ListIs, Nodes
    <2> QED BY <1>2, <2>1
  <1>4. CASE s # <<>>
    <2>1. l.first = s[1] /\ 1 \in 1..Len(s)
      BY <1>1, <1>4, EmptySeq DEF ListIs
    <2>2. \A q \in 1..Len(s) : \E p \in 1..q : s[p] = l.first
      BY <2>1
    <2> QED BY <1>2, <2>1, <2>2 DEF From, Nodes
  <1> QED BY <1>3, <1>4

LEMMA FromNext ==
  ASSUME NEW B, NEW l, NEW s \in Seq(B), Null \notin B, ListIs(l, s), NEW b \in Nodes(s)
  PROVE  /\ From(s, b) = {b} \cup From(s, l.next[b])
         /\ b \notin From(s, l.next[b])
         /\ l.next[b] \in Nodes(s) \cup {Null}
         /\ From(s, b) \subseteq Nodes(s)
  <1>1. Len(s) \in Nat /\ \A j \in 1..Len(s) : s[j] \in B
    BY LenProperties, ElementOfSeq
  <1>2. PICK k \in 1..Len(s) : b = s[k]
    BY DEF Nodes
  <1>3. \A i, j \in 1..Len(s) : s[i] = s[j] => i = j
    BY DEF ListIs
  <1>4. l.next[b] = IF k < Len(s) THEN s[k + 1] ELSE Null
    BY <1>2 DEF ListIs
  <1>5. From(s, b) = {s[j] : j \in k..Len(s)}
    <2>1. \A q \in 1..Len(s) : (\E p \in 1..q : s[p] = b) <=> q >= k
      BY <1>1, <1>2, <1>3
    <2> QED BY <2>1, <1>1 DEF From
  <1>6. From(s, l.next[b]) = {s[j] : j \in (k + 1)..Len(s)}
    <2>1. CASE k < Len(s)
      <3>1. \A q \in 1..Len(s) : (\E p \in 1..q : s[p] = l.next[b]) <=> q >= k + 1
        BY <1>1, <1>3, <1>4, <2>1
      <3> QED BY <3>1, <1>1 DEF From
    <2>2. CASE k = Len(s)
      <3>1. From(s, l.next[b]) = {}
        BY <1>1, <1>4, <2>2 DEF From
      <3> QED BY <3>1, <1>1, <2>2
    <2> QED BY <2>1, <2>2, <1>1
  <1>7. b \notin From(s, l.next[b])
    BY <1>1, <1>2, <1>3, <1>6
  <1>8. From(s, b) = {b} \cup From(s, l.next[b])
    BY <1>1, <1>2, <1>5, <1>6
  <1>9. From(s, b) \subseteq Nodes(s)
    BY DEF From, Nodes
  <1>10. l.next[b] \in Nodes(s) \cup {Null}
    <2>1. k < Len(s) => k + 1 \in 1..Len(s)
      BY <1>1
    <2> QED BY <1>4, <2>1 DEF Nodes
  <1> QED BY <1>7, <1>8, <1>9, <1>10

LEMMA FromPushed ==
  ASSUME NEW B, NEW s \in Seq(B), NEW n \in B \ Nodes(s), NEW b \in Nodes(s)
  PROVE  From(<<n>> \o s, b) = From(s, b)
  <1> DEFINE t == <<n>> \o s
  <1>1. /\ Len(t) = Len(s) + 1 /\ Len(s) \in Nat
        /\ \A j \in 1..(Len(s) + 1) : t[j] = IF j = 1 THEN n ELSE s[j - 1]
    BY Pushed, LenProperties
  <1>2. b # n
    OBVIOUS
  <1> HIDE DEF t
  <1>3. ASSUME NEW q \in 1..Len(s), NEW p \in 1..q, s[p] = b PROVE s[q] \in From(t, b)
    <2>1. q + 1 \in 1..Len(t) /\ p + 1 \in 1..(q + 1) /\ t[p + 1] = b /\ t[q + 1] = s[q]
      BY <1>1, <1>3
    <2> QED BY <2>1 DEF From
  <1>4. ASSUME NEW q \in 1..Len(t), NEW p \in 1..q, t[p] = b PROVE t[q] \in From(s, b)
    <2>1. q - 1 \in 1..Len(s) /\ p - 1 \in 1..(q - 1) /\ s[p - 1] = b /\ t[q] = s[q - 1]
      BY <1>1, <1>2, <1>4
    <2> QED BY <2>1 DEF From
  <1>5. From(t, b) = From(s, b)
    BY <1>3, <1>4 DEF From
  <1> QED BY <1>5 DEF t

(* A path follows next to NULL, wherever its nodes are.                    *)
Path(l, w) ==
  /\ \A j \in 1..Len(w) : l.next[w[j]] = IF j < Len(w) THEN w[j + 1] ELSE Null
  /\ \A i, j \in 1..Len(w) : w[i] = w[j] => i = j

LEMMA PathSame ==
  ASSUME NEW l, NEW m, NEW w, Path(l, w), \A b \in Nodes(w) : m.next[b] = l.next[b]
  PROVE  Path(m, w)
  BY DEF Path, Nodes

LEMMA PathTail ==
  ASSUME NEW B, Null \notin B, NEW l, NEW w \in Seq(B), w # <<>>, Path(l, w)
  PROVE  /\ Tail(w) \in Seq(B) /\ Path(l, Tail(w))
         /\ Nodes(w) = {w[1]} \cup Nodes(Tail(w))
         /\ IF Tail(w) = <<>> THEN l.next[w[1]] = Null
            ELSE l.next[w[1]] = Tail(w)[1] /\ Tail(w)[1] \in B
  <1> DEFINE t == Tail(w)
  <1>1. /\ t \in Seq(B) /\ Len(t) = Len(w) - 1 /\ Len(t) \in Nat
        /\ \A j \in 1..Len(t) : t[j] = w[j + 1]
    BY HeadTailProperties, LenProperties
  <1> HIDE DEF t
  <1>2. Len(w) \in Nat /\ 1 \in 1..Len(w) /\ (t = <<>> <=> Len(w) = 1)
    BY <1>1, EmptySeq
  <1>3. Path(l, t)
    <2>1. ASSUME NEW j \in 1..Len(t)
          PROVE  l.next[t[j]] = IF j < Len(t) THEN t[j + 1] ELSE Null
      <3>1. j + 1 \in 1..Len(w) /\ t[j] = w[j + 1]
        BY <1>1, <1>2
      <3>2. l.next[w[j + 1]] = IF j + 1 < Len(w) THEN w[(j + 1) + 1] ELSE Null
        BY <3>1 DEF Path
      <3>3. j < Len(t) => t[j + 1] = w[(j + 1) + 1]
        BY <1>1
      <3> QED BY <1>1, <1>2, <3>1, <3>2, <3>3
    <2>2. ASSUME NEW i \in 1..Len(t), NEW j \in 1..Len(t), t[i] = t[j] PROVE i = j
      <3>1. i + 1 \in 1..Len(w) /\ j + 1 \in 1..Len(w) /\ w[i + 1] = w[j + 1]
        BY <1>1, <1>2, <2>2
      <3> QED BY <3>1 DEF Path
    <2> QED BY <2>1, <2>2 DEF Path
  <1>4. Nodes(w) = {w[1]} \cup Nodes(t)
    <2>1. ASSUME NEW j \in 1..Len(w), j # 1 PROVE w[j] \in Nodes(t)
      <3>1. j - 1 \in 1..Len(t) /\ t[j - 1] = w[j]
        BY <1>1, <1>2, <2>1
      <3> QED BY <3>1 DEF Nodes
    <2>2. ASSUME NEW j \in 1..Len(t) PROVE t[j] \in Nodes(w)
      BY <1>1, <1>2 DEF Nodes
    <2>3. w[1] \in Nodes(w)
      BY <1>2 DEF Nodes
    <2> QED BY <2>1, <2>2, <2>3 DEF Nodes
  <1>5. l.next[w[1]] = IF 1 < Len(w) THEN w[2] ELSE Null
    BY <1>2 DEF Path
  <1>6. t # <<>> => t[1] = w[2] /\ w[2] \in B
    <2>1. t # <<>> => 1 \in 1..Len(t)
      BY <1>1, EmptySeq
    <2> QED BY <2>1, <1>1, ElementOfSeq
  <1> QED BY <1>1, <1>2, <1>3, <1>4, <1>5, <1>6 DEF t

\* When a node leaves the list, a path that may begin outside the list passes
\* it over, or is what it was.
LEMMA PathDislink ==
  ASSUME NEW B, Null \notin B, NEW l \in Lists(B), NEW s \in Seq(B), ListIs(l, s),
         NEW k \in 1..Len(s), NEW w \in Seq(B), w # <<>>, Path(l, w)
  PROVE  \E v \in Seq(B) : /\ Path(DislinkFromList(l, s[k]), v)
                           /\ v # <<>> /\ v[1] = w[1]
                           /\ Nodes(v) \subseteq Nodes(w)
                           /\ Nodes(w) \ {s[k]} \subseteq Nodes(v)
  <1> DEFINE m == DislinkFromList(l, s[k])
  <1>1. /\ \A b \in B : l.next[b] # s[k] => m.next[b] = l.next[b]
        /\ k > 1 => m.next[s[k-1]] = l.next[s[k]] /\ l.next[s[k-1]] = s[k]
        /\ m \in Lists(B)
        /\ \A b \in B \ Nodes(RemoveAt(s, k)) : m.next[b] = l.next[b]
    BY DislinkKeepsList
  <1>2. /\ Len(w) \in Nat /\ 1 \in 1..Len(w) /\ \A j \in 1..Len(w) : w[j] \in B
        /\ Len(s) \in Nat /\ \A j \in 1..Len(s) : s[j] \in B
    BY LenProperties, ElementOfSeq, EmptySeq
  <1> HIDE DEF m
  <1>3. CASE \E j \in 1..Len(w) : j > 1 /\ w[j] = s[k] /\ m.next[w[j-1]] # l.next[w[j-1]]
    <2>1. PICK j \in 1..Len(w) : j > 1 /\ w[j] = s[k] /\ m.next[w[j-1]] # l.next[w[j-1]]
      BY <1>3
    <2> DEFINE v == RemoveAt(w, j)
    <2>2. /\ v \in Seq(B) /\ Len(v) = Len(w) - 1 /\ Nodes(v) = Nodes(w) \ {w[j]}
          /\ \A h \in 1..(Len(w) - 1) : v[h] = IF h < j THEN w[h] ELSE w[h + 1]
          /\ \A h, g \in 1..Len(v) : v[h] = v[g] => h = g
      <3>1. \A h, g \in 1..Len(w) : w[h] = w[g] => h = g
        BY DEF Path
      <3> QED BY <3>1, Removed, RemovedNodes
    <2> HIDE DEF v
    <2>3. m.next[w[j-1]] = l.next[w[j]]
      <3>1. j - 1 \in 1..Len(w) /\ w[j-1] \in B
        BY <1>2, <2>1
      <3>2. w[j-1] \in Nodes(RemoveAt(s, k))
        BY <1>1, <2>1, <3>1
      <3>3. PICK h \in 1..Len(s) : w[j-1] = s[h]
        <4>1. Nodes(RemoveAt(s, k)) \subseteq Nodes(s)
          BY RemovedNodes DEF ListIs
        <4> QED BY <3>2, <4>1 DEF Nodes
      <3>4. l.next[w[j-1]] = s[k]
        BY <2>1, <3>1 DEF Path
      <3>5. h < Len(s) /\ s[h + 1] = s[k] /\ h + 1 \in 1..Len(s)
        BY <1>2, <3>3, <3>4 DEF ListIs
      <3>6. h = k - 1 /\ k > 1
        BY <1>2, <3>5 DEF ListIs
      <3> QED BY <1>1, <2>1, <3>3, <3>6
    <2>4. ASSUME NEW h \in 1..Len(v)
          PROVE  m.next[v[h]] = IF h < Len(v) THEN v[h + 1] ELSE Null
      <3>1. CASE h = j - 1
        <4>1. v[h] = w[j-1] /\ (h < Len(v) => v[h + 1] = w[j + 1])
          BY <1>2, <2>1, <2>2, <3>1
        <4>2. l.next[w[j]] = IF j < Len(w) THEN w[j + 1] ELSE Null
          BY DEF Path
        <4> QED BY <1>2, <2>1, <2>2, <2>3, <3>1, <4>1, <4>2
      <3>2. CASE h < j - 1
        <4>0. h \in 1..(Len(w) - 1) /\ h + 1 \in 1..(Len(w) - 1) /\ h < Len(v)
          BY <1>2, <2>1, <2>2, <3>2
        <4>1. /\ v[h] = w[h] /\ v[h + 1] = w[h + 1] /\ h + 1 # j
              /\ h + 1 \in 1..Len(w) /\ h \in 1..Len(w) /\ h < Len(v)
          BY <1>2, <2>1, <2>2, <3>2, <4>0
        <4>2. l.next[w[h]] = w[h + 1] /\ w[h + 1] # w[j]
          BY <1>2, <4>1 DEF Path
        <4> QED BY <1>1, <1>2, <2>1, <4>1, <4>2
      <3>3. CASE h > j - 1
        <4>0. h \in 1..(Len(w) - 1) /\ (h < Len(v) => h + 1 \in 1..(Len(w) - 1))
          BY <1>2, <2>2
        <4>1. /\ v[h] = w[h + 1] /\ h + 1 \in 1..Len(w)
              /\ h < Len(v) => v[h + 1] = w[h + 2] /\ h + 2 \in 1..Len(w)
          BY <1>2, <2>1, <2>2, <3>3, <4>0
        <4>2. l.next[w[h + 1]] = IF h + 1 < Len(w) THEN w[h + 2] ELSE Null
          BY <4>1 DEF Path
        <4>3. h + 1 < Len(w) => w[h + 2] # w[j]
          BY <1>2, <2>1, <3>3 DEF Path
        <4> QED BY <1>1, <1>2, <2>1, <2>2, <4>1, <4>2, <4>3
      <3> QED BY <3>1, <3>2, <3>3, <2>1, <2>2, <1>2
    <2>5. Path(m, v)
      BY <2>2, <2>4 DEF Path
    <2>6. v # <<>> /\ v[1] = w[1]
      <3>1. Len(v) >= 1
        BY <1>2, <2>1, <2>2
      <3> QED BY <3>1, <1>2, <2>1, <2>2, EmptySeq
    <2> QED BY <2>1, <2>2, <2>5, <2>6 DEF m
  <1>4. CASE ~ \E j \in 1..Len(w) : j > 1 /\ w[j] = s[k] /\ m.next[w[j-1]] # l.next[w[j-1]]
    <2>1. ASSUME NEW j \in 1..Len(w) PROVE m.next[w[j]] = l.next[w[j]]
      <3>1. CASE l.next[w[j]] # s[k]
        BY <1>1, <1>2, <3>1
      <3>2. CASE l.next[w[j]] = s[k]
        <4>1. j < Len(w) /\ w[j + 1] = s[k]
          BY <1>2, <3>2 DEF Path
        <4>2. j + 1 \in 1..Len(w) /\ j + 1 > 1 /\ w[(j + 1) - 1] = w[j]
          BY <1>2, <4>1
        <4> QED BY <1>4, <4>1, <4>2
      <3> QED BY <3>1, <3>2
    <2>2. Path(m, w)
      BY <2>1 DEF Path
    <2> QED BY <2>2 DEF m
  <1> QED BY <1>3, <1>4

=============================================================================

----------------------------- MODULE LinkedList -----------------------------
(***************************************************************************)
(* The doubly linked lists of the HW3 chat server.  Members and messages   *)
(* are kept in two lists written with the same code: a node enters at the  *)
(* head and leaves from wherever it is.  A list is a record of the first   *)
(* pointer and of the prev and next fields of every block of memory, the   *)
(* ones that are not linked included: a block keeps its fields when it is  *)
(* freed, and malloc does not clear them.                                  *)
(***************************************************************************)
EXTENDS Naturals, Sequences

CONSTANT Null          \* the NULL pointer

EmptyList(Blocks) ==
  [first |-> Null,
   prev  |-> [b \in Blocks |-> Null],
   next  |-> [b \in Blocks |-> Null]]

(* Insert at First.  Into an empty list the node enters as it is: its own  *)
(* next and prev fields are not assigned.                                  *)
LinkToList(l, n) ==
  IF l.first = Null
    THEN [l EXCEPT !.first = n]
    ELSE [first |-> n,
          prev  |-> [l.prev EXCEPT ![l.first] = n],
          next  |-> [l.next EXCEPT ![n] = l.first]]

(* A wrong variant: the link back over the node is forgotten.              *)
DislinkForward(l, n) ==
  LET before == l.prev[n]
      after  == l.next[n]
  IN [first |-> IF before = Null THEN after ELSE l.first,
      prev  |-> l.prev,
      next  |-> IF before = Null THEN l.next ELSE [l.next EXCEPT ![before] = after]]

(* The node's neighbours are joined; a node without a predecessor is taken *)
(* for the first.  The node keeps its own fields.                          *)
DislinkFromList(l, n) ==
  LET before == l.prev[n]
      after  == l.next[n]
  IN [first |-> IF before = Null THEN after ELSE l.first,
      prev  |-> IF after = Null THEN l.prev ELSE [l.prev EXCEPT ![after] = before],
      next  |-> IF before = Null THEN l.next ELSE [l.next EXCEPT ![before] = after]]

(* The node reached from the first by k steps along next, NULL past the end. *)
NodeAt(l, k) ==
  LET at[i \in 0..k] == IF i = 0 THEN l.first
                        ELSE IF at[i-1] = Null THEN Null ELSE l.next[at[i-1]]
  IN at[k]

(* The list is the nodes of s in this order, linked both ways.             *)
ListIs(l, s) ==
  /\ l.first = IF s = <<>> THEN Null ELSE s[1]
  /\ \A i \in 1..Len(s) :
       /\ l.next[s[i]] = IF i < Len(s) THEN s[i+1] ELSE Null
       /\ l.prev[s[i]] = IF i > 1 THEN s[i-1] ELSE Null
  /\ \A i, j \in 1..Len(s) : s[i] = s[j] => i = j

=============================================================================

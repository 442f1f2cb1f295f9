------------------------------ MODULE FileCopy ------------------------------
(***************************************************************************)
(* What a HW5 download promises its two users, without packets, timers or  *)
(* block numbers.  The receiver's copy grows by the next block of the file *)
(* and by nothing else; it is declared complete exactly when it holds the  *)
(* whole file; the sender reports success only when it has been; and       *)
(* either side may give up at any time, without the other knowing.         *)
(***************************************************************************)
EXTENDS Integers

CONSTANT FileBlocks

VARIABLES
    copied,     \* blocks of the file in the receiver's copy
    receiver,   \* "open", "complete" or "partial"
    sender      \* "serving", "confirmed" or "failed"

copyVars == <<copied, receiver, sender>>

Init == copied = 0 /\ receiver = "open" /\ sender = "serving"

CopyBlock ==
    /\ receiver = "open" /\ copied < FileBlocks
    /\ copied' = copied + 1
    /\ receiver' = IF copied' = FileBlocks THEN "complete" ELSE "open"
    /\ UNCHANGED sender

ReceiverGivesUp ==
    /\ receiver = "open" /\ receiver' = "partial"
    /\ UNCHANGED <<copied, sender>>

SenderConfirms ==
    /\ sender = "serving" /\ receiver = "complete"
    /\ sender' = "confirmed"
    /\ UNCHANGED <<copied, receiver>>

SenderGivesUp ==
    /\ sender = "serving" /\ sender' = "failed"
    /\ UNCHANGED <<copied, receiver>>

Next == CopyBlock \/ ReceiverGivesUp \/ SenderConfirms \/ SenderGivesUp

Spec == Init /\ [][Next]_copyVars
=============================================================================

-------------------------------- MODULE Ping --------------------------------
(***************************************************************************)
(* HW6 ping: a loop that sends an echo request, resets the timer, and      *)
(* takes one packet from pcap, or "*" when pcap's read timeout passes      *)
(* without one.  The filter looks at the source and the type of a packet:  *)
(* the late reply to an earlier request, and the reply to another program  *)
(* that pings the same host, pass it.                                      *)
(*                                                                         *)
(* Time is the order of events: `now' counts sends, timer resets and       *)
(* captures.  How long a reply takes is left open, so that "*" is possible *)
(* whenever nothing has been captured.                                     *)
(***************************************************************************)
EXTENDS Integers, Sequences, FiniteSets

CONSTANTS
    Count,      \* the argument after -c
    MaxStrays   \* bound: replies captured that are not the first to a request

ASSUME PingAssumption == Count \in Nat /\ MaxStrays \in Nat

VARIABLES
    pc,         \* "send", "timer", "read"; "done" or "failed" at the end
    seq,        \* of the request being sent or answered
    tv,         \* pcap_get_reply's timer
    flying,     \* the requests whose reply may still arrive
    buf,        \* what pcap has captured and not delivered
    lines,      \* printed; `span' is history: from `began' to the capture
    now,
    began,      \* history: when the round of this request began
    raced,      \* history: requests answered before the timer was reset
    strays

vars == <<pc, seq, tv, flying, buf, lines, now, began, raced, strays>>

Requests == 1 .. Count
Star  == 0      \* a line "= *"
Stray == -1     \* a reply to none of the requests, or a second copy

Line(of, time, span) == [of |-> of, time |-> time, span |-> span]
Running == pc \notin {"done", "failed"}

Init ==
    /\ pc = IF Count > 0 THEN "send" ELSE "done"
    /\ seq = 1
    /\ tv = 0 /\ now = 0
    /\ flying = {} /\ buf = <<>> /\ lines = <<>>
    /\ began = 0 /\ raced = {}
    /\ strays = 0
-----------------------------------------------------------------------------
(* The program. *)

\* fill_icmphdr() numbers the request; sendto().
SendRequest ==
    /\ pc = "send"
    /\ pc' = "timer"
    /\ flying' = flying \cup {seq}
    /\ now' = now + 1
    /\ UNCHANGED <<seq, tv, buf, lines, began, raced, strays>>

SendFails ==
    /\ pc = "send"
    /\ pc' = "failed"
    /\ UNCHANGED <<seq, tv, flying, buf, lines, now, began, raced, strays>>

\* gettimeofday(), the request being on its way.
StartTimer ==
    /\ pc = "timer"
    /\ pc' = "read"
    /\ tv' = now
    /\ now' = now + 1
    /\ UNCHANGED <<seq, flying, buf, lines, began, raced, strays>>

\* Wrong: the sequence number is not advanced.
AdvanceNothing ==
    /\ pc' = IF Len(lines) + 1 = Count THEN "done" ELSE "send"
    /\ began' = now
    /\ UNCHANGED seq

\* seq++, and i < count.
Advance ==
    /\ seq' = seq + 1
    /\ pc' = IF seq = Count THEN "done" ELSE "send"
    /\ began' = now

\* Wrong: the timer is reset when pcap_next() has returned.
ReadReplyFirst ==
    /\ pc = "read" /\ buf # <<>>
    /\ buf' = Tail(buf)
    /\ tv' = now
    /\ LET r == Head(buf)
       IN lines' = Append(lines, Line(r.of, r.ts - now, r.ts - began))
    /\ Advance
    /\ UNCHANGED <<flying, now, raced, strays>>

\* pcap_next() delivers the oldest packet captured, whosever reply it is.
ReadReply ==
    /\ pc = "read" /\ buf # <<>>
    /\ buf' = Tail(buf)
    /\ LET r == Head(buf)
       IN lines' = Append(lines, Line(r.of, r.ts - tv, r.ts - began))
    /\ Advance
    /\ UNCHANGED <<tv, flying, now, raced, strays>>

\* Wrong: a request without a reply leaves no line.
SilentTimeout ==
    /\ pc = "read" /\ buf = <<>>
    /\ Advance
    /\ UNCHANGED <<tv, flying, buf, lines, now, raced, strays>>

\* Wrong: a timeout of 0, with which pcap waits for ever.
NoTimeout == FALSE /\ UNCHANGED vars

\* pcap_next() returns NULL.
ReadTimeout ==
    /\ pc = "read" /\ buf = <<>>
    /\ lines' = Append(lines, Line(Star, 0, 0))
    /\ Advance
    /\ UNCHANGED <<tv, flying, buf, now, raced, strays>>
-----------------------------------------------------------------------------
(* Network and kernel. *)

Capture(of) ==
    /\ Running
    /\ buf' = Append(buf, [of |-> of, ts |-> now])
    /\ now' = now + 1
    /\ UNCHANGED <<pc, seq, tv, lines, began>>

CaptureReply(k) ==
    /\ k \in flying
    /\ Capture(k)
    /\ flying' = flying \ {k}
    /\ raced' = IF pc = "timer" /\ k = seq THEN raced \cup {k} ELSE raced
    /\ UNCHANGED strays

CaptureStray ==
    /\ strays < MaxStrays
    /\ Capture(Stray)
    /\ strays' = strays + 1
    /\ UNCHANGED <<flying, raced>>

\* A request or its reply is lost.
Lose(k) ==
    /\ Running /\ k \in flying
    /\ flying' = flying \ {k}
    /\ UNCHANGED <<pc, seq, tv, buf, lines, now, began, raced, strays>>

Program == SendRequest \/ SendFails \/ StartTimer \/ ReadReply \/ ReadTimeout

Next ==
    \/ Program
    \/ CaptureStray
    \/ \E k \in Requests : CaptureReply(k) \/ Lose(k)

Spec == Init /\ [][Next]_vars

\* The program is scheduled, and pcap's timeout passes.
FairSpec == Spec /\ WF_vars(Program)
-----------------------------------------------------------------------------
Captured == [of : Requests \cup {Stray}, ts : Nat]

\* Types; requests are numbered 1 to Count.
TypeOK ==
    /\ pc \in {"send", "timer", "read", "done", "failed"}
    /\ seq \in 1 .. Count + 1
    /\ tv \in Nat /\ now \in Nat
    /\ flying \in SUBSET Requests
    /\ buf \in Seq(Captured)
    /\ lines \in Seq([of : Requests \cup {Star, Stray}, time : Int, span : Int])
    /\ began \in Nat /\ raced \in SUBSET Requests
    /\ strays \in 0 .. MaxStrays

Misses(ls) == {i \in DOMAIN ls : ls[i].of \in {Star, Stray}}

\* A line shows the reply to another request than its own only after a line
\* "*" or a line taken from another program's ping: pcap_get_reply() compares
\* neither id nor sequence number, but as long as every request has been
\* answered in time none is needed.
WrongReplyNeedsMiss ==
    \A k \in DOMAIN lines :
        lines[k].of \in Requests \ {k} => \E i \in Misses(lines) : i < k

\* The time shown is that of the request's own round: it is not longer than the
\* round up to the capture, and negative only after a miss, when the reply is
\* an earlier one's, or if the reply came between sendto() and gettimeofday().
\* (main.c:126 asks for the timer to be reset before the packet is sent; by the
\* order it asks for, misses would be left as the only cause.)
TimedInItsRound ==
    \A k \in DOMAIN lines : lines[k].of \in Requests =>
        /\ lines[k].time <= lines[k].span
        /\ lines[k].time < 0 => k \in raced \/ \E i \in Misses(lines) : i < k

Replies(b) == {i \in DOMAIN b : b[i].of # Stray}

\* Between two requests, the replies captured or still to come that no line has
\* shown are no more than the lines "*" and the lines of others' replies: every
\* request costs one line and one reply at most, and none is left in pcap's
\* buffer for no reason.
UnshownNeedMisses ==
    pc \in {"send", "done"} =>
        Cardinality(flying) + Cardinality(Replies(buf)) <= Cardinality(Misses(lines))

\* Unless sendto() fails, the program prints one line for each of the Count
\* requests and ends, whatever is lost, late or strange.
PingEnds == <>(pc = "failed" \/ (pc = "done" /\ Len(lines) = Count))
=============================================================================

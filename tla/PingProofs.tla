---------------------------- MODULE PingProofs ----------------------------
(***************************************************************************)
(* What holds of Ping for every Count and any number of strays: the types, *)
(* which line may show the wrong reply, and what its time may be.          *)
(***************************************************************************)
EXTENDS Ping, FiniteSetTheorems, TLAPS

Outcome == [of : Requests \cup {Star, Stray}, time : Int, span : Int]

\* One line for each request up to seq.
Numbered ==
    /\ seq = Len(lines) + 1
    /\ pc \in {"send", "timer", "read"} => seq \in Requests

\* The timer was reset in this round, when a packet is awaited.
TimerReset ==
    /\ began <= now
    /\ pc = "read" => began <= tv /\ tv <= now

\* The one reply that is in flight or captured, if any, is the one to seq.
OnlyOwnReply ==
    /\ flying \subseteq {seq}
    /\ \A i \in DOMAIN buf : buf[i].of \in {Stray, seq}
    /\ \A i, j \in DOMAIN buf : buf[i].of = seq /\ buf[j].of = seq => i = j
    /\ (\E i \in DOMAIN buf : buf[i].of = seq) => flying = {}
    /\ pc \notin {"timer", "read"} =>
          flying = {} /\ \A i \in DOMAIN buf : buf[i].of = Stray

\* While no line is a miss, each shows the reply to its own request, and nothing
\* is left over from an earlier one.
OwnReplies ==
    Misses(lines) = {} =>
        /\ \A k \in DOMAIN lines : lines[k].of = k
        /\ OnlyOwnReply

\* While no line is a miss, the reply to seq, if it is there and was not captured
\* before the timer was reset, was captured after it.
InTime ==
    Misses(lines) = {} =>
        \A i \in DOMAIN buf : buf[i].of = seq /\ seq \notin raced =>
            pc = "read" /\ buf[i].ts >= tv

IInv == /\ TypeOK /\ Numbered /\ TimerReset /\ TimedInItsRound
        /\ OwnReplies /\ WrongReplyNeedsMiss /\ InTime

LEMMA Append1 ==
    ASSUME NEW S, NEW s \in Seq(S), NEW e \in S
    PROVE  /\ Append(s, e) \in Seq(S)
           /\ Len(Append(s, e)) = Len(s) + 1
           /\ DOMAIN Append(s, e) = DOMAIN s \cup {Len(s) + 1}
           /\ Append(s, e)[Len(s) + 1] = e
           /\ \A i \in DOMAIN s : Append(s, e)[i] = s[i]
           /\ Len(s) + 1 \notin DOMAIN s
  OBVIOUS

LEMMA Tail1 ==
    ASSUME NEW S, NEW s \in Seq(S), s # <<>>
    PROVE  /\ Head(s) \in S /\ Tail(s) \in Seq(S)
           /\ 1 \in DOMAIN s /\ Head(s) = s[1]
           /\ \A i \in DOMAIN Tail(s) : i \in Nat /\ i + 1 \in DOMAIN s /\ Tail(s)[i] = s[i + 1]
  OBVIOUS

LEMMA InitIInv == Init => IInv
  <1>1. SUFFICES ASSUME Init PROVE IInv
    OBVIOUS
  <1>2. TypeOK
    BY <1>1, PingAssumption DEF Init, TypeOK, Requests, Captured
  <1>3. Numbered
    BY <1>1, PingAssumption DEF Init, Numbered, Requests
  <1>4. TimerReset /\ InTime
    BY <1>1 DEF Init, TimerReset, InTime
  <1>5. TimedInItsRound /\ WrongReplyNeedsMiss
    BY <1>1 DEF Init, TimedInItsRound, WrongReplyNeedsMiss
  <1>6. OwnReplies
    BY <1>1 DEF Init, OwnReplies, OnlyOwnReply
  <1> QED BY <1>2, <1>3, <1>4, <1>5, <1>6 DEF IInv

-----------------------------------------------------------------------------
(* The line that ReadReply or ReadTimeout prints. *)

Reply1 == LET r == Head(buf)
          IN Line(r.of, r.ts - tv, r.ts - began)

LEMMA ReplyShown ==
    ASSUME TypeOK, Head(buf) \in Captured
    PROVE  Reply1 \in Outcome /\ Reply1.of = Head(buf).of
  <1>1. PICK o \in Requests \cup {Stray}, c \in Nat : Head(buf) = [of |-> o, ts |-> c]
    BY DEF Captured
  <1>2. Head(buf).of = o /\ Head(buf).ts = c
    BY <1>1
  <1>3. Reply1 = [of |-> o, time |-> c - tv, span |-> c - began]
    BY <1>2 DEF Reply1, Line
  <1>4. c - tv \in Int /\ c - began \in Int
    BY DEF TypeOK
  <1> QED BY <1>2, <1>3, <1>4 DEF Outcome

LEMMA StepTypes == TypeOK /\ Numbered /\ [Next]_vars => TypeOK' /\ Numbered'
  <1> SUFFICES ASSUME TypeOK, Numbered, [Next]_vars PROVE TypeOK' /\ Numbered'
    OBVIOUS
  <1> USE PingAssumption DEF TypeOK, Numbered, Requests
  <1>1. CASE SendRequest
    <2>1. seq \in Requests /\ flying' \in SUBSET Requests
      BY <1>1 DEF SendRequest
    <2>2. /\ now' \in Nat /\ pc' = "timer"
          /\ UNCHANGED <<seq, tv, buf, lines, began, raced, strays>>
      BY <1>1 DEF SendRequest
    <2> QED BY <2>1, <2>2
  <1>2. CASE SendFails
    BY <1>2 DEF SendFails
  <1>3. CASE StartTimer
    BY <1>3 DEF StartTimer
  <1>4. CASE ReadReply
    <2>1. /\ lines' = Append(lines, Reply1) /\ buf' = Tail(buf) /\ buf # <<>> /\ pc = "read"
      BY <1>4 DEF ReadReply, Reply1
    <2>2. Head(buf) \in Captured /\ buf' \in Seq(Captured)
      BY <2>1, Tail1
    <2>3. Reply1 \in Outcome
      BY <2>2, ReplyShown
    <2>4. lines' \in Seq(Outcome) /\ Len(lines') = Len(lines) + 1
      BY <2>1, <2>3, Append1 DEF Outcome
    <2>5. pc' \in {"send", "done"} /\ (pc' = "send" => seq # Count) /\ seq' = seq + 1
      BY <1>4 DEF ReadReply, Advance
    <2>6. began' = now /\ UNCHANGED <<tv, flying, now, raced, strays>>
      BY <1>4 DEF ReadReply, Advance
    <2>7. seq' \in 1 .. Count + 1 /\ (pc' = "send" => seq' \in Requests)
      BY <2>1, <2>5
    <2> QED BY <2>2, <2>4, <2>5, <2>6, <2>7 DEF Outcome
  <1>5. CASE ReadTimeout
    <2>1. lines' = Append(lines, Line(Star, 0, 0)) /\ pc = "read"
      BY <1>5 DEF ReadTimeout
    <2>2. Line(Star, 0, 0) \in Outcome
      BY DEF Line, Star, Outcome
    <2>3. lines' \in Seq(Outcome) /\ Len(lines') = Len(lines) + 1
      BY <2>1, <2>2, Append1 DEF Outcome
    <2>4. pc' \in {"send", "done"} /\ (pc' = "send" => seq # Count) /\ seq' = seq + 1
      BY <1>5 DEF ReadTimeout, Advance
    <2>5. began' = now /\ UNCHANGED <<tv, flying, buf, now, raced, strays>>
      BY <1>5 DEF ReadTimeout, Advance
    <2> QED BY <2>1, <2>3, <2>4, <2>5 DEF Outcome
  <1>6. CASE CaptureStray
    <2>1. [of |-> Stray, ts |-> now] \in Captured
      BY DEF Captured
    <2>2. buf' \in Seq(Captured)
      BY <1>6, <2>1, Append1 DEF CaptureStray, Capture
    <2> QED BY <1>6, <2>2 DEF CaptureStray, Capture
  <1>7. ASSUME NEW k \in Requests, CaptureReply(k) PROVE TypeOK' /\ Numbered'
    <2>1. [of |-> k, ts |-> now] \in Captured
      BY DEF Captured
    <2>2. buf' \in Seq(Captured)
      BY <1>7, <2>1, Append1 DEF CaptureReply, Capture
    <2> QED BY <1>7, <2>2 DEF CaptureReply, Capture
  <1>8. ASSUME NEW k \in Requests, Lose(k) PROVE TypeOK' /\ Numbered'
    BY <1>8 DEF Lose
  <1>9. CASE UNCHANGED vars
    BY <1>9 DEF vars
  <1> QED BY <1>1, <1>2, <1>3, <1>4, <1>5, <1>6, <1>7, <1>8, <1>9 DEF Next, Program

-----------------------------------------------------------------------------
(* The reply that is shown. *)

LEMMA MissesGrow ==
    ASSUME NEW ls \in Seq(Outcome), NEW e \in Outcome
    PROVE  Misses(Append(ls, e)) =
              Misses(ls) \cup (IF e.of \in {Star, Stray} THEN {Len(ls) + 1} ELSE {})
  BY Append1 DEF Misses

\* A line is added, which is a miss, or the reply to seq, or comes after a miss.
LEMMA LineAdded ==
    ASSUME IInv, NEW e \in Outcome, lines' = Append(lines, e),
           e.of \in {Star, Stray} \/ e.of = seq \/ Misses(lines) # {}
    PROVE  /\ WrongReplyNeedsMiss'
           /\ Misses(lines') = {} =>
                 /\ Misses(lines) = {} /\ e.of = seq
                 /\ \A k \in DOMAIN lines' : lines'[k].of = k
  <1> DEFINE n == Len(lines) + 1
  <1>1. lines \in Seq(Outcome) /\ seq = n
    BY DEF IInv, TypeOK, Numbered, Outcome
  <1>2. Misses(lines') = Misses(lines) \cup (IF e.of \in {Star, Stray} THEN {n} ELSE {})
    BY <1>1, MissesGrow
  <1>3. /\ DOMAIN lines' = DOMAIN lines \cup {n} /\ lines'[n] = e
        /\ \A i \in DOMAIN lines : lines'[i] = lines[i]
    BY <1>1, Append1
  <1>4. \A i \in Misses(lines) : i < n
    BY <1>1 DEF Misses
  <1>5. WrongReplyNeedsMiss'
    <2>1. SUFFICES ASSUME NEW k \in DOMAIN lines', lines'[k].of \in Requests \ {k}
                   PROVE  \E i \in Misses(lines') : i < k
      BY DEF WrongReplyNeedsMiss
    <2>2. CASE k \in DOMAIN lines
      BY <2>1, <2>2, <1>2, <1>3 DEF IInv, WrongReplyNeedsMiss
    <2>3. CASE k = n
      <3>1. e.of \in Requests \ {n}
        BY <2>1, <2>3, <1>3
      <3>2. e.of \notin {Star, Stray}
        BY <3>1, PingAssumption DEF Requests, Star, Stray
      <3>3. Misses(lines) # {}
        BY <3>1, <3>2, <1>1
      <3> QED BY <3>3, <2>3, <1>2, <1>4
    <2> QED BY <2>2, <2>3, <1>3
  <1>6. ASSUME Misses(lines') = {}
        PROVE  /\ Misses(lines) = {} /\ e.of = seq
               /\ \A k \in DOMAIN lines' : lines'[k].of = k
    <2>1. Misses(lines) = {} /\ e.of \notin {Star, Stray}
      BY <1>2, <1>6
    <2>2. e.of = seq
      BY <2>1
    <2>3. \A k \in DOMAIN lines : lines[k].of = k
      BY <2>1 DEF IInv, OwnReplies
    <2> QED BY <2>1, <2>2, <2>3, <1>1, <1>3
  <1> QED BY <1>5, <1>6

LEMMA StepReplies ==
    IInv /\ [Next]_vars => OwnReplies' /\ WrongReplyNeedsMiss'
  <1> SUFFICES ASSUME IInv, [Next]_vars PROVE OwnReplies' /\ WrongReplyNeedsMiss'
    OBVIOUS
  <1>a. /\ lines \in Seq(Outcome) /\ buf \in Seq(Captured)
        /\ seq \in Nat /\ pc \in {"send", "timer", "read", "done", "failed"}
        /\ seq # Stray /\ seq # Star
    BY PingAssumption DEF IInv, TypeOK, Outcome, Stray, Star
  <1>b. ASSUME lines' = lines PROVE WrongReplyNeedsMiss'
    BY <1>b DEF IInv, WrongReplyNeedsMiss, Misses
  <1>c. ASSUME lines' = lines, OnlyOwnReply => OnlyOwnReply' PROVE OwnReplies'
    BY <1>c DEF IInv, OwnReplies, Misses
  <1>1. CASE SendRequest
    <2>1. OnlyOwnReply => OnlyOwnReply'
      BY <1>1, <1>a DEF SendRequest, OnlyOwnReply
    <2> QED BY <1>1, <2>1, <1>b, <1>c DEF SendRequest
  <1>2. CASE SendFails
    <2>1. OnlyOwnReply => OnlyOwnReply'
      BY <1>2 DEF SendFails, OnlyOwnReply
    <2> QED BY <1>2, <2>1, <1>b, <1>c DEF SendFails
  <1>3. CASE StartTimer
    <2>1. OnlyOwnReply => OnlyOwnReply'
      BY <1>3 DEF StartTimer, OnlyOwnReply
    <2> QED BY <1>3, <2>1, <1>b, <1>c DEF StartTimer
  <1>4. CASE ReadReply
    <2>1. /\ lines' = Append(lines, Reply1) /\ buf' = Tail(buf) /\ buf # <<>>
          /\ pc' \notin {"timer", "read"} /\ flying' = flying
      BY <1>4 DEF ReadReply, Reply1, Advance
    <2>2. Head(buf) \in Captured /\ 1 \in DOMAIN buf /\ Head(buf) = buf[1]
      BY <2>1, <1>a, Tail1
    <2>3. Reply1 \in Outcome /\ Reply1.of = buf[1].of
      BY <2>2, ReplyShown DEF IInv
    <2>4. Reply1.of \in {Star, Stray} \/ Reply1.of = seq \/ Misses(lines) # {}
      BY <2>2, <2>3 DEF IInv, OwnReplies, OnlyOwnReply
    <2>5. WrongReplyNeedsMiss'
      BY <2>1, <2>3, <2>4, LineAdded
    <2>6. ASSUME Misses(lines') = {} PROVE OnlyOwnReply'
      <3>1. OnlyOwnReply /\ buf[1].of = seq
        BY <2>6, <2>1, <2>3, <2>4, LineAdded DEF IInv, OwnReplies
      <3>2. flying = {} /\ \A i \in DOMAIN buf : i = 1 \/ buf[i].of = Stray
        BY <3>1, <2>2 DEF OnlyOwnReply
      <3>3. \A i \in DOMAIN buf' : buf'[i].of = Stray
        <4>1. \A i \in DOMAIN buf' : i \in 1 .. Len(buf')
          BY <2>1, <1>a
        <4>2. \A i \in DOMAIN buf' : i + 1 \in DOMAIN buf /\ i + 1 # 1 /\ buf'[i] = buf[i + 1]
          BY <2>1, <1>a, <4>1, Tail1
        <4> QED BY <3>2, <4>2
      <3> QED BY <3>2, <3>3, <2>1, <1>4, <1>a DEF ReadReply, Advance, OnlyOwnReply, Stray
    <2>7. OwnReplies'
      BY <2>1, <2>3, <2>4, <2>6, LineAdded DEF OwnReplies
    <2> QED BY <2>5, <2>7
  <1>5. CASE ReadTimeout
    <2>1. lines' = Append(lines, Line(Star, 0, 0))
      BY <1>5 DEF ReadTimeout
    <2>2. Line(Star, 0, 0) \in Outcome /\ Line(Star, 0, 0).of = Star
      BY DEF Line, Star, Outcome
    <2>3. WrongReplyNeedsMiss' /\ Misses(lines') # {}
      BY <2>1, <2>2, <1>a, LineAdded
    <2> QED BY <2>3 DEF OwnReplies
  <1>6. CASE CaptureStray
    <2>1. buf' = Append(buf, [of |-> Stray, ts |-> now]) /\ UNCHANGED <<pc, seq, flying, lines>>
      BY <1>6 DEF CaptureStray, Capture
    <2>2. [of |-> Stray, ts |-> now] \in Captured
      BY DEF IInv, TypeOK, Captured
    <2>3. /\ DOMAIN buf' = DOMAIN buf \cup {Len(buf) + 1} /\ buf'[Len(buf) + 1].of = Stray
          /\ \A i \in DOMAIN buf : buf'[i] = buf[i]
      BY <2>1, <2>2, <1>a, Append1
    <2>4. OnlyOwnReply => OnlyOwnReply'
      BY <2>1, <2>3, <1>a DEF OnlyOwnReply
    <2> QED BY <2>1, <2>4, <1>b, <1>c
  <1>7. ASSUME NEW k \in Requests, CaptureReply(k) PROVE OwnReplies' /\ WrongReplyNeedsMiss'
    <2>1. /\ buf' = Append(buf, [of |-> k, ts |-> now]) /\ UNCHANGED <<pc, seq, lines>>
          /\ k \in flying /\ flying' = flying \ {k}
      BY <1>7 DEF CaptureReply, Capture
    <2>2. [of |-> k, ts |-> now] \in Captured
      BY DEF IInv, TypeOK, Captured
    <2>3. /\ DOMAIN buf' = DOMAIN buf \cup {Len(buf) + 1} /\ buf'[Len(buf) + 1].of = k
          /\ \A i \in DOMAIN buf : buf'[i] = buf[i]
      BY <2>1, <2>2, <1>a, Append1
    <2>4. OnlyOwnReply => OnlyOwnReply'
      <3> SUFFICES ASSUME OnlyOwnReply PROVE OnlyOwnReply'
        OBVIOUS
      <3>1. k = seq /\ flying' = {} /\ pc \in {"timer", "read"}
        BY <2>1, <1>a DEF OnlyOwnReply
      <3>2. \A i \in DOMAIN buf : buf[i].of = Stray
        BY <2>1, <3>1 DEF OnlyOwnReply
      <3> QED BY <2>1, <2>3, <3>1, <3>2, <1>a DEF OnlyOwnReply
    <2> QED BY <2>1, <2>4, <1>b, <1>c
  <1>8. ASSUME NEW k \in Requests, Lose(k) PROVE OwnReplies' /\ WrongReplyNeedsMiss'
    <2>1. OnlyOwnReply => OnlyOwnReply'
      BY <1>8 DEF Lose, OnlyOwnReply
    <2> QED BY <1>8, <2>1, <1>b, <1>c DEF Lose
  <1>9. CASE UNCHANGED vars
    <2>1. OnlyOwnReply => OnlyOwnReply'
      BY <1>9 DEF vars, OnlyOwnReply
    <2> QED BY <1>9, <2>1, <1>b, <1>c DEF vars
  <1> QED BY <1>1, <1>2, <1>3, <1>4, <1>5, <1>6, <1>7, <1>8, <1>9 DEF Next, Program
-----------------------------------------------------------------------------
(* The time that is shown. *)

LEMMA StepTimer == IInv /\ [Next]_vars => TimerReset'
  <1> SUFFICES ASSUME IInv, [Next]_vars PROVE TimerReset'
    OBVIOUS
  <1> USE DEF IInv, TypeOK, TimerReset
  <1>1. CASE SendRequest
    BY <1>1 DEF SendRequest
  <1>2. CASE SendFails
    BY <1>2 DEF SendFails
  <1>3. CASE StartTimer
    BY <1>3 DEF StartTimer
  <1>4. CASE ReadReply
    BY <1>4 DEF ReadReply, Advance
  <1>5. CASE ReadTimeout
    BY <1>5 DEF ReadTimeout, Advance
  <1>6. CASE CaptureStray
    BY <1>6 DEF CaptureStray, Capture
  <1>7. ASSUME NEW k \in Requests, CaptureReply(k) PROVE TimerReset'
    BY <1>7 DEF CaptureReply, Capture
  <1>8. ASSUME NEW k \in Requests, Lose(k) PROVE TimerReset'
    BY <1>8 DEF Lose
  <1>9. CASE UNCHANGED vars
    BY <1>9 DEF vars
  <1> QED BY <1>1, <1>2, <1>3, <1>4, <1>5, <1>6, <1>7, <1>8, <1>9 DEF Next, Program

\* A line is added whose time is right, and the others keep theirs.
LEMMA TimedLineAdded ==
    ASSUME IInv, NEW e \in Outcome, lines' = Append(lines, e), raced \subseteq raced',
           e.of \in Requests =>
              /\ e.time <= e.span
              /\ e.time < 0 => seq \in raced \/ Misses(lines) # {}
    PROVE  TimedInItsRound'
  <1> DEFINE n == Len(lines) + 1
  <1>1. lines \in Seq(Outcome) /\ seq = n
    BY DEF IInv, TypeOK, Numbered, Outcome
  <1>2. Misses(lines') = Misses(lines) \cup (IF e.of \in {Star, Stray} THEN {n} ELSE {})
    BY <1>1, MissesGrow
  <1>3. /\ DOMAIN lines' = DOMAIN lines \cup {n} /\ lines'[n] = e
        /\ \A i \in DOMAIN lines : lines'[i] = lines[i]
    BY <1>1, Append1
  <1>4. \A i \in Misses(lines) : i < n
    BY <1>1 DEF Misses
  <1> SUFFICES ASSUME NEW k \in DOMAIN lines', lines'[k].of \in Requests
               PROVE  /\ lines'[k].time <= lines'[k].span
                      /\ lines'[k].time < 0 =>
                            k \in raced' \/ \E i \in Misses(lines') : i < k
    BY DEF TimedInItsRound
  <1>5. CASE k \in DOMAIN lines
    BY <1>5, <1>2, <1>3 DEF IInv, TimedInItsRound
  <1>6. CASE k = n
    BY <1>6, <1>1, <1>2, <1>3, <1>4
  <1> QED BY <1>3, <1>5, <1>6

LEMMA StepTimes == IInv /\ [Next]_vars => TimedInItsRound'
  <1> SUFFICES ASSUME IInv, [Next]_vars PROVE TimedInItsRound'
    OBVIOUS
  <1>a. ASSUME lines' = lines, raced \subseteq raced' PROVE TimedInItsRound'
    BY <1>a DEF IInv, TimedInItsRound, Misses
  <1>1. CASE SendRequest
    BY <1>1, <1>a DEF SendRequest
  <1>2. CASE SendFails
    BY <1>2, <1>a DEF SendFails
  <1>3. CASE StartTimer
    BY <1>3, <1>a DEF StartTimer
  <1>4. CASE ReadReply
    <2>1. /\ lines' = Append(lines, Reply1) /\ buf # <<>> /\ pc = "read" /\ raced' = raced
      BY <1>4 DEF ReadReply, Reply1
    <2>2. /\ Head(buf) \in Captured /\ 1 \in DOMAIN buf /\ Head(buf) = buf[1]
      BY <2>1, Tail1 DEF IInv, TypeOK
    <2>3. PICK o \in Requests \cup {Stray}, c \in Nat :
             Head(buf).of = o /\ Head(buf).ts = c
      BY <2>2 DEF Captured
    <2>4. Reply1 = Line(o, c - tv, c - began)
      BY <2>3 DEF Reply1
    <2>5. Reply1.of = o /\ Reply1.time = c - tv /\ Reply1.span = c - began
      BY <2>4 DEF Line
    <2>6. tv \in Nat /\ began \in Nat /\ began <= tv
      BY <2>1 DEF IInv, TypeOK, TimerReset
    <2>7. Reply1 \in Outcome
      BY <2>2, ReplyShown DEF IInv
    <2>8. Reply1.time <= Reply1.span
      BY <2>5, <2>6
    <2>9. ASSUME o \in Requests, Misses(lines) = {}, seq \notin raced PROVE ~(c - tv < 0)
      <3>1. o # Stray
        BY <2>9, PingAssumption DEF Requests, Stray
      <3>2. buf[1].of = seq
        BY <3>1, <2>2, <2>3, <2>9 DEF IInv, OwnReplies, OnlyOwnReply
      <3>3. buf[1].ts >= tv
        BY <3>2, <2>2, <2>9 DEF IInv, InTime
      <3> QED BY <3>3, <2>2, <2>3, <2>6
    <2>10. Reply1.of \in Requests =>
             /\ Reply1.time <= Reply1.span
             /\ Reply1.time < 0 => seq \in raced \/ Misses(lines) # {}
      BY <2>5, <2>8, <2>9
    <2> QED BY <2>1, <2>7, <2>10, TimedLineAdded
  <1>5. CASE ReadTimeout
    <2>1. lines' = Append(lines, Line(Star, 0, 0)) /\ raced' = raced
      BY <1>5 DEF ReadTimeout
    <2>2. Line(Star, 0, 0) \in Outcome /\ Line(Star, 0, 0).of \notin Requests
      BY PingAssumption DEF Line, Star, Outcome, Requests
    <2> QED BY <2>1, <2>2, TimedLineAdded
  <1>6. CASE CaptureStray
    BY <1>6, <1>a DEF CaptureStray, Capture
  <1>7. ASSUME NEW k \in Requests, CaptureReply(k) PROVE TimedInItsRound'
    <2>1. lines' = lines /\ raced \subseteq raced'
      BY <1>7 DEF CaptureReply, Capture
    <2> QED BY <2>1, <1>a
  <1>8. ASSUME NEW k \in Requests, Lose(k) PROVE TimedInItsRound'
    BY <1>8, <1>a DEF Lose
  <1>9. CASE UNCHANGED vars
    BY <1>9, <1>a DEF vars
  <1> QED BY <1>1, <1>2, <1>3, <1>4, <1>5, <1>6, <1>7, <1>8, <1>9 DEF Next, Program

LEMMA StepInTime == IInv /\ OwnReplies' /\ [Next]_vars => InTime'
  <1> SUFFICES ASSUME IInv, OwnReplies', [Next]_vars PROVE InTime'
    OBVIOUS
  <1>a. buf \in Seq(Captured) /\ tv \in Nat /\ now \in Nat /\ seq \in Nat /\ seq # Stray
    BY PingAssumption DEF IInv, TypeOK, Stray
  <1>b. ASSUME pc' \notin {"timer", "read"}, seq' # Stray PROVE InTime'
    BY <1>b DEF OwnReplies, OnlyOwnReply, InTime
  <1>1. CASE SendRequest
    <2>1. /\ pc = "send" /\ UNCHANGED <<seq, buf, lines>>
      BY <1>1 DEF SendRequest
    <2>2. Misses(lines) = {} => \A i \in DOMAIN buf : buf[i].of = Stray
      BY <2>1 DEF IInv, OwnReplies, OnlyOwnReply
    <2> QED BY <2>1, <2>2, <1>a DEF InTime, Misses
  <1>2. CASE SendFails
    BY <1>2, <1>a, <1>b DEF SendFails
  <1>3. CASE StartTimer
    <2>1. /\ pc = "timer" /\ UNCHANGED <<seq, buf, lines, raced>>
      BY <1>3 DEF StartTimer
    <2>2. Misses(lines) = {} => \A i \in DOMAIN buf : buf[i].of = seq => seq \in raced
      BY <2>1 DEF IInv, InTime
    <2> QED BY <2>1, <2>2 DEF InTime, Misses
  <1>4. CASE ReadReply
    <2>1. pc' \notin {"timer", "read"} /\ seq' = seq + 1
      BY <1>4 DEF ReadReply, Advance
    <2> QED BY <2>1, <1>a, <1>b DEF Stray
  <1>5. CASE ReadTimeout
    <2>1. pc' \notin {"timer", "read"} /\ seq' = seq + 1
      BY <1>5 DEF ReadTimeout, Advance
    <2> QED BY <2>1, <1>a, <1>b DEF Stray
  <1>6. CASE CaptureStray
    <2>1. /\ buf' = Append(buf, [of |-> Stray, ts |-> now])
          /\ UNCHANGED <<pc, seq, tv, lines, raced>>
      BY <1>6 DEF CaptureStray, Capture
    <2>2. [of |-> Stray, ts |-> now] \in Captured
      BY <1>a DEF Captured
    <2>3. /\ DOMAIN buf' = DOMAIN buf \cup {Len(buf) + 1} /\ buf'[Len(buf) + 1].of = Stray
          /\ \A i \in DOMAIN buf : buf'[i] = buf[i]
      BY <2>1, <2>2, <1>a, Append1
    <2> QED BY <2>1, <2>3, <1>a DEF IInv, InTime, Misses
  <1>7. ASSUME NEW k \in Requests, CaptureReply(k) PROVE InTime'
    <2>1. /\ buf' = Append(buf, [of |-> k, ts |-> now]) /\ UNCHANGED <<pc, seq, tv, lines>>
          /\ k \in flying /\ raced \subseteq raced'
          /\ pc = "timer" /\ k = seq => k \in raced'
      BY <1>7 DEF CaptureReply, Capture
    <2>2. [of |-> k, ts |-> now] \in Captured
      BY <1>a DEF Captured
    <2>3. /\ DOMAIN buf' = DOMAIN buf \cup {Len(buf) + 1}
          /\ buf'[Len(buf) + 1] = [of |-> k, ts |-> now]
          /\ \A i \in DOMAIN buf : buf'[i] = buf[i]
      BY <2>1, <2>2, <1>a, Append1
    <2>4. Misses(lines) = {} => k = seq /\ pc \in {"timer", "read"}
      BY <2>1 DEF IInv, OwnReplies, OnlyOwnReply, TypeOK
    <2>5. pc = "read" => now >= tv
      BY <1>a DEF IInv, TimerReset
    <2>6. SUFFICES ASSUME Misses(lines) = {}, NEW i \in DOMAIN buf',
                          buf'[i].of = seq, seq \notin raced'
                   PROVE  pc = "read" /\ buf'[i].ts >= tv
      BY <2>1 DEF InTime, Misses
    <2>7. CASE i \in DOMAIN buf
      BY <2>1, <2>3, <2>6, <2>7 DEF IInv, InTime
    <2>8. CASE i = Len(buf) + 1
      BY <2>1, <2>3, <2>4, <2>5, <2>6, <2>8
    <2> QED BY <2>3, <2>7, <2>8
  <1>8. ASSUME NEW k \in Requests, Lose(k) PROVE InTime'
    BY <1>8 DEF Lose, IInv, InTime, Misses
  <1>9. CASE UNCHANGED vars
    BY <1>9 DEF vars, IInv, InTime, Misses
  <1> QED BY <1>1, <1>2, <1>3, <1>4, <1>5, <1>6, <1>7, <1>8, <1>9 DEF Next, Program
-----------------------------------------------------------------------------
LEMMA Inductive == Spec => []IInv
  <1>1. IInv /\ [Next]_vars => IInv'
    BY StepTypes, StepTimer, StepReplies, StepTimes, StepInTime DEF IInv
  <1> QED BY <1>1, InitIInv, PTL DEF Spec

\* The types hold, and the requests are numbered 1 to Count, for every Count.
THEOREM Types == Spec => []TypeOK
  <1>1. IInv => TypeOK
    BY DEF IInv
  <1> QED BY <1>1, Inductive, PTL

\* However many strays are captured, a line shows the reply to another request
\* only after a miss (pcap_get_reply() checks neither id nor sequence number).
THEOREM WrongReply == Spec => []WrongReplyNeedsMiss
  <1>1. IInv => WrongReplyNeedsMiss
    BY DEF IInv
  <1> QED BY <1>1, Inductive, PTL

\* The time of a line is not longer than the request's own round, and negative
\* only after a miss or when the reply was faster than the gettimeofday() that
\* follows sendto(): for every Count and whatever is lost or late.
THEOREM TimesAreTheRounds == Spec => []TimedInItsRound
  <1>1. IInv => TimedInItsRound
    BY DEF IInv
  <1> QED BY <1>1, Inductive, PTL
-----------------------------------------------------------------------------
(* What is left unshown. *)

Owed == Cardinality(flying) + Cardinality(Replies(buf))

\* Each reply that no line has shown is paid for by a miss; while a request is
\* on its way to its own line there may be one more.
Paid ==
    /\ pc \in {"timer", "read"} => Owed <= Cardinality(Misses(lines)) + 1
    /\ pc \notin {"timer", "read"} => Owed <= Cardinality(Misses(lines))

LEMMA Finite ==
    ASSUME TypeOK
    PROVE  /\ IsFiniteSet(flying) /\ Cardinality(flying) \in Nat
           /\ IsFiniteSet(Replies(buf)) /\ Cardinality(Replies(buf)) \in Nat
           /\ IsFiniteSet(Misses(lines)) /\ Cardinality(Misses(lines)) \in Nat
  <1>1. IsFiniteSet(Requests) /\ flying \in SUBSET Requests
    BY PingAssumption, FS_Interval DEF TypeOK, Requests
  <1>2. buf \in Seq(Captured) /\ lines \in Seq(Outcome)
    BY DEF TypeOK, Outcome
  <1>3. Replies(buf) \in SUBSET (1 .. Len(buf)) /\ Len(buf) \in Nat
    BY <1>2 DEF Replies
  <1>4. Misses(lines) \in SUBSET (1 .. Len(lines)) /\ Len(lines) \in Nat
    BY <1>2 DEF Misses
  <1>5. IsFiniteSet(1 .. Len(buf)) /\ IsFiniteSet(1 .. Len(lines))
    BY <1>3, <1>4, FS_Interval
  <1>6. IsFiniteSet(flying)
    BY <1>1, FS_Subset
  <1>7. IsFiniteSet(Replies(buf))
    BY <1>3, <1>5, FS_Subset
  <1>8. IsFiniteSet(Misses(lines))
    BY <1>4, <1>5, FS_Subset
  <1> QED BY <1>6, <1>7, <1>8, FS_CardinalityType

LEMMA RepliesAppended ==
    ASSUME NEW b \in Seq(Captured), NEW r \in Captured, IsFiniteSet(Replies(b))
    PROVE  Cardinality(Replies(Append(b, r))) =
              Cardinality(Replies(b)) + (IF r.of = Stray THEN 0 ELSE 1)
  <1>1. Replies(Append(b, r)) =
           Replies(b) \cup (IF r.of = Stray THEN {} ELSE {Len(b) + 1})
    BY Append1 DEF Replies
  <1>2. Len(b) + 1 \notin Replies(b)
    BY Append1 DEF Replies
  <1>3. CASE r.of = Stray
    <2>1. Replies(Append(b, r)) = Replies(b)
      BY <1>1, <1>3
    <2>2. Cardinality(Replies(b)) \in Nat
      BY FS_CardinalityType
    <2> QED BY <1>3, <2>1, <2>2
  <1>4. CASE r.of # Stray
    <2>1. Replies(Append(b, r)) = Replies(b) \cup {Len(b) + 1}
      BY <1>1, <1>4
    <2>2. Cardinality(Replies(b) \cup {Len(b) + 1}) = Cardinality(Replies(b)) + 1
      BY <1>2, FS_AddElement
    <2> QED BY <1>4, <2>1, <2>2
  <1> QED BY <1>3, <1>4

\* What is left in the buffer has moved up by one place.
LEMMA RepliesTaken ==
    ASSUME NEW b \in Seq(Captured), b # <<>>, IsFiniteSet(Replies(b))
    PROVE  Cardinality(Replies(Tail(b))) =
              Cardinality(Replies(b)) - (IF Head(b).of = Stray THEN 0 ELSE 1)
  <1> DEFINE S == Replies(b) \ {1}
             T == Replies(Tail(b))
             f == [i \in S |-> i - 1]
  <1>1. /\ DOMAIN b = 1 .. Len(b) /\ Len(b) \in Nat \ {0}
        /\ DOMAIN Tail(b) = 1 .. Len(b) - 1
        /\ \A i \in 1 .. Len(b) - 1 : Tail(b)[i] = b[i + 1]
        /\ Head(b) = b[1]
    OBVIOUS
  <1>2. \A i : i \in T <=> i \in 1 .. Len(b) - 1 /\ b[i + 1].of # Stray
    BY <1>1 DEF Replies
  <1>3. \A i : i \in S <=> i \in 2 .. Len(b) /\ b[i].of # Stray
    BY <1>1 DEF Replies
  <1> HIDE DEF S, T
  <1>4. \A i \in S : i \in 2 .. Len(b) /\ i - 1 \in 1 .. Len(b) - 1 /\ (i - 1) + 1 = i
    BY <1>1, <1>3
  <1>5. f \in [S -> T]
    BY <1>2, <1>3, <1>4
  <1>6. \A i, j \in S : f[i] = f[j] => i = j
    BY <1>4
  <1>7. \A t \in T : \E i \in S : f[i] = t
    <2> SUFFICES ASSUME NEW t \in T PROVE \E i \in S : f[i] = t
      OBVIOUS
    <2>1. t \in 1 .. Len(b) - 1 /\ b[t + 1].of # Stray
      BY <1>2
    <2>2. t + 1 \in 2 .. Len(b) /\ (t + 1) - 1 = t
      BY <2>1, <1>1
    <2>3. t + 1 \in S
      BY <2>1, <2>2, <1>3
    <2> QED BY <2>2, <2>3
  <1>8. ExistsBijection(S, T)
    BY <1>5, <1>6, <1>7
    DEF ExistsBijection, Bijection, Injection, Surjection, IsInjective
  <1>9. IsFiniteSet(S)
        /\ Cardinality(S) = IF 1 \in Replies(b) THEN Cardinality(Replies(b)) - 1
                                                ELSE Cardinality(Replies(b))
    BY FS_RemoveElement DEF S
  <1>10. Cardinality(T) = Cardinality(S)
    BY <1>8, <1>9, FS_Bijection
  <1>11. 1 \in Replies(b) <=> Head(b).of # Stray
    BY <1>1 DEF Replies
  <1>12. Cardinality(Replies(b)) \in Nat
    BY FS_CardinalityType
  <1> QED BY <1>9, <1>10, <1>11, <1>12 DEF T

LEMMA MissesCounted ==
    ASSUME TypeOK, NEW e \in Outcome, lines' = Append(lines, e)
    PROVE  Cardinality(Misses(lines')) =
              Cardinality(Misses(lines)) + (IF e.of \in {Star, Stray} THEN 1 ELSE 0)
  <1>1. lines \in Seq(Outcome) /\ Len(lines) \in Nat
    BY DEF TypeOK, Outcome
  <1>2. Misses(lines') =
           Misses(lines) \cup (IF e.of \in {Star, Stray} THEN {Len(lines) + 1} ELSE {})
    BY <1>1, MissesGrow
  <1>3. Len(lines) + 1 \notin Misses(lines)
    BY <1>1, Append1 DEF Misses
  <1>4. IsFiniteSet(Misses(lines)) /\ Cardinality(Misses(lines)) \in Nat
    BY Finite
  <1>5. CASE e.of \in {Star, Stray}
    <2>1. Misses(lines') = Misses(lines) \cup {Len(lines) + 1}
      BY <1>2, <1>5
    <2>2. Cardinality(Misses(lines) \cup {Len(lines) + 1}) = Cardinality(Misses(lines)) + 1
      BY <1>3, <1>4, FS_AddElement
    <2> QED BY <1>5, <2>1, <2>2
  <1>6. CASE e.of \notin {Star, Stray}
    <2>1. Misses(lines') = Misses(lines)
      BY <1>2, <1>6
    <2> QED BY <1>4, <1>6, <2>1
  <1> QED BY <1>5, <1>6

LEMMA StepPaid == IInv /\ Paid /\ [Next]_vars => Paid'
  <1> SUFFICES ASSUME IInv, Paid, [Next]_vars PROVE Paid'
    OBVIOUS
  <1>a. /\ IsFiniteSet(flying) /\ Cardinality(flying) \in Nat
        /\ IsFiniteSet(Replies(buf)) /\ Cardinality(Replies(buf)) \in Nat
        /\ Cardinality(Misses(lines)) \in Nat
    BY Finite DEF IInv
  <1>b. buf \in Seq(Captured)
    BY DEF IInv, TypeOK
  <1>1. CASE SendRequest
    <2>1. /\ pc = "send" /\ pc' = "timer" /\ flying' = flying \cup {seq}
          /\ UNCHANGED <<buf, lines>>
      BY <1>1 DEF SendRequest
    <2>2. Cardinality(flying') \in {Cardinality(flying), Cardinality(flying) + 1}
      BY <2>1, <1>a, FS_AddElement
    <2> QED BY <2>1, <2>2, <1>a DEF Paid, Owed
  <1>2. CASE SendFails
    BY <1>2 DEF SendFails, Paid, Owed
  <1>3. CASE StartTimer
    BY <1>3 DEF StartTimer, Paid, Owed
  <1>4. CASE ReadReply
    <2>1. /\ lines' = Append(lines, Reply1) /\ buf' = Tail(buf) /\ buf # <<>>
          /\ pc = "read" /\ pc' \notin {"timer", "read"} /\ flying' = flying
      BY <1>4 DEF ReadReply, Reply1, Advance
    <2>2. Head(buf) \in Captured
      BY <2>1, <1>b, Tail1
    <2>3. Reply1 \in Outcome /\ Reply1.of = Head(buf).of
      BY <2>2, ReplyShown DEF IInv
    <2>4. Reply1.of \in {Star, Stray} <=> Head(buf).of = Stray
      BY <2>2, <2>3, PingAssumption DEF Captured, Requests, Star, Stray
    <2>5. Cardinality(Misses(lines')) =
             Cardinality(Misses(lines)) + (IF Reply1.of \in {Star, Stray} THEN 1 ELSE 0)
      BY <2>1, <2>3, MissesCounted DEF IInv
    <2>6. Cardinality(Replies(buf')) =
             Cardinality(Replies(buf)) - (IF Head(buf).of = Stray THEN 0 ELSE 1)
      BY <2>1, <1>a, <1>b, RepliesTaken
    <2>7. Owed <= Cardinality(Misses(lines)) + 1
      BY <2>1 DEF Paid
    <2>8. Owed' <= Cardinality(Misses(lines'))
      BY <2>1, <2>4, <2>5, <2>6, <2>7, <1>a DEF Owed
    <2> QED BY <2>1, <2>8 DEF Paid
  <1>5. CASE ReadTimeout
    <2>1. /\ lines' = Append(lines, Line(Star, 0, 0)) /\ pc = "read"
          /\ pc' \notin {"timer", "read"} /\ UNCHANGED <<flying, buf>>
      BY <1>5 DEF ReadTimeout, Advance
    <2>2. Line(Star, 0, 0) \in Outcome /\ Line(Star, 0, 0).of = Star
      BY DEF Line, Star, Outcome
    <2>3. Cardinality(Misses(lines')) = Cardinality(Misses(lines)) + 1
      BY <2>1, <2>2, MissesCounted DEF IInv
    <2> QED BY <2>1, <2>3, <1>a DEF Paid, Owed
  <1>6. CASE CaptureStray
    <2>1. buf' = Append(buf, [of |-> Stray, ts |-> now]) /\ UNCHANGED <<pc, flying, lines>>
      BY <1>6 DEF CaptureStray, Capture
    <2>2. [of |-> Stray, ts |-> now] \in Captured
      BY DEF IInv, TypeOK, Captured
    <2>3. Cardinality(Replies(buf')) = Cardinality(Replies(buf)) + 0
      BY <2>1, <2>2, <1>a, <1>b, RepliesAppended
    <2> QED BY <2>1, <2>3, <1>a DEF Paid, Owed
  <1>7. ASSUME NEW k \in Requests, CaptureReply(k) PROVE Paid'
    <2>1. /\ buf' = Append(buf, [of |-> k, ts |-> now]) /\ UNCHANGED <<pc, lines>>
          /\ k \in flying /\ flying' = flying \ {k}
      BY <1>7 DEF CaptureReply, Capture
    <2>2. [of |-> k, ts |-> now] \in Captured /\ k # Stray
      BY PingAssumption DEF IInv, TypeOK, Captured, Requests, Stray
    <2>3. Cardinality(Replies(buf')) = Cardinality(Replies(buf)) + 1
      BY <2>1, <2>2, <1>a, <1>b, RepliesAppended
    <2>4. Cardinality(flying') = Cardinality(flying) - 1
      BY <2>1, <1>a, FS_RemoveElement
    <2> QED BY <2>1, <2>3, <2>4, <1>a DEF Paid, Owed
  <1>8. ASSUME NEW k \in Requests, Lose(k) PROVE Paid'
    <2>1. flying' = flying \ {k} /\ k \in flying /\ UNCHANGED <<pc, buf, lines>>
      BY <1>8 DEF Lose
    <2>2. Cardinality(flying') = Cardinality(flying) - 1
      BY <2>1, <1>a, FS_RemoveElement
    <2> QED BY <2>1, <2>2, <1>a DEF Paid, Owed
  <1>9. CASE UNCHANGED vars
    BY <1>9 DEF vars, Paid, Owed
  <1> QED BY <1>1, <1>2, <1>3, <1>4, <1>5, <1>6, <1>7, <1>8, <1>9 DEF Next, Program

\* Between two requests, the replies that no line has shown are no more than the
\* lines without a reply to one of the program's own requests: none is left in
\* pcap's buffer for no reason.
THEOREM UnshownArePaid == Spec => []UnshownNeedMisses
  <1>1. Init => Paid
    <2> SUFFICES ASSUME Init PROVE Paid
      OBVIOUS
    <2>1. flying = {} /\ Replies(buf) = {} /\ pc \in {"send", "done"}
      BY DEF Init, Replies
    <2>2. TypeOK
      BY InitIInv DEF IInv
    <2>3. Cardinality(Misses(lines)) \in Nat
      BY <2>2, Finite
    <2> QED BY <2>1, <2>3, FS_EmptySet DEF Paid, Owed
  <1>2. Paid => UnshownNeedMisses
    BY DEF Paid, Owed, UnshownNeedMisses
  <1> QED BY <1>1, <1>2, InitIInv, StepPaid, Inductive, PTL DEF Spec

=============================================================================

----------------------------- MODULE ArpProofs -----------------------------
(***************************************************************************)
(* What holds of Arp for any number of processes and any trouble: who      *)
(* keeps the mode on and who may take it off another, which flags written  *)
(* back are old, and why a listener misses a frame.                        *)
(***************************************************************************)
EXTENDS Arp, FiniteSetTheorems, TLAPS

Places == Before \cup Holding \cup After

ProcTypes ==
    /\ flags \in SUBSET Flags
    /\ pc \in [Procs -> Places]
    /\ req \in [Procs -> SUBSET Flags]
    /\ snapshot \in [Procs -> {"fresh", "stale", "wrote"}]
    /\ missed \in SUBSET Procs
    /\ adminUp \in BOOLEAN

\* Unless stale flags have been written, those that are not stale, and the
\* interface's own, have UP as the administrator has set it.
FreshFlags ==
    \/ \E p \in Procs : snapshot[p] = "wrote"
    \/ /\ "UP" \in flags <=> adminUp
       /\ \A p \in Procs : snapshot[p] = "fresh" => ("UP" \in req[p] <=> adminUp)

\* While the administrator has not moved the interface nobody has it down, nor
\* has read that it is.
StaysUp ==
    No("move") =>
        /\ "UP" \in flags
        /\ \A p \in Procs : pc[p] \in Places \ {"off", "get1", "early"} => "UP" \in req[p]

IInv == ProcTypes /\ PromiscHeld /\ DeafOnlyByOther /\ FreshFlags /\ StaysUp /\ NothingMissed

LEMMA TroubleStays ==
    ASSUME NEW kind, Trouble(kind)
    PROVE  /\ kind # "move" => (No("move")' => No("move"))
           /\ kind = "move" => ~No("move")'
  BY DEF Trouble, No, BagIn, BagToSet, SetToBag, (+)

LEMMA InitIInv == Init => IInv
  BY DEF Init, IInv, ProcTypes, Places, Before, Holding, After, Flags, PromiscHeld,
         DeafOnlyByOther, FreshFlags, StaysUp, NothingMissed

\* Who misses a frame when it is sent.
LEMMA TransmitMisses ==
    ASSUME IInv, NEW f, Transmit(f)
    PROVE  /\ missed' \in SUBSET Procs
           /\ \A p \in missed' : ~No("move") \/ \E q \in Procs \ {p} : pc[q] \in After
  <1>1. CASE Passes(f)
    BY <1>1 DEF Transmit, IInv, ProcTypes, NothingMissed
  <1>2. CASE ~Passes(f)
    <2>1. missed' = missed \cup {p \in Procs : IsFor(f, p)}
      BY <1>2 DEF Transmit
    <2>2. ASSUME NEW p \in Procs, IsFor(f, p), No("move")
          PROVE  \E q \in Procs \ {p} : pc[q] \in After
      <3>1. "PROMISC" \notin flags
        BY <1>2, <2>2 DEF Passes, IInv, StaysUp
      <3>2. pc[p] \in Holding \ {"lost"}
        BY <2>2 DEF IsFor, Reads, Ended
      <3> QED BY <3>1, <3>2 DEF IInv, DeafOnlyByOther
    <2> QED BY <2>1, <2>2 DEF IInv, ProcTypes, NothingMissed
  <1> QED BY <1>1, <1>2

\* The mode is held by one who has set it, and taken off by one who cleans up.
LEMMA StepModes == IInv /\ [Next]_vars => PromiscHeld' /\ DeafOnlyByOther'
  <1> DEFINE Goal == PromiscHeld' /\ DeafOnlyByOther'
  <1> SUFFICES ASSUME IInv, [Next]_vars PROVE Goal
    OBVIOUS
  <1> USE DEF IInv, ProcTypes, Places, Before, Holding, After, Ended, host, procs, frames,
              PromiscHeld, DeafOnlyByOther
  <1>1. ASSUME NEW p \in Procs, Open(p) PROVE Goal
    BY <1>1 DEF Open, Goto
  <1>2. ASSUME NEW p \in Procs, GetFlags(p) PROVE Goal
    BY <1>2 DEF GetFlags, Goto
  <1>3. ASSUME NEW p \in Procs, SetFlags(p) PROVE Goal
    BY <1>3 DEF SetFlags, WriteFlags, Goto
  <1>4. ASSUME NEW p \in Procs, Install(p) PROVE Goal
    BY <1>4 DEF Install, Goto
  <1>5. ASSUME NEW p \in Procs, Args(p) PROVE Goal
    BY <1>5 DEF Args, Goto
  <1>6. ASSUME NEW p \in Procs, ListenAll(p) \/ ListenFiltered(p) PROVE Goal
    BY <1>6 DEF ListenAll, ListenFiltered, Listen, Receive
  <1>7. ASSUME NEW p \in Procs, Ask(p) PROVE Goal
    BY <1>7 DEF Ask, Quit, Goto
  <1>8. ASSUME NEW p \in Procs, Await(p) PROVE Goal
    BY <1>8 DEF Await, Receive, Quit, Goto
  <1>9. ASSUME NEW p \in Procs, MyCleanup(p) PROVE Goal
    BY <1>9 DEF MyCleanup, WriteFlags, Goto
  <1>10. ASSUME NEW p \in Procs, Exit(p) PROVE Goal
    BY <1>10 DEF Exit, Quit, Goto
  <1>11. ASSUME NEW p \in Procs, Die(p) PROVE Goal
    BY <1>11 DEF Die, Quit, Goto
  <1>12. CASE Answer
    BY <1>12 DEF Answer, procs, host
  <1>13. CASE Lose
    BY <1>13 DEF Lose, procs, host
  <1>14. CASE Others
    BY <1>14 DEF Others, procs, host
  <1>15. CASE AdminMove
    BY <1>15 DEF AdminMove, frames
  <1>16. CASE UNCHANGED vars
    BY <1>16 DEF vars, procs, host, frames
  <1> QED BY <1>1, <1>2, <1>3, <1>4, <1>5, <1>6, <1>7, <1>8, <1>9, <1>10, <1>11, <1>12, <1>13,
             <1>14, <1>15, <1>16 DEF Next, Run

\* What is fresh agrees with the administrator.
LEMMA StepFresh == IInv /\ [Next]_vars => FreshFlags'
  <1> DEFINE Goal == FreshFlags'
  <1> SUFFICES ASSUME IInv, [Next]_vars PROVE Goal
    OBVIOUS
  <1> USE DEF IInv, ProcTypes, Places, Before, Holding, After, Ended, host, procs, frames, FreshFlags, Flags
  <1>1. ASSUME NEW p \in Procs, Open(p) PROVE Goal
    BY <1>1 DEF Open, Goto
  <1>2. ASSUME NEW p \in Procs, GetFlags(p) PROVE Goal
    BY <1>2 DEF GetFlags, Goto
  <1>3. ASSUME NEW p \in Procs, SetFlags(p) PROVE Goal
    BY <1>3 DEF SetFlags, WriteFlags, Goto
  <1>4. ASSUME NEW p \in Procs, Install(p) PROVE Goal
    BY <1>4 DEF Install, Goto
  <1>5. ASSUME NEW p \in Procs, Args(p) PROVE Goal
    BY <1>5 DEF Args, Goto
  <1>6. ASSUME NEW p \in Procs, ListenAll(p) \/ ListenFiltered(p) PROVE Goal
    BY <1>6 DEF ListenAll, ListenFiltered, Listen, Receive
  <1>7. ASSUME NEW p \in Procs, Ask(p) PROVE Goal
    BY <1>7 DEF Ask, Quit, Goto
  <1>8. ASSUME NEW p \in Procs, Await(p) PROVE Goal
    BY <1>8 DEF Await, Receive, Quit, Goto
  <1>9. ASSUME NEW p \in Procs, MyCleanup(p) PROVE Goal
    BY <1>9 DEF MyCleanup, WriteFlags, Goto
  <1>10. ASSUME NEW p \in Procs, Exit(p) PROVE Goal
    BY <1>10 DEF Exit, Quit, Goto
  <1>11. ASSUME NEW p \in Procs, Die(p) PROVE Goal
    BY <1>11 DEF Die, Quit, Goto
  <1>12. CASE Answer
    BY <1>12 DEF Answer, procs, host
  <1>13. CASE Lose
    BY <1>13 DEF Lose, procs, host
  <1>14. CASE Others
    BY <1>14 DEF Others, procs, host
  <1>15. CASE AdminMove
    BY <1>15 DEF AdminMove, frames
  <1>16. CASE UNCHANGED vars
    BY <1>16 DEF vars, procs, host, frames
  <1> QED BY <1>1, <1>2, <1>3, <1>4, <1>5, <1>6, <1>7, <1>8, <1>9, <1>10, <1>11, <1>12, <1>13,
             <1>14, <1>15, <1>16 DEF Next, Run

\* Types.
LEMMA StepTypes == IInv /\ [Next]_vars => ProcTypes'
  <1> DEFINE Goal == ProcTypes'
  <1> SUFFICES ASSUME IInv, [Next]_vars PROVE Goal
    OBVIOUS
  <1> USE DEF IInv, ProcTypes, Places, Before, Holding, After, Ended, host, procs, frames, Flags
  <1>1. ASSUME NEW p \in Procs, Open(p) PROVE Goal
    BY <1>1 DEF Open, Goto
  <1>2. ASSUME NEW p \in Procs, GetFlags(p) PROVE Goal
    BY <1>2 DEF GetFlags, Goto
  <1>3. ASSUME NEW p \in Procs, SetFlags(p) PROVE Goal
    BY <1>3 DEF SetFlags, WriteFlags, Goto
  <1>4. ASSUME NEW p \in Procs, Install(p) PROVE Goal
    BY <1>4 DEF Install, Goto
  <1>5. ASSUME NEW p \in Procs, Args(p) PROVE Goal
    BY <1>5 DEF Args, Goto
  <1>6. ASSUME NEW p \in Procs, ListenAll(p) \/ ListenFiltered(p) PROVE Goal
    BY <1>6 DEF ListenAll, ListenFiltered, Listen, Receive
  <1>7. ASSUME NEW p \in Procs, Ask(p) PROVE Goal
    <2>1. missed' \in SUBSET Procs
      BY <1>7, TransmitMisses DEF Ask
    <2> QED BY <1>7, <2>1 DEF Ask, Quit, Goto
  <1>8. ASSUME NEW p \in Procs, Await(p) PROVE Goal
    BY <1>8 DEF Await, Receive, Quit, Goto
  <1>9. ASSUME NEW p \in Procs, MyCleanup(p) PROVE Goal
    BY <1>9 DEF MyCleanup, WriteFlags, Goto
  <1>10. ASSUME NEW p \in Procs, Exit(p) PROVE Goal
    BY <1>10 DEF Exit, Quit, Goto
  <1>11. ASSUME NEW p \in Procs, Die(p) PROVE Goal
    BY <1>11 DEF Die, Quit, Goto
  <1>12. CASE Answer
    BY <1>12, TransmitMisses DEF Answer
  <1>13. CASE Lose
    BY <1>13 DEF Lose, procs, host
  <1>14. CASE Others
    BY <1>14, TransmitMisses DEF Others
  <1>15. CASE AdminMove
    BY <1>15 DEF AdminMove, frames
  <1>16. CASE UNCHANGED vars
    BY <1>16 DEF vars, procs, host, frames
  <1> QED BY <1>1, <1>2, <1>3, <1>4, <1>5, <1>6, <1>7, <1>8, <1>9, <1>10, <1>11, <1>12, <1>13,
             <1>14, <1>15, <1>16 DEF Next, Run

\* Trouble is never forgotten.
LEMMA TroubleKept == [Next]_vars => (No("move")' => No("move"))
  <1> SUFFICES ASSUME [Next]_vars, No("move")' PROVE No("move")
    OBVIOUS
  <1>1. CASE UNCHANGED trouble
    BY <1>1 DEF No
  <1>2. ASSUME NEW kind \in {"loss", "death", "exit", "move"}, Trouble(kind) PROVE No("move")
    BY <1>2, TroubleStays
  <1>3. UNCHANGED trouble \/ \E kind \in {"loss", "death", "exit", "move"} : Trouble(kind)
    BY DEF Next, Run, Open, GetFlags, SetFlags, WriteFlags, Install, Args, ListenAll,
           ListenFiltered, Listen, Receive, Ask, Await, MyCleanup, Exit, Die, Answer, Lose,
           Others, AdminMove, vars
  <1> QED BY <1>1, <1>2, <1>3

\* Nobody takes an interface down that has always been up.
LEMMA StepUp == IInv /\ [Next]_vars => StaysUp'
  <1> DEFINE Goal == StaysUp'
  <1> SUFFICES ASSUME IInv, [Next]_vars PROVE Goal
    OBVIOUS
  <1>0. No("move")' => No("move")
    BY TroubleKept
  <1> USE <1>0 DEF IInv, ProcTypes, Places, Before, Holding, After, Ended, host, procs, frames, Flags, StaysUp
  <1>1. ASSUME NEW p \in Procs, Open(p) PROVE Goal
    BY <1>1 DEF Open, Goto
  <1>2. ASSUME NEW p \in Procs, GetFlags(p) PROVE Goal
    BY <1>2 DEF GetFlags, Goto
  <1>3. ASSUME NEW p \in Procs, SetFlags(p) PROVE Goal
    BY <1>3 DEF SetFlags, WriteFlags, Goto
  <1>4. ASSUME NEW p \in Procs, Install(p) PROVE Goal
    BY <1>4 DEF Install, Goto
  <1>5. ASSUME NEW p \in Procs, Args(p) PROVE Goal
    BY <1>5 DEF Args, Goto
  <1>6. ASSUME NEW p \in Procs, ListenAll(p) \/ ListenFiltered(p) PROVE Goal
    BY <1>6 DEF ListenAll, ListenFiltered, Listen, Receive
  <1>7. ASSUME NEW p \in Procs, Ask(p) PROVE Goal
    BY <1>7 DEF Ask, Quit, Goto
  <1>8. ASSUME NEW p \in Procs, Await(p) PROVE Goal
    BY <1>8 DEF Await, Receive, Quit, Goto
  <1>9. ASSUME NEW p \in Procs, MyCleanup(p) PROVE Goal
    BY <1>9 DEF MyCleanup, WriteFlags, Goto
  <1>10. ASSUME NEW p \in Procs, Exit(p) PROVE Goal
    BY <1>10 DEF Exit, Quit, Goto
  <1>11. ASSUME NEW p \in Procs, Die(p) PROVE Goal
    BY <1>11 DEF Die, Quit, Goto
  <1>12. CASE Answer
    BY <1>12 DEF Answer, procs, host
  <1>13. CASE Lose
    BY <1>13 DEF Lose, procs, host
  <1>14. CASE Others
    BY <1>14 DEF Others, procs, host
  <1>15. CASE AdminMove
    <2>1. ~No("move")'
      BY <1>15, TroubleStays DEF AdminMove
    <2> QED BY <2>1
  <1>16. CASE UNCHANGED vars
    BY <1>16 DEF vars, procs, host, frames
  <1> QED BY <1>1, <1>2, <1>3, <1>4, <1>5, <1>6, <1>7, <1>8, <1>9, <1>10, <1>11, <1>12, <1>13,
             <1>14, <1>15, <1>16 DEF Next, Run

\* Who has cleaned up stays so; and what is read by a listener is printed.
LEMMA StepMissed == IInv /\ [Next]_vars => NothingMissed'
  <1> DEFINE Goal == NothingMissed'
  <1> SUFFICES ASSUME IInv, [Next]_vars PROVE Goal
    OBVIOUS
  <1>0. No("move")' => No("move")
    BY TroubleKept
  <1> USE <1>0 DEF IInv, ProcTypes, Places, Before, Holding, After, Ended, host, procs, frames, NothingMissed
  <1>1. ASSUME NEW p \in Procs, Open(p) PROVE Goal
    BY <1>1 DEF Open, Goto
  <1>2. ASSUME NEW p \in Procs, GetFlags(p) PROVE Goal
    BY <1>2 DEF GetFlags, Goto
  <1>3. ASSUME NEW p \in Procs, SetFlags(p) PROVE Goal
    BY <1>3 DEF SetFlags, WriteFlags, Goto
  <1>4. ASSUME NEW p \in Procs, Install(p) PROVE Goal
    BY <1>4 DEF Install, Goto
  <1>5. ASSUME NEW p \in Procs, Args(p) PROVE Goal
    BY <1>5 DEF Args, Goto
  <1>6. ASSUME NEW p \in Procs, ListenAll(p) \/ ListenFiltered(p) PROVE Goal
    <2>1. UNCHANGED <<pc, missed>>
      <3>1. Filter(Head(queue[p])) <=> Head(queue[p]).owner = "target"
        BY DEF Filter, Tpa, Spa
      <3> QED BY <1>6, <3>1 DEF ListenAll, ListenFiltered, Listen, IsFor
    <2> QED BY <2>1
  <1>7. ASSUME NEW p \in Procs, Ask(p) PROVE Goal
    BY <1>7, TransmitMisses DEF Ask, Quit, Goto
  <1>8. ASSUME NEW p \in Procs, Await(p) PROVE Goal
    BY <1>8 DEF Await, Receive, Quit, Goto
  <1>9. ASSUME NEW p \in Procs, MyCleanup(p) PROVE Goal
    BY <1>9 DEF MyCleanup, WriteFlags, Goto
  <1>10. ASSUME NEW p \in Procs, Exit(p) PROVE Goal
    BY <1>10 DEF Exit, Quit, Goto
  <1>11. ASSUME NEW p \in Procs, Die(p) PROVE Goal
    BY <1>11 DEF Die, Quit, Goto
  <1>12. CASE Answer
    BY <1>12, TransmitMisses DEF Answer, procs
  <1>13. CASE Lose
    BY <1>13 DEF Lose, procs, host
  <1>14. CASE Others
    BY <1>14, TransmitMisses DEF Others, procs
  <1>15. CASE AdminMove
    <2>1. ~No("move")'
      BY <1>15, TroubleStays DEF AdminMove
    <2> QED BY <2>1
  <1>16. CASE UNCHANGED vars
    BY <1>16 DEF vars, procs, host, frames
  <1> QED BY <1>1, <1>2, <1>3, <1>4, <1>5, <1>6, <1>7, <1>8, <1>9, <1>10, <1>11, <1>12, <1>13,
             <1>14, <1>15, <1>16 DEF Next, Run
-----------------------------------------------------------------------------
LEMMA Inductive == Spec => []IInv
  <1>1. IInv /\ [Next]_vars => IInv'
    BY StepTypes, StepModes, StepFresh, StepUp, StepMissed DEF IInv
  <1> QED BY <1>1, InitIInv, PTL DEF Spec

\* For any number of processes: the mode does not outlive those that end through
\* exit(), though each reads and writes back flags the others change.
THEOREM ModeIsHeld == Spec => []PromiscHeld
  <1>1. IInv => PromiscHeld
    BY DEF IInv
  <1> QED BY <1>1, Inductive, PTL

\* For any number of processes, only another one's clean-up takes the mode off a
\* process that still needs it.
THEOREM DeafByOther == Spec => []DeafOnlyByOther
  <1>1. IInv => DeafOnlyByOther
    BY DEF IInv
  <1> QED BY <1>1, Inductive, PTL

\* For any number of processes and moves of the administrator, the interface
\* differs from what he has set only once flags read before have been written back.
THEOREM UpUnlessStale == Spec => []UpAsAdminSet
  <1>1. IInv => UpAsAdminSet
    BY DEF IInv, FreshFlags, UpAsAdminSet, ProcTypes
  <1> QED BY <1>1, Inductive, PTL

\* For any number of processes and any traffic, a listener prints every frame it
\* is for, unless another has cleaned up or the interface has been moved.
THEOREM AllHeard == Spec => []NothingMissed
  <1>1. IInv => NothingMissed
    BY DEF IInv
  <1> QED BY <1>1, Inductive, PTL
-----------------------------------------------------------------------------
\* The processes that are past their question: none of them comes back to it.
Past == {p \in Procs : pc[p] \in {"wait", "clean1", "clean2", "lost", "over"}}

Packets == [op : {"request", "reply"}, asker : Hosts, owner : Hosts]

\* Whatever else is typed, and each question open was asked by one of them.
Rest ==
    /\ mode \in [Procs -> Modes]
    /\ queue \in [Procs -> Seq(Packets)]
    /\ asked \in Nat /\ asked <= Cardinality(Past)
    /\ others \in 0 .. MaxOthers
    /\ IsABag(trouble) /\ BagToSet(trouble) \subseteq Kinds

LEMMA InitRest == Init => Rest
  <1> SUFFICES ASSUME Init PROVE Rest
    OBVIOUS
  <1>1. mode \in [Procs -> Modes] /\ others \in 0 .. MaxOthers
    BY ArpAssumption DEF Init
  <1>2. queue \in [Procs -> Seq(Packets)]
    BY DEF Init
  <1>3. Past = {}
    BY DEF Init, Past
  <1>4. asked \in Nat /\ asked <= Cardinality(Past)
    BY <1>3, FS_EmptySet DEF Init
  <1>5. IsABag(trouble) /\ BagToSet(trouble) \subseteq Kinds
    BY DEF Init, IsABag, BagToSet, EmptyBag, SetToBag
  <1> QED BY <1>1, <1>2, <1>4, <1>5 DEF Rest

\* A step that leaves the past where it is, or adds to it, leaves room for the
\* questions that were open.
LEMMA PastGrows ==
    ASSUME Past \subseteq Past'
    PROVE  /\ Cardinality(Past) \in Nat /\ Cardinality(Past') \in Nat
           /\ Cardinality(Past) <= Cardinality(Past')
  <1>1. Past' \in SUBSET Procs
    BY DEF Past
  <1>2. IsFiniteSet(Past')
    BY <1>1, ArpAssumption, FS_Subset
  <1>3. Past \in SUBSET Past'
    OBVIOUS
  <1>4. IsFiniteSet(Past) /\ Cardinality(Past) <= Cardinality(Past')
    BY <1>2, <1>3, FS_Subset
  <1> QED BY <1>2, <1>4, FS_CardinalityType

\* What a process does takes none back.
LEMMA NoneBack ==
    ASSUME IInv, [Next]_vars
    PROVE  Past \subseteq Past'
  <1> USE DEF Past, IInv, ProcTypes, Places, Before, Holding, After
  <1>1. ASSUME NEW p \in Procs, Open(p) \/ Run(p) \/ Exit(p) \/ Die(p)
        PROVE  Past \subseteq Past'
    <2>1. \/ UNCHANGED pc
          \/ \E place : /\ pc' = [pc EXCEPT ![p] = place]
                        /\ \/ pc[p] \notin {"wait", "clean1", "clean2", "lost", "over"}
                           \/ place \in {"wait", "clean1", "clean2", "lost", "over"}
      <3>1. CASE Open(p) \/ Exit(p)
        BY <3>1 DEF Open, Exit, Quit, Goto
      <3>2. CASE Die(p)
        BY <3>2 DEF Die, Quit, Goto
      <3>3. CASE GetFlags(p) \/ SetFlags(p) \/ Install(p) \/ Args(p)
        BY <3>3 DEF GetFlags, SetFlags, Install, Args, Goto
      <3>4. CASE ListenAll(p) \/ ListenFiltered(p)
        BY <3>4 DEF ListenAll, ListenFiltered, Listen
      <3>5. CASE Ask(p)
        BY <3>5 DEF Ask, Quit, Goto
      <3>6. CASE Await(p)
        BY <3>6 DEF Await, Quit, Goto
      <3>7. CASE MyCleanup(p)
        BY <3>7 DEF MyCleanup, Goto
      <3> QED BY <1>1, <3>1, <3>2, <3>3, <3>4, <3>5, <3>6, <3>7 DEF Run
    <2> QED BY <2>1
  <1>2. CASE Answer \/ Lose \/ Others \/ AdminMove \/ UNCHANGED vars
    BY <1>2 DEF Answer, Lose, Others, AdminMove, vars, procs
  <1> QED BY <1>1, <1>2 DEF Next

\* Each process asks once: one that asks was not among them.
LEMMA AskedOnce ==
    ASSUME IInv, Rest, [Next]_vars
    PROVE  asked' \in Nat /\ asked' <= Cardinality(Past')
  <1>1. /\ Past \subseteq Past'
        /\ Cardinality(Past) \in Nat /\ Cardinality(Past') \in Nat
        /\ Cardinality(Past) <= Cardinality(Past')
    BY NoneBack, PastGrows
  <1>2. asked \in Nat /\ asked <= Cardinality(Past)
    BY DEF Rest
  <1>3. CASE UNCHANGED asked
    BY <1>1, <1>2, <1>3
  <1>4. CASE asked > 0 /\ asked' = asked - 1
    BY <1>1, <1>2, <1>4
  <1>5. ASSUME NEW p \in Procs, Ask(p), ~UNCHANGED asked
        PROVE  asked' \in Nat /\ asked' <= Cardinality(Past')
    <2>1. asked' = asked + 1 /\ pc' = [pc EXCEPT ![p] = "wait"] /\ pc[p] = "ask"
      BY <1>5 DEF Ask, Goto
    <2>2. p \notin Past /\ p \in Past'
      BY <2>1 DEF Past, IInv, ProcTypes
    <2>3. IsFiniteSet(Past) /\ IsFiniteSet(Past')
      <3>1. Past \in SUBSET Procs /\ Past' \in SUBSET Procs
        BY DEF Past
      <3> QED BY <3>1, ArpAssumption, FS_Subset
    <2>4. Cardinality(Past) # Cardinality(Past')
      <3>1. Past \in SUBSET Past' /\ Past # Past'
        BY <1>1, <2>2
      <3> QED BY <2>3, <3>1, FS_Subset
    <2> QED BY <1>1, <1>2, <2>1, <2>4
  <1>6. \/ UNCHANGED asked
        \/ asked > 0 /\ asked' = asked - 1
        \/ \E p \in Procs : Ask(p)
    BY DEF Next, Run, Open, GetFlags, SetFlags, Install, Args, ListenAll,
           ListenFiltered, Listen, Receive, Await, MyCleanup, Exit, Die, Answer, Lose,
           Others, AdminMove, vars, frames
  <1> QED BY <1>3, <1>4, <1>5, <1>6

\* Troubles are counted, and are of the kinds there may be.
LEMMA TroubleTyped ==
    ASSUME Rest, [Next]_vars
    PROVE  IsABag(trouble') /\ BagToSet(trouble') \subseteq Kinds
  <1>1. ASSUME NEW kind, Trouble(kind)
        PROVE  IsABag(trouble') /\ BagToSet(trouble') \subseteq Kinds
    <2>1. kind \in Kinds /\ trouble' = trouble (+) SetToBag({kind})
      BY <1>1 DEF Trouble
    <2>2. /\ DOMAIN trouble' = DOMAIN trouble \cup {kind}
          /\ \A e \in DOMAIN trouble' :
                trouble'[e] = (IF e \in DOMAIN trouble THEN trouble[e] ELSE 0)
                              + (IF e = kind THEN 1 ELSE 0)
          /\ trouble' = [e \in DOMAIN trouble' |-> trouble'[e]]
      BY <2>1 DEF (+), SetToBag
    <2>3. \A e \in DOMAIN trouble : trouble[e] \in Nat /\ trouble[e] > 0
      BY DEF Rest, IsABag
    <2>4. \A e \in DOMAIN trouble' : trouble'[e] \in {n \in Nat : n > 0}
      BY <2>2, <2>3
    <2>5. IsABag(trouble')
      BY <2>2, <2>4 DEF IsABag
    <2> QED BY <2>1, <2>2, <2>5 DEF BagToSet, Rest
  <1>2. CASE UNCHANGED trouble
    BY <1>2 DEF Rest
  <1>3. UNCHANGED trouble \/ \E kind \in {"loss", "death", "exit", "move"} : Trouble(kind)
    BY DEF Next, Run, Open, GetFlags, SetFlags, WriteFlags, Install, Args, ListenAll,
           ListenFiltered, Listen, Receive, Ask, Await, MyCleanup, Exit, Die, Answer, Lose,
           Others, AdminMove, vars
  <1> QED BY <1>1, <1>2, <1>3

\* A frame sent is appended to the sockets that are open.
LEMMA TransmitTyped ==
    ASSUME queue \in [Procs -> Seq(Packets)], NEW f \in Packets, Transmit(f)
    PROVE  queue' \in [Procs -> Seq(Packets)]
  <1>1. \A p \in Procs : Append(queue[p], f) \in Seq(Packets)
    OBVIOUS
  <1> QED BY <1>1 DEF Transmit

LEMMA QueueTyped ==
    ASSUME Rest, [Next]_vars
    PROVE  queue' \in [Procs -> Seq(Packets)]
  <1>1. queue \in [Procs -> Seq(Packets)]
    BY DEF Rest
  <1>2. CASE UNCHANGED queue
    BY <1>1, <1>2
  <1>3. ASSUME NEW p \in Procs, queue' = [queue EXCEPT ![p] = <<>>]
        PROVE  queue' \in [Procs -> Seq(Packets)]
    BY <1>1, <1>3
  <1>4. ASSUME NEW p \in Procs, queue[p] # <<>>, queue' = [queue EXCEPT ![p] = Tail(@)]
        PROVE  queue' \in [Procs -> Seq(Packets)]
    <2>1. Tail(queue[p]) \in Seq(Packets)
      BY <1>1, <1>4
    <2> QED BY <1>1, <1>4, <2>1
  <1>5. ASSUME NEW f \in Packets, Transmit(f)
        PROVE  queue' \in [Procs -> Seq(Packets)]
    BY <1>1, <1>5, TransmitTyped
  <1>6. \/ UNCHANGED queue
        \/ \E p \in Procs : \/ queue' = [queue EXCEPT ![p] = <<>>]
                            \/ queue[p] # <<>> /\ queue' = [queue EXCEPT ![p] = Tail(@)]
        \/ \E f \in Packets : Transmit(f)
    <2>1. ASSUME NEW p \in Procs, Ask(p)
          PROVE  \/ \E f \in Packets : Transmit(f)
                 \/ queue' = [queue EXCEPT ![p] = <<>>]
      <3>1. Frame("request", "me", "target") \in Packets
        BY DEF Frame, Packets, Hosts
      <3> QED BY <2>1, <3>1 DEF Ask, Quit
    <2>2. CASE Answer
      <3>1. Frame("reply", "me", "target") \in Packets
        BY DEF Frame, Packets, Hosts
      <3> QED BY <2>2, <3>1 DEF Answer
    <2>3. CASE Others
      <3>1. Traffic \subseteq Packets
        BY DEF Traffic, Packets, Hosts
      <3> QED BY <2>3, <3>1 DEF Others
    <2>4. ASSUME NEW p \in Procs, ListenAll(p) \/ ListenFiltered(p) \/ Await(p)
          PROVE  \/ queue' = [queue EXCEPT ![p] = <<>>]
                 \/ queue[p] # <<>> /\ queue' = [queue EXCEPT ![p] = Tail(@)]
      BY <2>4 DEF ListenAll, ListenFiltered, Listen, Await, Receive, Quit
    <2>5. ASSUME NEW p \in Procs, Exit(p) \/ Die(p)
          PROVE  queue' = [queue EXCEPT ![p] = <<>>]
      BY <2>5 DEF Exit, Die, Quit
    <2>6. ASSUME NEW p \in Procs, \/ Open(p) \/ GetFlags(p) \/ SetFlags(p) \/ Install(p)
                                  \/ Args(p) \/ MyCleanup(p)
          PROVE  UNCHANGED queue
      BY <2>6 DEF Open, GetFlags, SetFlags, Install, Args, MyCleanup, frames
    <2>7. CASE Lose \/ AdminMove \/ UNCHANGED vars
      BY <2>7 DEF Lose, AdminMove, vars, frames
    <2> QED BY <2>1, <2>2, <2>3, <2>4, <2>5, <2>6, <2>7 DEF Next, Run
  <1> QED BY <1>2, <1>3, <1>4, <1>5, <1>6

LEMMA StepRest == IInv /\ Rest /\ [Next]_vars => Rest'
  <1> SUFFICES ASSUME IInv, Rest, [Next]_vars PROVE Rest'
    OBVIOUS
  <1>1. UNCHANGED mode
    BY DEF Next, Run, Open, GetFlags, SetFlags, WriteFlags, Install, Args, ListenAll,
           ListenFiltered, Listen, Receive, Ask, Await, MyCleanup, Exit, Die, Answer, Lose,
           Others, AdminMove, vars, procs
  <1>2. others' \in 0 .. MaxOthers
    <2>1. CASE UNCHANGED others
      BY <2>1 DEF Rest
    <2>2. CASE Others
      BY <2>2, ArpAssumption DEF Others, Rest
    <2>3. UNCHANGED others \/ Others
      BY DEF Next, Run, Open, GetFlags, SetFlags, Install, Args, ListenAll,
             ListenFiltered, Listen, Receive, Ask, Await, MyCleanup, Exit, Die, Answer, Lose,
             AdminMove, vars, frames
    <2> QED BY <2>1, <2>2, <2>3
  <1> QED BY <1>1, <1>2, AskedOnce, TroubleTyped, QueueTyped DEF Rest

\* For any finite number of processes the types hold, and no more questions are
\* open than processes have asked, each once, whoever reads the answers.
THEOREM TypesHold == Spec => []TypeOK
  <1>1. IInv /\ Rest => TypeOK
    <2> SUFFICES ASSUME IInv, Rest PROVE TypeOK
      OBVIOUS
    <2>1. Past \in SUBSET Procs
      BY DEF Past
    <2>2. /\ Cardinality(Past) \in Nat /\ Cardinality(Procs) \in Nat
          /\ Cardinality(Past) <= Cardinality(Procs)
      BY <2>1, ArpAssumption, FS_Subset, FS_CardinalityType
    <2>3. asked \in 0 .. Cardinality(Procs)
      BY <2>2 DEF Rest
    <2> QED BY <2>3 DEF IInv, ProcTypes, Places, Rest, Packets, TypeOK
  <1> QED BY <1>1, InitIInv, InitRest, StepRest, Inductive, PTL DEF Spec

=============================================================================

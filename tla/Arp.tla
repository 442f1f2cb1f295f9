-------------------------------- MODULE Arp --------------------------------
(***************************************************************************)
(* HW4 arp: processes on one host that put its network interface into      *)
(* promiscuous mode, listen to ARP or ask for one address, and take the    *)
(* mode off again when they exit.  The interface's flags belong to the     *)
(* host: a process reads them, changes them and writes them back, twice    *)
(* (once through each socket), and its clean-up writes what it read last.  *)
(* The mode in which the program answers for another host is left out.     *)
(***************************************************************************)
EXTENDS Naturals, Sequences, FiniteSets, Bags

CONSTANTS
    Procs,      \* processes running the program
    Starts,     \* what their arguments may ask for: functions to Modes
    MaxOthers,  \* bound: ARP frames other hosts send each other
    Kinds,      \* of trouble that may come: see Trouble
    MaxTrouble  \* bound: how often it comes

\* FindCommentType; "short" is one argument only.
Modes == {"short", "error", "all", "filter", "query"}

ASSUME ArpAssumption ==
    /\ IsFiniteSet(Procs)
    /\ Starts \subseteq [Procs -> Modes]
    /\ Kinds \subseteq {"loss", "death", "exit", "move"}
    /\ MaxOthers \in Nat /\ MaxTrouble \in Nat

VARIABLES
    flags,      \* the flags of the interface
    adminUp,    \* history: whether the administrator wants it up
    pc, mode,   \* per process
    req,        \* per process: ifr_flags of the global struct ifreq
    snapshot,   \* history, per process: its flags are "fresh", read since the
                \* administrator's last move, "stale", or stale and it "wrote" them
    queue,      \* per process: frames it will read, oldest first
    missed,     \* history: listeners that have not printed what they are for
    asked,      \* questions of ours that may still be answered
    others,     \* frames sent by others
    trouble     \* what has gone wrong so far

host == <<flags, adminUp>>
procs == <<pc, mode, req, snapshot>>
frames == <<queue, missed, asked, others>>
vars == <<host, procs, frames, trouble>>

Flags == {"UP", "PROMISC"}

\* Places before the mode is set, while it is the process's to take off, after
\* that.  A process ends "early", "lost" or "over" accordingly.
Before  == {"off", "get1", "set1", "early"}
Holding == {"get2", "set2", "install", "args", "ask", "loop", "wait", "clean1", "lost"}
After   == {"clean2", "over"}
Ended   == {"early", "lost", "over"}

\* A frame: the question of asker for the address of owner, or the answer.
Frame(op, asker, owner) == [op |-> op, asker |-> asker, owner |-> owner]
Hosts == {"me", "target", "other"}
Traffic == [op : {"request", "reply"}, asker : {"target", "other"}, owner : {"target", "other"}]
Spa(f) == IF f.op = "request" THEN f.asker ELSE f.owner
Tpa(f) == IF f.op = "request" THEN f.owner ELSE f.asker

Init ==
    /\ flags = {"UP"} /\ adminUp = TRUE
    /\ pc = [p \in Procs |-> "off"]
    /\ mode \in Starts
    /\ req = [p \in Procs |-> {}]
    /\ snapshot = [p \in Procs |-> "stale"]
    /\ queue = [p \in Procs |-> <<>>] /\ missed = {}
    /\ asked = 0 /\ others = 0
    /\ trouble = EmptyBag

\* An answer of the target that does not come ("loss"), a process that is killed
\* or whose ioctl() fails ("death"), one ended by SIGINT or a failing recvfrom()
\* ("exit"), the administrator taking the interface up or down ("move").
Trouble(kind) ==
    /\ kind \in Kinds /\ BagCardinality(trouble) < MaxTrouble
    /\ trouble' = trouble (+) SetToBag({kind})
No(kind) == ~BagIn(kind, trouble)

Goto(p, place) == pc' = [pc EXCEPT ![p] = place]
-----------------------------------------------------------------------------
(* The interface. *)

\* Requests are broadcast.  An answer to another host is dropped by the card,
\* unless it is in promiscuous mode.
Passes(f) ==
    /\ "UP" \in flags
    /\ f.op = "request" \/ f.asker = "me" \/ "PROMISC" \in flags

\* The process has its sockets open and is on its way to read from them.
Reads(p) ==
    /\ mode[p] \in {"all", "filter", "query"}
    /\ pc[p] \notin {"off", "clean1"} \cup After \cup Ended

\* History: p has put the card into promiscuous mode in order to print f.
IsFor(f, p) ==
    /\ pc[p] \in Holding /\ Reads(p)
    /\ mode[p] = "all" \/ (mode[p] = "filter" /\ f.owner = "target")

\* The frame reaches every packet socket that is open, the sender's included.
Transmit(f) ==
    IF Passes(f)
      THEN /\ queue' = [p \in Procs |-> IF Reads(p) THEN Append(queue[p], f) ELSE queue[p]]
           /\ UNCHANGED missed
      ELSE /\ missed' = missed \cup {p \in Procs : IsFor(f, p)}
           /\ UNCHANGED queue
-----------------------------------------------------------------------------
(* Start. *)

Open(p) ==
    /\ pc[p] = "off"
    /\ Goto(p, "get1")
    /\ UNCHANGED <<host, mode, req, snapshot, frames, trouble>>

\* SIOCGIFFLAGS, through sockfd_send and later through sockfd_recv.
GetFlags(p) ==
    /\ pc[p] \in {"get1", "get2"}
    /\ req' = [req EXCEPT ![p] = flags]
    /\ snapshot' = [snapshot EXCEPT ![p] = IF @ = "stale" THEN "fresh" ELSE @]
    /\ Goto(p, IF pc[p] = "get1" THEN "set1" ELSE "set2")
    /\ UNCHANGED <<host, mode, frames, trouble>>

WriteFlags(p, fs) ==
    /\ flags' = fs
    /\ req' = [req EXCEPT ![p] = fs]
    /\ snapshot' = [snapshot EXCEPT ![p] = IF @ = "stale" THEN "wrote" ELSE @]
    /\ UNCHANGED <<adminUp, mode, trouble>>

\* Wrong: = for |=.
AssignFlags(p) ==
    /\ pc[p] \in {"set1", "set2"}
    /\ WriteFlags(p, {"PROMISC"})
    /\ Goto(p, IF pc[p] = "set1" THEN "get2" ELSE "install")
    /\ UNCHANGED frames

\* Wrong: ^= for |=.
ToggleFlags(p) ==
    /\ pc[p] \in {"set1", "set2"}
    /\ WriteFlags(p, (req[p] \cup {"PROMISC"}) \ (req[p] \cap {"PROMISC"}))
    /\ Goto(p, IF pc[p] = "set1" THEN "get2" ELSE "install")
    /\ UNCHANGED frames

\* SIOCSIFFLAGS with IFF_PROMISC.
SetFlags(p) ==
    /\ pc[p] \in {"set1", "set2"}
    /\ WriteFlags(p, req[p] \cup {"PROMISC"})
    /\ Goto(p, IF pc[p] = "set1" THEN "get2" ELSE "install")
    /\ UNCHANGED frames

\* atexit( MyCleanup ), signal( SIGINT, MyHandler ).
Install(p) ==
    /\ pc[p] = "install"
    /\ Goto(p, "args")
    /\ UNCHANGED <<host, mode, req, snapshot, frames, trouble>>

\* What is in the socket is no longer read.
Quit(p, place) ==
    /\ Goto(p, place)
    /\ queue' = [queue EXCEPT ![p] = <<>>]

\* inet_addr(argv[2]), which with one argument is NULL and ends the process
\* without exit(); then FindCommentType.
Args(p) ==
    /\ pc[p] = "args"
    /\ Goto(p, CASE mode[p] = "short" -> "lost"
                 [] mode[p] = "error" -> "clean1"
                 [] mode[p] = "query" -> "ask"
                 [] OTHER -> "loop")
    /\ UNCHANGED <<host, mode, req, snapshot, frames, trouble>>
-----------------------------------------------------------------------------
(* Listening, and asking. *)

\* recvfrom() takes the oldest frame.
Receive(p) ==
    /\ queue[p] # <<>>
    /\ UNCHANGED <<host, mode, req, snapshot, asked, others, trouble>>

Listen(p, prints) ==
    /\ pc[p] = "loop" /\ Receive(p)
    /\ queue' = [queue EXCEPT ![p] = Tail(@)]
    /\ missed' = IF ~prints /\ IsFor(Head(queue[p]), p) THEN missed \cup {p} ELSE missed
    /\ UNCHANGED pc

ListenAll(p) == mode[p] = "all" /\ Listen(p, TRUE)

\* Wrong: the sender's address is compared in requests, too.
FilterSender(f) == Spa(f) = "target"

Filter(f) == IF f.op = "request" THEN Tpa(f) = "target" ELSE Spa(f) = "target"

ListenFiltered(p) == mode[p] = "filter" /\ Listen(p, Filter(Head(queue[p])))

\* The question is broadcast; sendto() fails on an interface that is down.
Ask(p) ==
    /\ pc[p] = "ask"
    /\ IF "UP" \in flags
         THEN /\ Transmit(Frame("request", "me", "target"))
              /\ asked' = asked + 1
              /\ Goto(p, "wait")
         ELSE Quit(p, "clean1") /\ UNCHANGED <<missed, asked>>
    /\ UNCHANGED <<host, mode, req, snapshot, others, trouble>>

\* Wrong: the target address of the reply, the asker's, is compared.
AnswersAsker(f) == f.op = "reply" /\ Tpa(f) = "target"

Answers(f) == f.op = "reply" /\ Spa(f) = "target"

\* Wrong: what is not the answer makes the process ask again.
AwaitAskingAgain(p) ==
    /\ pc[p] = "wait" /\ Receive(p)
    /\ IF Answers(Head(queue[p]))
         THEN Quit(p, "clean1")
         ELSE queue' = [queue EXCEPT ![p] = Tail(@)] /\ Goto(p, "ask")
    /\ UNCHANGED missed

\* Every reply is printed; the target's own ends the program.
Await(p) ==
    /\ pc[p] = "wait" /\ Receive(p)
    /\ IF Answers(Head(queue[p]))
         THEN Quit(p, "clean1")
         ELSE queue' = [queue EXCEPT ![p] = Tail(@)] /\ UNCHANGED pc
    /\ UNCHANGED missed
-----------------------------------------------------------------------------
(* The end. *)

\* Wrong: the flags are written back as they were read.
RestoreFlags(p) ==
    /\ pc[p] \in {"clean1", "clean2"}
    /\ WriteFlags(p, req[p])
    /\ Goto(p, IF pc[p] = "clean1" THEN "clean2" ELSE "over")
    /\ UNCHANGED frames

\* SIOCSIFFLAGS without IFF_PROMISC, through both sockets.
MyCleanup(p) ==
    /\ pc[p] \in {"clean1", "clean2"}
    /\ WriteFlags(p, req[p] \ {"PROMISC"})
    /\ Goto(p, IF pc[p] = "clean1" THEN "clean2" ELSE "over")
    /\ UNCHANGED frames

\* SIGINT once the handler is installed, or -1 from recvfrom(): exit().
Exit(p) ==
    /\ pc[p] \in {"args", "ask", "loop", "wait"} /\ Trouble("exit")
    /\ Quit(p, "clean1")
    /\ UNCHANGED <<host, mode, req, snapshot, missed, asked, others>>

\* An end without (the rest of) MyCleanup: SIGINT before the handler is
\* installed or during MyCleanup, where exit() runs no handler twice; a failing
\* ioctl(); another signal.
Die(p) ==
    /\ pc[p] \notin {"off"} \cup Ended /\ Trouble("death")
    /\ Quit(p, CASE pc[p] \in Before -> "early" [] pc[p] \in Holding -> "lost"
                 [] OTHER -> "over")
    /\ UNCHANGED <<host, mode, req, snapshot, missed, asked, others>>
-----------------------------------------------------------------------------
(* Around the program. *)

\* The target answers a question of ours.
Answer ==
    /\ asked > 0
    /\ Transmit(Frame("reply", "me", "target"))
    /\ asked' = asked - 1
    /\ UNCHANGED <<host, procs, others, trouble>>

\* The question or the answer is lost, or the target is away.
Lose ==
    /\ asked > 0 /\ Trouble("loss")
    /\ asked' = asked - 1
    /\ UNCHANGED <<host, procs, queue, missed, others>>

\* Other hosts ask and answer each other.
Others ==
    /\ others < MaxOthers
    /\ \E f \in Traffic : f.asker # f.owner /\ Transmit(f)
    /\ others' = others + 1
    /\ UNCHANGED <<host, procs, asked, trouble>>

AdminMove ==
    /\ Trouble("move")
    /\ adminUp' = ~adminUp
    /\ flags' = IF adminUp THEN flags \ {"UP"} ELSE flags \cup {"UP"}
    /\ snapshot' = [p \in Procs |-> "stale"]
    /\ UNCHANGED <<pc, mode, req, frames>>

Run(p) ==
    \/ GetFlags(p) \/ SetFlags(p) \/ Install(p) \/ Args(p)
    \/ ListenAll(p) \/ ListenFiltered(p) \/ Ask(p) \/ Await(p) \/ MyCleanup(p)

Next ==
    \/ \E p \in Procs : Open(p) \/ Run(p) \/ Exit(p) \/ Die(p)
    \/ Answer \/ Lose \/ Others \/ AdminMove

Spec == Init /\ [][Next]_vars

\* Processes are scheduled, and the target answers what it hears.
FairSpec ==
    /\ Spec
    /\ \A p \in Procs : WF_vars(Run(p))
    /\ WF_vars(Answer)
-----------------------------------------------------------------------------
\* Types; no more questions are open than there are processes, each of which
\* asks once.
TypeOK ==
    /\ flags \subseteq Flags /\ adminUp \in BOOLEAN
    /\ pc \in [Procs -> Before \cup Holding \cup After]
    /\ mode \in [Procs -> Modes]
    /\ req \in [Procs -> SUBSET Flags]
    /\ snapshot \in [Procs -> {"fresh", "stale", "wrote"}]
    /\ queue \in [Procs -> Seq([op : {"request", "reply"}, asker : Hosts, owner : Hosts])]
    /\ missed \in SUBSET Procs
    /\ asked \in 0 .. Cardinality(Procs) /\ others \in 0 .. MaxOthers
    /\ IsABag(trouble) /\ BagToSet(trouble) \subseteq Kinds

\* The interface is in promiscuous mode only while a process that has set it
\* has not come to its clean-up, or because one has died before it: whatever
\* the others read and wrote in between, the mode does not outlive the
\* processes that end through exit().
PromiscHeld == "PROMISC" \in flags => \E p \in Procs : pc[p] \in Holding

\* A process that listens or waits finds the mode off only because another
\* one's clean-up has taken it off.
DeafOnlyByOther ==
    \A p \in Procs :
       pc[p] \in Holding \ {"lost"} /\ "PROMISC" \notin flags =>
          \E q \in Procs \ {p} : pc[q] \in After

\* The interface is up where the administrator has taken it down, or the other
\* way round, only if a process has written flags it read before that: from the
\* start of a program to its end the flags it will write back grow old.
UpAsAdminSet ==
    ("UP" \in flags) # adminUp => \E p \in Procs : snapshot[p] = "wrote"

\* From when it has set the mode a listener prints every frame it is for, the
\* answers between two other hosts included, unless another process has cleaned
\* up or the administrator has moved the interface.
NothingMissed ==
    \A p \in missed : ~No("move") \/ \E q \in Procs \ {p} : pc[q] \in After

\* A query ends, if no question or answer is lost and the interface stays up:
\* it has no timeout and asks once, but the answer to another process of the
\* host serves as well.
QueryEnds ==
    \A p \in Procs : pc[p] = "wait" ~> (pc[p] \in Ended \/ ~No("loss") \/ ~No("move"))

\* "make sure 'promiscuous mode' will get disabled upon termination"
\* (main.c:150).
OffAtTermination ==
    (\A p \in Procs : pc[p] \in Ended) => "PROMISC" \notin flags
=============================================================================

----------------------------- MODULE MyftpTimed -----------------------------
(***************************************************************************)
(* MyftpTransfer on a clock.  SO_RCVTIMEO gives every single recvfrom() a  *)
(* fresh 2 seconds in the server child and 1 second in the client, so what *)
(* a peer sends, even if it is then ignored, postpones the other side's    *)
(* timeout.  Datagrams take less than a second, as they do on the one LAN  *)
(* that the broadcast of findServerAddr() can reach; the network loses any *)
(* of them, at most MaxLosses.                                             *)
(***************************************************************************)
EXTENDS MyftpTransfer

CONSTANTS
    ServerTimeo,    \* seconds: SO_RCVTIMEO of startMyftpServer
    ClientTimeo,    \* seconds: SO_RCVTIMEO of startMyftpClient
    MaxLosses       \* bound: datagrams lost on the way

ASSUME TimedAssumption ==
    /\ ServerTimeo \in Nat \ {0} /\ ClientTimeo \in Nat \ {0}
    /\ MaxLosses \in Nat

VARIABLES
    sClock, cClock,     \* seconds left to the recvfrom() each side is in
    sSilent,            \* seconds since the server last received anything
    losses,             \* datagrams lost on the way to a running process
    unasked             \* history: an ACK or the first DATA was among them

clocks == <<sClock, cClock, sSilent>>
lossVars == <<losses, unasked>>
timedVars == <<vars, clocks, lossVars>>

ServerRuns == sPc \in {"frq", "ack"}
ClientRuns == cPc = "recv"

TimedInit ==
    /\ Init
    /\ sClock = ServerTimeo /\ cClock = ClientTimeo
    /\ sSilent = 0 /\ losses = 0 /\ unasked = FALSE
-----------------------------------------------------------------------------
TimedServerReceive(m) ==
    /\ ServerReceive(m)
    /\ sClock' = ServerTimeo /\ sSilent' = 0
    /\ UNCHANGED <<cClock, lossVars>>

\* Wrong: recvfrom() is armed with the client's timeout.
TimedServerTimeoutEarly ==
    /\ sClock = 0 /\ ServerTimeout
    /\ sClock' = ClientTimeo
    /\ UNCHANGED <<cClock, sSilent, lossVars>>

TimedServerTimeout ==
    /\ sClock = 0 /\ ServerTimeout
    /\ sClock' = ServerTimeo
    /\ UNCHANGED <<cClock, sSilent, lossVars>>

TimedClientReceive(m) ==
    /\ ClientReceive(m)
    /\ cClock' = ClientTimeo
    /\ UNCHANGED <<sClock, sSilent, lossVars>>

TimedClientTimeout ==
    /\ cClock = 0 /\ ClientTimeout
    /\ cClock' = ClientTimeo
    /\ UNCHANGED <<sClock, sSilent, lossVars>>

Reaches(m) == IF ToServer(m) THEN ServerRuns ELSE ClientRuns

\* A datagram is lost on the way, or finds its receiver gone.
TimedLose(m) ==
    /\ Lose(m)
    /\ IF Reaches(m)
         THEN /\ losses < MaxLosses /\ losses' = losses + 1
              /\ unasked' = (unasked \/ m.op = "ACK" \/ m.idx = 1)
         ELSE UNCHANGED lossVars
    /\ UNCHANGED clocks

TimedDamage(m) == Damage(m) /\ UNCHANGED <<clocks, lossVars>>

\* A second passes; the datagrams of the last one have all arrived, and no
\* expired recvfrom() is kept waiting.
Tick ==
    /\ net = {} /\ ~Ended
    /\ ServerRuns => sClock > 0
    /\ ClientRuns => cClock > 0
    /\ IF ServerRuns THEN sClock' = sClock - 1 /\ sSilent' = sSilent + 1
                     ELSE UNCHANGED <<sClock, sSilent>>
    /\ IF ClientRuns THEN cClock' = cClock - 1
                     ELSE UNCHANGED cClock
    /\ UNCHANGED <<vars, lossVars>>

TimedTerminated == Terminated /\ UNCHANGED <<clocks, lossVars>>

TimedStep ==
    \/ \E m \in net : \/ TimedServerReceive(m) \/ TimedClientReceive(m)
                      \/ TimedLose(m) \/ TimedDamage(m)
    \/ TimedServerTimeout \/ TimedClientTimeout
    \/ Tick

TimedNext == TimedStep \/ TimedTerminated

\* Processes are scheduled and time passes.
TimedSpec == TimedInit /\ [][TimedNext]_timedVars /\ WF_timedVars(TimedStep)
-----------------------------------------------------------------------------
\* Both sides end and report success, although up to MaxTimeouts datagrams
\* are lost, as long as they are requests, ERRORs or DATA after the first
\* (myftp.c:375, "Sending File may Error ,So need  resending").
TransferCompletes ==
    <>(sPc = "done" /\ cPc = "finished") \/ <>(unasked \/ losses > MaxTimeouts)

\* The same comment read of every datagram: while no more were lost than the
\* TimeoutNum > 10 tests allow for, the client does not give up.
SurvivesLoss == losses <= MaxTimeouts => cPc # "gaveup"

\* The server child exits for want of datagrams only after more than 20
\* seconds of silence (myftp.c:282 and 383, "Timeout >20sec").
ServerPatience == sPc = "exit" => sSilent > 20
=============================================================================

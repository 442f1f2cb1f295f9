# A verification project for the network-programming homeworks

`src/` holds six homeworks of a networking course. The README of the repository names them: HW1 and HW2
are reports (only PDF sheets, no code), HW3 is a multi-user chat over TCP, HW4 an ARP tool, HW5 a file
download over UDP "with multi-client serve and stop and wait", HW6 a `ping` of a subnet. This directory
holds TLA+ models of the programs' logic, configurations that model-check them with TLC, and proofs that
TLAPS checks.

## 1. Inventory

### HW5: file transfer (`myftp.c`: `startMyftpServer`, `startMyftpClient`)

* *State.* Server child: `block` (from 1; 65000 is never used, the next is 2), the read position of the
  file, `TimeoutNum`, the packet last sent, `clientaddr`. Client: `block` (0 before the first DATA, restarts
  at 1), two time-out counters, the file written so far.
* *Operations.* FRQ, DATA of up to 512 bytes, ACK, ERROR, all with a checksum; `recvfrom()` with a time-out
  of 2 s (server) and 1 s (client); resend or give up after more than ten time-outs in a row; a short DATA ends
  the file, ACK 0 the transfer.
* *Interaction.* UDP datagrams only: they can be lost, delayed, reordered, duplicated, damaged.
* *Hard.* Block numbers that wrap differently on the two sides; out-of-turn DATA that is acknowledged under
  its own number; every received datagram, useful or not, restarts `SO_RCVTIMEO` and clears `TimeoutNum`.
* *Correct when* the client's file is always a prefix of the served one, success means the whole file, the
  server is never more than one block ahead, both sides return, and losses are repaired.

### HW5: discovery, dispatch and children (`findServerAddr`, `listenClient`, `myftpserver.c: main`)

* *State.* Per client: phase, time-out counter, the port it was told. Server: `tempPort` (not initialised), a
  child process for each datagram received, each with a port, a peer and a counter.
* *Operations.* Broadcast of a file name, retry, reply with a random port, `fork`, `bind`, the child's request
  loop, exit.
* *Hard.* The port is announced before the child exists; random ports collide; a request that does not match
  forks a child as well; any datagram makes its sender the child's peer; a retry sends a zeroed packet.
* *Correct when* a client is left unserved, or served another file, only for a reason one can name, every
  client returns, and every child releases its port.

### HW5 `in_cksum`, HW6 `fill_cksum`

The Internet checksum: a loop over 16-bit words, an odd byte, two foldings, a complement. *Correct when* it is
the ones' complement sum, an intact packet passes although the receiver sums more bytes than the sender, and a
damaged word is noticed.

### HW3: chat server (`server.c`, `recv_from_client.c`, `send_to_client.c`, `header.h`)

* *State.* Two doubly linked lists, of members and of messages, each with a mutex; per client a `Member` (fd,
  name, group) and a receiver thread; one sender thread; the process's descriptors.
* *Operations.* `accept` and a new thread; nickname, list of members, group, login broadcast, link; a line is
  queued; `Bye` (or an error) starts the exit broadcast, `close`, unlink, `free`; the sender drains the queue.
* *Hard.* Pointers and sizes read before the mutex is taken; a broadcast and counts without the mutex; `malloc` outside
  the lock without initialisation; a descriptor closed while its member is still listed; a failed `send` ends
  the process (`DIE`).
* *Correct when* the member list is exactly the members, who can walk over freed memory is known, each message and
  each broadcast reaches those it is for and nobody else, mutexes are released, and a client that leaves does
  not harm the others.

### HW3: chat client (`client.c`)

Types lines and prints what arrives; for the server it is an actor that types, types `Bye`, closes or is ended.

### HW4: `arp` (`main.c`, `arp.c`)

* *State.* The flags of the host's network interface, which every process of the program shares with every other
  and with the administrator; per process the global `struct ifreq req` (what it last read or wrote) and two
  packet sockets.
* *Operations.* Read the flags, add `IFF_PROMISC`, write them back, once through each socket; register `MyCleanup`
  with `atexit` and `MyHandler` for SIGINT; then list all ARP frames (`-l -a`), those about one address (`-l <ip>`), ask
  for an address and wait for its answer (`-q <ip>`), or answer for another host; `MyCleanup` writes `req` back without
  `IFF_PROMISC`.
* *Interaction.* Frames on the wire; other processes of the program, through the flags.
* *Hard.* Read-modify-write of shared flags, long apart; ends that skip the clean-up; a query without a time-out.
* *Correct when* the mode is on while somebody needs it and off when nobody is left, other flags are not disturbed,
  a listener prints all it is for, and a query ends.

### HW6: `ping` (`main.c`, `pcap.c`, `fill_packet.c`)

* *State.* `seq`; the buffer of `pcap`; the timer `tv` of `pcap_get_reply`.
* *Operations.* `count` times: number and send an echo request (by way of a router), reset the timer, take one packet
  from `pcap` or give up at its read time-out, print one line.
* *Interaction.* Requests and replies, which may be late or lost; other programs that ping the same host.
* *Hard.* The filter looks at the source and the type, and `pcap_get_reply` at nothing else; the timer is reset after
  the sending; replies gather in `pcap`'s buffer after a miss.
* *Correct when* a line shows the reply to its own request, with a time one can account for, and every request gets a
  line.

The hazards that follow from all this, each at its source line with the properties that watch it, are the
`hazards` of `PROJECT.json`.

## 2. Modules

| Module | Models | Built on |
|---|---|---|
| `FileCopy` | what a download promises, without packets | |
| `MyftpTransfer` | `startMyftpServer` and `startMyftpClient` over an unreliable network | implements `FileCopy` |
| `MyftpTransferInv` | its inductive invariant, checked by TLC and proved | `MyftpTransfer` |
| `MyftpTimed` | the same protocol with `SO_RCVTIMEO` on a clock | `MyftpTransfer` |
| `MyftpTransferProofs` | safety theorems of both, refinement of `FileCopy` | `MyftpTransferInv`, `MyftpTimed` |
| `MyftpServer` | discovery, dispatch, children, several clients, one child shared by two | |
| `MCServer` | pairs of names two clients ask for, for TLC | `MyftpServer` |
| `MyftpServerProofs` | its safety theorems | `MyftpServer` |
| `InCksum`, `InCksumProofs` | the checksum at sender, wire and receiver; proofs that it is the Internet checksum, that intact packets pass and damage is noticed | |
| `MessageQueue` | what the message queue of HW3 is to its users | |
| `LinkedList`, `LinkedListProofs` | link and unlink, as written twice in HW3; lemmas for lists of every length | |
| `ChatQueue`, `ChatQueueProofs` | the message queue at the level of its memory; its safety proved | implements `MessageQueue` until an old pointer comes back; `LinkedList`, `LinkedListProofs` |
| `Chat`, `ChatProofs` | accept loop, receiver threads, sender thread, member list, sockets; its safety proved | implements `MessageQueue`; `LinkedList`, `LinkedListProofs` |
| `MCChat` | symmetry of clients and of blocks of memory, for TLC | `Chat` |
| `Arp`, `ArpProofs` | the interface's flags under several processes, the listeners, the query; its safety proved | |
| `MCArp` | pairs of modes for two processes, for TLC | `Arp` |
| `Ping`, `PingProofs` | the loop of requests and captures; which reply is shown, its time, and what is left unshown, proved | |

Operators introduced by a comment "Wrong" are slips a programmer could make. They take part in no
specification; each is there to show that a property notices the slip when it replaces the right definition.

### `MyftpTransfer`

`sBlock`, `sTimeouts`, `cBlock`, `cTimeouts` are the program's variables; `sRead` counts `fread()` calls and so
names the block being sent; `sPc` and `cPc` say in which loop a process is. `net` is the set of datagrams in
flight. One action is one turn of a `recvfrom()` loop with all it reads, writes and sends. Block *i* of the
file is the number *i*; the last one is the short one, possibly empty. A datagram carries whether its checksum
is right; what a damaged packet's opcode or block becomes is a choice, because the server looks at the
opcode before the checksum. `Lag` bounds how long a datagram lives, in blocks read by the server: block
numbers repeat after `BlockWrap - 2` blocks, so `TransferAssumption` asks `2 * Lag + 1 < BlockWrap - 2`
(with 65000 a datagram may live for 32498 blocks). No protocol whose numbers wrap can do
without such an assumption. Failures of `sendto`, `fopen` and the like end the process in the code and
are left out; giving up, which ends it too, is modelled.

### `MyftpTimed`

Adds to each action of `MyftpTransfer` what it does to a clock that `recvfrom()` restarts each time. A datagram
takes less than a second, so a second passes (`Tick`) when nothing is in flight and no time-out is due.
`losses` counts what was lost on the way to a running process, and `unasked` remembers that an ACK or the
first DATA was among it.

### `MyftpServer`

Clients, the dispatcher and child processes. `Listen` is `listenClient` with the
`fork` that `main` does whatever it returned; `ChildBind` is a step of its own, since the reply is on its way
before it. Two children on one port: the second `bind` fails and the child exits.

A client asks for one of four names (`Names`), which are all that the two tests of the server tell apart.
`listenClient` compares no more characters than the served name has (`Matches`), so every name that starts with the
served one passes. The request loop of the child takes `strlen()` + 5 bytes of a FRQ and sums them (`FrqPasses`,
`Passing`). Of a longer name the end is cut off, while the checksum was computed with it: the sum is wrong (`"cut"`)
unless the missing bytes add nothing (`"alike"`), as with `testfiles` for `testfile`: of the 14 bytes of the FRQ 13
are summed, the last is the NUL, the high byte of the last word, and `in_cksum()` takes an odd byte for the low one.
An ACK or ERROR, padded with zeroes, passes. `"other"` is any name that does not match, the empty one of a retry too.

The file has `length` blocks. A child has the number (`block`) and the part of the file it last read; since
`recvfrom()` writes the sender over `clientaddr`, whoever sends a datagram becomes its peer, and an ACK
with the right number makes it read on, whoever needs the block: past the end `fread()` gives empty, short parts
(`PastEnd`), under numbers that go round at `Restart` to 2. `restarted` is history. Such a child can keep exchanging
packets with a client for ever, each well within its second, so `Tick` may happen while they fly (`Endless`).

### `InCksum`

A byte has `Base` values (256 in the code), so that words, carries and foldings have the same form with small
numbers. A behaviour sums one packet at the sender, stores the answer, delivers it whole or with one word
replaced into the receiver's zeroed buffer, and sums that.

### `LinkedList`, `ChatQueue`, `Chat`

A list is `first` with the `prev` and `next` field of *every* block of memory: fields outlive `free()`, and
`malloc()` does not clear them. `ChatQueue` uses this to follow the message queue: `Malloc` outside the
lock, `Link` inside, the sender's loop that counts to `MessageListSize()` but never advances, and the
loop that frees. `server` becomes `"aborted"` at a second `free()` of a block and `"hung"` when the size loop
follows a ring.

`MessageQueue` is the queue without memory: messages are put in front, a pass sends the first one as often as there
are messages, and leaves nothing. `ChatQueue` implements it (`QueueUnlessRecycled`): the messages are the contents of
the blocks along `next`, and the end of the send loop is the end of a pass, since from then on the blocks are only
freed, and the mutex keeps all others away until none is left. Its escape `recycled'` is the one case in which it does
not: a block with an old `next` was linked into an empty queue. `Chat`, where the queue is a sequence, implements it too
(`QueueServed`, proved for any number of messages); a send there is spread over the walk along the members, and is recorded
in `carried` when the walk begins. Both describe what the code does with older messages, namely nothing: that one of two
messages is never sent is a feature of the specification, not something it excludes.

In `Chat` a receiver thread goes through the places of `pc` in the order of `recv_from_client()`; a
step is what it does between two points where another thread can be seen, and broadcasts and the sender's walk
take one step per member. `socket` is the kernel's table of descriptors (the lowest free number is given
out), `peer` the client's end of a connection: a `send()` to a closed peer succeeds and brings a reset, the
next one fails. `Bye` types Bye, `Leave` closes, so a thread can say farewell while its client is still there or after.
`MemberListSize()` is called twice without the mutex before a client is shown the list: each is a walk of its own along
the `next` fields (`CountMember`, `CountAgain`), over members that may leave and be freed meanwhile (`CountFails`).
`owed`, `carried` and `misrouted` are history variables. `server` names what ended the process: a failed
`send` or `recv` (`DIE`), a NULL pointer, or memory read after `free()`. Reading freed memory gives either
what was there or a crash.

Abstractions: blocks of `Member`s and of `Message`s are
recycled among themselves (in `ChatQueue` `malloc` gives a block that is new or was a `Message`, so that its old fields
are those of a `Message`); the message queue is a sequence here (its memory is
the business of `ChatQueue`; `MessageQueue` is what both are); nicknames
differ; `recv()` gives one line; buffers do not overflow; each client connects once.

### `Arp`

`flags` and `adminUp` belong to the host, `req[p]` to a process. The places of `pc` are the calls of `main` in
their order: `get1`, `set1`, `get2`, `set2` (the two pairs of `ioctl()`), `install`, `args`, then `loop`, `ask` and
`wait`, then `clean1`, `clean2`. `Before`, `Holding` and `After` group them by whether the mode is the
process's to take off. `Exit` is what leads through `exit()`, `Die` what does not: SIGINT before the handler is
installed, a failing `ioctl()` before `atexit()`, another signal. With one argument (`"short"`) `inet_addr(NULL)` ends the process.
A frame is an operation, who asks and whose address is asked for; `Transmit` gives it to each open packet
socket if the card lets it pass. `snapshot` and `missed` are history: whether a process holds flags that are older than
the administrator's last move, and which listeners have not printed a frame they have set the mode for.

Abstractions: frames that are not ARP are skipped by the loops and left out; the sockets' buffers do not overflow; the
mode that answers for another host is not modelled; after `Exit` or the end of a loop nothing more is read.

### `Ping`

`SendRequest`, `StartTimer`, and `ReadReply` or `ReadTimeout` are one round of the loop. `buf` is what `pcap` has
captured and not delivered, in order of capture; `Stray` stands for a reply to another program, or a second copy of a
reply. Time is the order of events (`now` counts them): replies take as long as they like, so a request may be
answered before its timer is set, during its read, or many requests later. `began` and the `span` of a line are
history: how long the round of this request took up to the capture of what is shown. `raced` is history too: the requests
whose own reply was captured between `sendto()` and `gettimeofday()`.

## 3. Runs

| Run | Shows |
|---|---|
| `transfer` | Seven blocks with wrap at 6: prefix, whole file, stop-and-wait, one request, the proofs' invariant, the refinement of `FileCopy`; and `Termination` |
| `timed` | All losses of requests, ERRORs and later DATA, up to ten, are repaired with the real time-outs; the server child is silent for more than 20 s before it leaves |
| `timed_loss` | *violated*: one lost first DATA, or ACK, ends the transfer |
| `cksum` | All packets of 4 to 8 bytes over three byte values against the definition of the Internet checksum |
| `server` | Two clients that ask for the right name or for others, two ports, files of one and two blocks, up to three losses: who is unserved or gets the wrong file, that a client writes the file in order and takes a part for the whole only when numbers have gone round (in a file shorter than such a round), and that everything ends unless a child is shared |
| `server_retry` | *violated*: a retried broadcast is never answered |
| `queue` | The queue's links, its sends, that it is emptied, and that it implements `MessageQueue` until an old pointer comes back |
| `chat_members` | Three clients: the member list, the login and exit broadcasts, and what can end the server before anybody leaves |
| `chat_send` | Two clients and a message of every kind: the sender's walk, wrong connections, mutexes, and again what can end the server, now with messages |
| `arp` | Two processes in seven pairs of modes and two troubles: who holds the mode, who takes it off, old flags, missed frames, queries that end |
| `arp_off` | *violated*: a process ends with the mode on |
| `ping` | Four requests, a stray, any loss and delay: whose reply a line shows, the time shown, what is left unshown, the end |

### What the violated runs found

* **A lost ACK or first DATA ends a transfer** (`myftp.c:407`, `413`). The client sends something every second; the
  server ignores it but its 2-second time-out starts anew, so it never resends. The comment at `myftp.c:375` says that
  a file that was not received needs to be resent.
* **Retried broadcasts are empty** (`myftp.c:172`). The packet is cleared for the reply and sent again as it is.
* **Promiscuous mode can outlive the program** (HW4 `main.c:160`). With one argument, as in the documented `./arp -h`,
  `inet_addr(argv[2])` is given NULL after the mode has been set and before the arguments are looked at; the process
  ends by a signal, and `MyCleanup` does not run, though `main.c:150` wants to make sure that it does.

Other weak points are stated by properties that hold, because they say exactly when it happens:

* `UnservedOnlyByClash`, `WrongNameNeedsClash`, `WholeUnlessRestarted` and the exception in `AllReturn`: two clients
  given the same random port share a child. The second may drive it past the end of the file, for ever if no packet is
  lost.
* `DamageNeedsOldNext`: an uninitialised `next` of a recycled `Message` brings freed memory into the queue.
  `OneSendPerMessage`: the send loop makes as many sends as there are messages, but never advances `tempM`
  (`send_to_client.c:89`), so of two queued messages the newer is sent twice and the older not at all.
* `WrongEarAfterClose`: a descriptor is closed before its member is unlinked. `LoginHeard`: members linked after the
  pointer was read are not told of a login. `ExitHeardUnlessReused`: the exit broadcast takes no mutex and can stand
  on a member whose memory has been given to a new connection with `next` NULL.
* `OnlyLeaversBreakIt`: before anybody leaves, the server ends only by a NULL pointer, in two ways: two clients log in at once
  to an empty list, and the one whose broadcast comes second starts from the NULL it read (`recv_from_client.c:75`); or
  somebody types `/W` without a name (`send_to_client.c:120`). Once somebody has left, typing `Bye` is enough for a failing
  `send()`, because the leaver is still listed and is sent its own farewell; and from then on the walks without the mutex (the
  exit broadcast and `MemberListSize()`) can stand on freed members, the login broadcast can start from one, and a list that
  was counted can be gone when it is shown.
* `DeafOnlyByOther`, `NothingMissed`: the clean-up of one `arp` takes the mode off another. `UpAsAdminSet`: what a
  process writes back are flags as old as its start.
* `WrongReplyNeedsMiss`: after one miss every later line of `ping` may show the reply to an earlier request.
  `TimedInItsRound`: the time shown can be negative, for the reply to an earlier request or because the timer is reset after
  the sending, where `main.c:126` asks for before; with the order asked for there, the first cause would be the only one. A
  time longer than the request's own round is never shown.

### Bounds, and why they are enough

* `FileBlocks = 7`, `BlockWrap = 6`: the file passes the wrap and goes on behind it, with two pairs of blocks that
  share a number; `Lag = 1` is the longest life the assumption allows. `MaxFaults = 1` duplicate or damage (losses are
  unbounded). `MaxTimeouts = 1` has two time-outs in a row before giving up; the code's 10 is used in `timed`. The
  proofs hold for all values.
* `timed`: three blocks (first, middle, last), the code's time-outs, `MaxLosses = 40`, enough for all that the two
  sides send until both give up to be lost. `timed_loss` has a single loss.
* `server`: two clients, two ports, `MaxTimeouts = 1`, `MaxChildren = 3`, `Lengths = {1, 2}`, `Restart = 4`: a clash,
  a client without one, a file with and without a block in the middle, and numbers that go round past its end.
  `MaxLosses = 3` is the least for which a client finishes with a part of the file (a takeover needs two losses,
  meeting again a third). `Ports` and `Elsewhere` are model values because only equality of ports matters.
  `server_retry`: one client, the code's ten retries, one loss.
  Of the pairs of names two clients can ask for `MCServer` has four: each of `"cut"` and `"other"` with a name that passes,
  the two together, and two names that pass. A client that asks for another name has children forked for its requests from
  the start, without a loss.
* `cksum`: `Base = 3`, `BufLen = 8`: even and odd packets, carries that need the second folding.
* `queue`: three blocks and four messages, so that a block is recycled while another is queued.
* `arp`: two processes, the number that can disturb each other; one frame between others while both listen;
  the seven pairs of modes are a query with each of the five and a filter with a filter and with a process that ends without
  its clean-up; `MaxTrouble = 2`, so that one trouble meets another (a move of the administrator and a death, a lost answer and a
  signal). `arp_off`: no trouble at all.
* `ping`: four requests and one stray: a miss, the shifted lines after it, a second miss, and a reply that is never
  shown.
* `chat_members`: three clients, three blocks, no messages: a member in the middle of the list leaves. Blocks are
  given out in any order, so memory is reused under a walk. `chat_send`: two clients and one
  message (with two the run takes more than five minutes), so a pass has one round there; passes of several rounds are
  in `queue`, and of any number in the theorems. That `Chat` implements `MessageQueue`, which is about such passes, is therefore
  not a property of this run but a theorem. Symmetry (of clients, and of
  blocks) is used for safety only; `chat_send`, which checks liveness, has none.

`CHECK_DEADLOCK FALSE` is set for `ChatQueue`, `Chat`, `Arp` and `Ping`: all clients may have left, all messages may
have been typed, the server may be down, a listener may wait for frames nobody sends, or the program has ended. The
other models have an explicit end (`Terminated`, `Listening`, `Judged`), and deadlock is checked.

### Fairness, and what justifies it

* `MyftpTransfer!Fairness`: something happens as long as it must (a datagram arrives or is lost, a silent `recvfrom()`
  times out: `SO_RCVTIMEO`); and datagrams repeated for ever are not all lost (strong fairness of receiving an ACK and
  of receiving at the client). Without the second part two sides that answer each other's retries could reset each
  other's `TimeoutNum` for ever.
* `MyftpTimed`, `MyftpServer`: weak fairness of the whole step: processes are scheduled and time passes.
* `ChatQueue`: weak fairness of the sender and of each `Link`. The sender's loop spins on `message_mutex`; a thread
  that waits for it is taken to get it in the end.
* `Arp`: weak fairness of each process (the scheduler) and of the target's answers: what is lost is an action of its
  own. Frames of others, signals and the administrator are not fair.
* `Ping`: weak fairness of the program, whose read ends by a packet or by `pcap`'s time-out (`pcap_open_live`,
  `pcap.c:58`). Nothing is assumed of replies.
* `Chat`: weak fairness of the sender and of the steps a receiver takes without waiting for its client. The messages
  of a behaviour are finite in number, so `member_mutex` is not contended for ever. Nothing is assumed of clients.

## 4. Proofs

All theorems are checked by TLAPS. They rest on the assumptions on constants that the modules name, which TLC
evaluates on the instances above, and on nothing else: `TransferAssumption` (a datagram lives for less than half a
round of block numbers, see above), `TimedAssumption` (time-outs are positive), `ServerAssumption` (files are not
empty, a round has more than two numbers, ports given out differ from the other values a port can have),
`CksumAssumption` (the buffer has an even number of bytes, and no more of them than a word has values, which makes two
foldings enough), `ChatAssumption`, `ChatQueueAssumption` and `ArpAssumption` (clients, blocks of memory and processes
are finite in number and the special values differ from the others), and `PingAssumption`. Below, each module with the
reason why its properties are not inductive by themselves.

**`MyftpTransferProofs`.** `Invariance` proves `IInv` of `MyftpTransferInv`. The safety properties say nothing of what
an ACK in flight means. `IInv` adds that

* the server's `block` is the number of the block it sends, and the client's `block + 1` the number of the one it
  waits for (`Numbered`, which states the wrap of both sides);
* a DATA in flight is not older than `Lag` and carries the number of its block;
* an ACK in flight names a block that was written, not older than twice `Lag`, or is ACK 0 of a client that has
  finished.

The heart of the argument is arithmetic: two blocks with the same number are `BlockWrap - 2` apart (`NumberedUnique`),
more than the age of anything in flight, so an ACK with the server's number is an ACK of the server's block
(`AckIsCurrent`), and a DATA with the number the client waits for is the block it waits for (`DataIsNext`). One lemma
per action shows that it keeps `IInv`. From it follow `TypeCorrect`, `PrefixSafety`, `WholeFile`, `StopAndWait`,
`OneRequest` (an action property) and `Refinement`: every step of the protocol is a step of `FileCopy` or leaves it
alone.

`TimedRefines` shows that the protocol on a clock is the protocol, so that all this holds of `MyftpTimed` too.
`ServerWaits` proves `ServerPatience` for all time-outs and bounds that make up 20 seconds; its invariant (`Patient`)
says that a running server has been silent for as long as its counted time-outs and the time gone from the present
one. It asks for no damaged packets (`MaxFaults = 0`), and needs to: in the loop that waits for FRQ, a damaged packet
starts `recvfrom()` anew without clearing `TimeoutNum`, so that the counted time-outs are no longer consecutive and
the server may leave sooner.

**`MyftpServerProofs`.** For any number of clients, ports and children. `TypesHold`, `WrongNameIsClash` and
`FilesAreWhole` come from `Good`, which says of each datagram and each serving child what it may mean for the client
it goes to: a child serves a port that was given to somebody whose FRQ passes, and the number and the part of the
file it has last read agree as long as it has not gone round (`OnCourse`). `FilesAreWhole` is about files shorter than
a round of block numbers (about 32 MB in the code); in a longer one a DATA late by a round is taken for the one of
this round, which the age of datagrams excludes in `MyftpTransfer`.

`UnservedIsClash` says that, while nothing is lost, only a port clash leaves a client unserved. It is a bounded-time
property, and its invariant `Quick` is about what everybody waits for: a child that serves and its client pass exactly
one datagram between them (`OneToken`, `Kept`, `Going`), so no second passes while a child serves; a port in use has
been told to somebody (`Given`); and a client with a port to itself is served in its first second, or, when its FRQ
came before `bind()`, in the next (`Attended`, `LateByClash`), in spite of all the children that are forked for
others.

**`LinkedListProofs`** is about the operators both lists are built from, for lists of every length: what
`LinkToList` and `DislinkFromList` make of a well linked list (`LinkKeepsList`, `DislinkKeepsList`: also which fields
of other blocks they leave alone, on which the walks without a mutex rest), where a walk along `next` leads
(`WalkOfList`), and how many nodes there are (`NodesOnce`).

**`ChatQueueProofs`.** `OnlyOldNextDamages`: unless an old `next` came back, the queue is linked in some order that
consists of what is allocated and not in a receiver's hands, no block is held twice, and a block that is not linked
has no old `prev` (`Sound`). The last part makes `Insert at First` correct although `malloc()` clears nothing: what is
freed was the first of the list, whose `prev` is NULL. `SendsMatchMessages`: in such a queue `MessageListSize` counts
the linked messages (`SizeIsQueued`), and nothing is linked while the sender has the mutex.

`QueueImplemented` there proves `QueueUnlessRecycled`. The proof reads the abstract queue off the same order: the
message at each place is the content of the block at that place (`WaitingIs`), a link puts one in front (`LinkPuts`),
and the steps that do neither, `malloc` and `free` among them, write to no block of the order (`WaitingNow`). `CarryInv`
adds that `content` was written in every block in use, and that `k` counts sends that were made in this pass.

**`ChatProofs`.** For any number of clients, blocks and messages, all eight safety properties: `TypesHold`,
`ListIsOfMembers`, `SenderStays`, `MatchesServed`, `WrongEarClosed`, `LeaversBreak`, `LoginIsHeard`, `ExitIsHeard`.
The invariant follows the threads:

* `OwnBlocks`, `FreshFields`: each thread between `malloc` and `free` has a block of its own, and its links are NULL
  until it is linked; without this, `LinkToList` could lose a part of the list.
* `Lists1`: there is one sequence that is the member list in its order, on which the sender's walk (`SenderWalk`) and
  a login broadcast (`LoginWalk`) stand, each with what is behind it already told.
* `Names`, `Sockets`, `Mutex`: who a member's descriptor leads to, that no two open connections share one, and who
  holds `member_mutex`.
* `ExitWalk`: the exit broadcast takes no mutex, so members may leave under it. Its thread still stands on a path of
  old `next` pointers, through members that are gone, back into the list (`ExitPath`), unless one of them was reused.
* `NobodyLeaves`: until somebody types `Bye` or closes, no thread is in its exit part, and so no `send` or `recv` fails.
* `CountWalk`, `NullStart`: until then the unlocked counts stand on members, and what was counted stays; and a login broadcast
  is at NULL only where it began. `LeaversBreak` needs both.

`QueueImplemented` there proves that `Chat` implements `MessageQueue` (`QueueServed`): the counter of the send loop stays
below the number of messages, because nobody puts one in during a pass, and each round so far has recorded one send in
`carried` (`Rounds`), so a pass ends after exactly as many rounds as there are messages.

Two more theorems are the part of `LeaversGo` that is safety, for any number of clients. `NoCircle`: who holds
`member_mutex` is on its walk and waits for no mutex, so the sender, which has `message_mutex` when it asks for the other,
is never part of a circle. `SenderAdvances`: while the sender has `member_mutex` it stands at some place of the
list, its own steps lead to the place behind, and no step of another thread moves it or the list; the walk is no longer
than the list. That the steps are taken, and that the mutex is not given to others for ever, is fairness and TLC's part.

**`InCksumProofs`.** For every size of byte and every buffer of whole words (the FRQ buffer of the server, which may have an
odd size, is outside; what passes there is in `MyftpServer`). About the arithmetic: the answer fits its type
(`AnswerFits`), a packet with its checksum filled in sums to 0 (`FilledPacketPasses`), and replacing one word of a
passing packet makes it fail, except between 0 and all ones (`WordDamageFails`). About the program, for every
packet: `SameAsDefinition`, `IntactIsPassed` and `DamageIsNoticed`. The invariant of the last two says of `sum` that
it is a function of the words passed that grows by each word (`Tally`), and that the receiver's function is the
sender's up to the damaged word and apart by a constant behind it.

`SameAsDefinition` proves `SameAsReference`. Its invariant (`Summed`) sets beside the receiver's `sum` the sums the
definition forms, with the end-around carry taken at every word (`Ones`): at each turn the two differ by a multiple
of `Word - 1`, the carries not yet folded in, and are 0 together only (`Carries`). At the end two foldings leave at
most all ones, and a residue other than 0 has a single number there (`OneResidue`, `FoldedIn`). The invariant takes
the definition one word at a time, so that no induction over the packet is needed; only that the recursive
definition is the one function with these steps (`OnesSumIs`) needs one over numbers, made by a least counterexample
(`Least`).

**`PingProofs`.** For every `Count` and any number of strays: `Types`, `WrongReply`, `TimesAreTheRounds`,
`UnshownArePaid`.
That no line is wrong says nothing of what is on its way. `OwnReplies` adds that, while no line is a miss, the only
reply in flight or captured, and the only one of its kind, is the one to `seq`, and between two rounds there is none;
this is kept because the line that would break it is a miss. `TimerReset` puts the timer between
the beginning of the round and now, and `InTime` says that, while no line is a miss, the reply to `seq` was captured after the
timer or is one of `raced`. `Paid` counts: the replies still owed,
in flight or captured, are no more than the lines without one of the program's own, and one more during a round.

**`ArpProofs`.** For any finite number of processes, frames and troubles: `TypesHold`, `ModeIsHeld`, `DeafByOther`,
`UpUnlessStale`, `AllHeard`. The type invariant bounds the open questions by the processes; its strengthening (`Rest`)
says that no more have been asked than processes have passed `ask`, which none does twice. `UpAsAdminSet` needs
`FreshFlags`: until somebody writes stale flags, the interface and every fresh copy of its flags have UP as the
administrator set it. `NothingMissed` rests on `DeafOnlyByOther` (who can take the mode off) and `StaysUp` (nobody
takes down an interface that has always been up), and on `Filter` being exactly the test for the address a listener
was given.

**Model-checked only.** Liveness (`Termination`, `TransferCompletes`, `AllReturn`, `QueueEmpties`, `LeaversGo`,
`QueryEnds`, `PingEnds`), which is beyond the proof system here. Every other property of a passing run is stated by
a theorem. The types of `Ping` and `MyftpServer` are proved (`Types`, `TypesHold`) and no run repeats them.

## 5. Not modelled

* `getIFname`, `initServAddr`, `initCliAddr`: system calls in a row, no state that changes afterwards.
* Contents and overflow of buffers (the 512-byte member list of HW3, file names, partial `recv()`s).
* Zombie children of HW5, `fork` that fails.
* HW4: the mode that answers for another host; parsing and printing of packets (`arp.c`), which have no state.
* HW6: the IP header with its source route, and failures of the set-up calls, which end the program before its loop.

## 6. Plan

Done: `MyftpTransfer`, `MyftpTimed`, `InCksum`, `MyftpServer` (with a child that two clients share), `LinkedList`,
`MessageQueue`, `ChatQueue`, `Chat`, `Ping`, `Arp`, and for each the proofs of its safety properties.

What could follow: `MyftpServer` with files longer than a round of block numbers, under the age of datagrams that
`MyftpTransfer` has; the `arp` mode that answers for another host.

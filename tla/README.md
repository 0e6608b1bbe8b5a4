# Verification of the epoll network engine

The repository is a C++ server library: a network engine on Linux `epoll`
(`src/src/NetWork`, the library `NetWork`) and a database connector
(`src/src/DBLib`).  The engine is where the difficult code is: five kinds of
engine threads and the application's main thread pass 64-bit session ids to one
another through lock-free rings, share the sessions those ids name, and must
agree on when a session may be recycled for the next connection.  These modules
model that, the parts around it (reassembly, the callbacks of the application,
start and stop, the client connector, packets and their pools) and the MySQL
connector, check them with TLC on small instances, and prove with TLAPS, for
every value of the constants, all of what the passing runs check but liveness.

Contents: 1 inventory; 2 modules, and how they correspond to the code;
3 runs; 4 fairness; 5 proofs; 6 what the runs found; 7 what is not modelled;
8 plan.

## 1. Inventory

### Threads and how they talk

```
           accept queue (ids)                          close queue (ids)
 accept -----------------------> main <------------------------------ close
   |  \  close requests           | ^ \ close requests, 4 rings:      ^  |
   |   `--------------------------|-|--`------------------------------'  |
   | bind                 send    | | packets                            | stop notices
   v                      work    v |                                    v (LSession*)
 recv thread <---events--- epoll thread ---EPOLLOUT---> send thread   main, epoll,
                                                                      recv, send
```

Every arrow is an `LFixLenCircleBuf` (or, for packets, an `LVarLenCircleBuf`)
with one producer thread and one consumer thread.  The only locks are those of
the session manager: one for each of its free lists and one for the map of sessions that wait
for reuse.

### Components

| component (source under `src/src/NetWork`) | state | operations | hard behaviour | what makes it correct |
|---|---|---|---|---|
| `LMasterSessionManager` | slots (index, session), ring of free slots, ring of free sessions, map "will reuse" | Alloc, Find, Free, AddToWillReuse, MoveWillCloseSessionToSessionPool, KickOutIdle | ids go stale while they travel; slots and sessions are freed by different threads | nothing lost or handed out twice; a session is recycled only when nobody uses it |
| `LAcceptThread`, `LListenSocket` | the session being bound | accept, Alloc, bind to recv, send and epoll thread, announce to main, give up | is not part of the stop protocol | a session it gives up is recovered too |
| `LCloseSocketThread` | 4 request rings, the session being closed | AppendToClose, the polling loops, ProcessDisconnect | duplicate and stale requests; order of retire, map and notices | one disconnect per connection; every requested close ends in the pool |
| `LRecvThread(Manager)` | work ring, first-recv ring, stop ring | receive, reassemble, re-arm or request a close | looks a session up and uses it later | drops what it holds before it acknowledges a stop |
| `LSendThread(Manager)` | work ring, EPOLLOUT ring, stop ring | send what is buffered, arm EPOLLOUT | full system buffer, partial send | bytes in order, nothing skipped; stuck only in known ways |
| `LEpollThread(Manager)` | epoll set, stop ring | epoll_wait, dispatch | EPOLLONESHOT, full work rings | deaf only in known ways |
| `LSession`, `LSocket` | id, bindings, stop flags, close flag, send ring, receive ring, buffer-full flag | Reset, SendData..., RecvData, AddToEpollWaitThread | flags read by one thread and written by another around `epoll_ctl` | a raised full flag has an EPOLLOUT coming, unless it was overtaken or lost |
| `LFixLenCircleBuf` | buffer, read index, write index | AddItems, prefixed AddData, GetOneItem, RequestItems, CopyAll, ClearContent | no lock; batches and prefix over the end of the buffer | is a bounded FIFO queue |
| `LVarLenCircleBuf` | the same, with packets that carry a 4-byte header | AddData, AddSessionIDAndData, GetData | header and data cut by the end in several layouts | is a FIFO queue of packets |
| `LNetWorkServices`, `LServerBaseNetWork` | accept, packet and close queues of main, position of a round, ids kicked out | ProcessRecvedPacket, SendPacket, KickOutSession, Start, Stop | limits per queue and round; results that are ignored | OnAdd before OnRecved; OnRemove for all that was added; a close that is marked was asked for |
| `LThreadBase` | `m_nStop`, handle | Start, Stop, CheckForStop | a join that waits for a thread in `epoll_wait`; a counter compared with 1; a `pthread_create` that fails unnoticed | Stop returns; nothing is freed under a running thread |
| `LConnector` | one socket, two rings, connected and sendable flags, bytes not parsed yet | Initialize, ReConnect, select loop, DoRecv, ParseRecvedData, SendPackets, GetOneRecvedPacket, SendOnePacket | rings are reset under the application; a number closed twice; partial sends; a 1-byte header | packets in order, nothing of an earlier connection on the wire, given up only for cause |
| `LPacketBase`, `LPacketSingle` | bytes with their length in front, read position, error code | typed writes and reads, id, CRC, Reset, DirectSetData | error codes that are sticky; cursor that is not reset; 64-bit values cut to 32 | what was written is what is read |
| `LPacketPoolManager` | rings of packets by size | Initialize, RequestOnePacket, FreeOneItemToPool, Request, CommitToAnother | the sort of the sizes; batches over the end of a ring; partial commits | no packet lost, doubled or under a wrong size |
| `XMySqlConnector` (`src/src/DBLib`) | parameters, bound buffers and columns, texts, statement handle | InitBindParam, BindParam, ExcuteSql, Fetch, FindResult, GetOutputResult, FreeMoreResult | legal orders of calls; several result sets; output parameters by position | outputs land in the right parameters, rows in the right columns |
| `CRC32`, configuration, logging, mutex helper | - | table lookup, read an ini file, log, scoped lock | sequential | - |
| `XSqlServerConnector` | the same over ODBC | the same | Windows only (`_WIN32_`) | - |
| samples and tests (`NetWorkTest`, `myServer`, `singleserver`, ...) | - | applications of the engine | - | - |

`PROJECT.json` lists the same components with their status, and under
"hazards" each place where this code can go wrong in a way a test would hardly
reach, with its line and the properties that watch it.

### Life of a connection

1. *Accept*: `accept()`, `AllocSession` (a free slot and a free session; the id
   is slot and index), bind to the three threads, post the id to main.
2. *Open*: main calls `OnAddSession`, then posts the first receive; the receive
   thread adds the descriptor to epoll.  From then on epoll events become work
   of the receive and the send thread, and `SendPacket` of main appends to the
   session's send ring and posts send work.  All of these carry the id and
   look the session up again.
3. *Close*: anyone posts the id to the close thread.  The close thread looks it
   up (a stale id is dropped), `FreeSession` empties the slot, bumps its index,
   closes the descriptor and puts the slot back; the session goes to the map
   "will reuse"; each worker gets a stop notice with the pointer; main gets the
   id for `OnRemoveSession`.
4. *Reuse*: each worker acknowledges its notice by a flag in the session.
   A worker that then sees all four flags moves the session to the pool.

## 2. Modules

| module | role |
|---|---|
| `SessionPool` | abstract: a session is free, live or closing, and has users; it is acquired only while live and recycled only when unused |
| `SessionLifecycle` | detailed: `LMasterSessionManager` with the accept, close and four worker threads; implements `SessionPool` |
| `SessionLifecycleProofs` | theorems about `SessionLifecycle`: types, free lists, ids |
| `SessionPoolProofs` | theorems about `SessionLifecycle`: acknowledgements, and that it implements `SessionPool` |
| `SessionReturnProofs` | theorems about `SessionLifecycle`: no close request, no stop notice and no disconnect is forgotten |
| `BoundedQueue` | abstract: a bounded FIFO queue with batched puts |
| `FixLenRing` | detailed: `LFixLenCircleBuf`, every `memmove` and every index publication a step; implements `BoundedQueue` |
| `FixLenRingProofs` | theorems about `FixLenRing` |
| `PacketQueue` | abstract: a FIFO queue of whole packets |
| `VarLenRing` | detailed: `LVarLenCircleBuf` with headers and session ids cut by the end of the buffer; implements `PacketQueue` |
| `VarLenRingProofs` | theorems about `VarLenRing` |
| `SessionIO` | one current session: main, epoll, receive and send thread, EPOLLONESHOT, the system's buffers and the peer |
| `SessionIOProofs` | theorems about `SessionIO` |
| `RecvStream` | `LSession::RecvData`: packets put together from a stream that is cut anywhere |
| `MainLogic` | the rounds of the main thread and the callbacks of the application, against accept, receive and close thread |
| `ServiceThreads` | `LThreadBase` and the order of start and stop of all threads |
| `ServicesProofs` | theorems about `ServiceThreads`, `MainLogic` and `RecvStream`, one section each |
| `Connector` | `LConnector`: its thread, the application's thread, the server, and the descriptors of the process |
| `PacketBuffer` | `LPacketBase`: one sending and one receiving object |
| `PacketPool` | `LPacketPoolManager`: several pools and the callers that hold packets |
| `MySqlStatement` | `XMySqlConnector` and the client library behind it |
| `ClientsProofs` | theorems about `Connector`, `PacketBuffer`, `PacketPool` and `MySqlStatement`, one section each |
| `MCSessionLifecycle`, `MCVarLenRing`, `MCSessionIO` | the modules TLC is run on; the configurations give the constants |
| `MCServices` | one instance each of `FixLenRing`, `RecvStream`, `MainLogic` and `ServiceThreads` |
| `MCClients` | one instance each of `Connector`, `PacketBuffer`, `PacketPool` and `MySqlStatement` |

The parts meet at three interfaces.  `SessionLifecycle` and `SessionIO` use
rings as bounded queues, which is what `FixLenRing` proves of them.  The events
and packets that reach main (`announced`, `told`) travel through packet rings,
which `VarLenRing` shows to be queues of packets.
`SessionIO` ends where a close request is made (`closeSent`); what follows is
`SessionLifecycle`, in which a worker's visit to a session is one
find-use-finish-or-ask.  `RecvStream` is what `SessionIO` calls a receive, byte
by byte; `MainLogic` follows the ids of the sessions through the rings to the
application, where `SessionLifecycle` follows the session objects.

`MCServices` and `MCClients` run parts that share no state: a variable `part`,
set by the initial state, says which of them takes steps, and the others stay
where they began.  The states are those of the parts side by side, never their
product.

Definitions whose comment begins "Mutant of" are plausible bugs.  No
specification uses them; substituting one for the definition it names must
break the property listed with it in `PROJECT.json` ("mutants"), which shows
that the property can tell the code from the bug.

### SessionLifecycle and the code

A step is what a thread does between two accesses to state that another thread
also writes.

- *Ids*: `[slot, index]` stands for the 64-bit id `slot << 32 | index`.
  `FindSession` compares the index with the slot's.  It is one step although
  it reads index and pointer one after the other: the pointer changes only in
  Alloc and Move, and Move needs the acknowledgement of the very worker that
  would be between the two reads.
- *Stale ids.*  A worker's incoming id rings are not modelled; `Find(t)` picks
  any current session the worker can know.  An id that is not current is
  dropped by the code without a state change.
- *Free lists.*  `freeSlots` and `pool` are two queues in the code and in the
  model.  That they stay in lock-step, slot `k` with session `k`, is not
  assumed: it is part of `SessionsConserved` and proved.  For the same reason
  the two error branches of `AllocSession` cannot be reached.
- *MoveToPool* is one step: the code holds the mutex of the reuse map over
  lookup, unbinding, `FreeSessionToPool` and erase, and the map is touched
  nowhere else without it.
- *AckStop / CheckStop / MoveToPool* are separate steps, as in the workers'
  loops: raise the own flag, read all four, call the manager.
- *TakeRequest* is lookup and `FreeSession`; the close thread alone changes
  the index of a slot.  The order in which it visits its request rings is left
  open.  Notices, reuse map and disconnect event are a step each.
- *Requests*: receive and send thread set the close flag only when the append
  succeeded, main in any case.  Append and flag are one step for a worker,
  which still owns the session, and two steps for the accept thread, which
  does not (`AcceptMarks` may hit a session already back in the pool).
- *Three named assumptions* about delays and room.  `AcceptMayStall` (constant):
  may the accept thread be delayed longer than the idle timeout while it binds?
  `CloseQueueRoom` (constant): does the queue of disconnects to main always have
  room?  The third is a specification: `Spec` is the code as it is, and
  `PromptSpec` leaves out the steps that hand out a session which a worker has
  seen with all four flags and is about to put back.  No line of the code
  prevents such a step, though a worker would have to be late by the time another one takes to
  put the session back and the accept thread to use it again; section 6 says what it does.
- *Request rings.*  The epoll thread has a ring too, which nobody fills.
- *Descriptors*: `accept()` returns the lowest free number, as POSIX says.
- `WornOut` lets a run stand still when every slot reached `MaxIndex`; any
  other standstill is a deadlock and is reported.

### FixLenRing and the code

`AddItems` and `AddDataToFixCirclebufForItemSizeOneByte` compute their pieces
from one snapshot of the indexes (`ItemPieces`, `PrefixedPieces`: the four
layouts of prefix and data at the end of the buffer), `CopyIn` is one
`memmove`, `PublishWrite` the single store of the write index.  The consumer
operations (`GetOneItem`, `RequestItems`, `CopyAllItems`) are cut into pieces
likewise, each published on its own, as `SetReadIndex` does it.  A call
without room, or on an empty ring, returns an error code and changes nothing;
it is no step.  `LeaveItems` is the caller that does not publish (the other ring is
full, `send()` failed).  `ClearContent` requires that nobody uses the ring,
which is what `SessionLifecycle` shows of the moment `Reset` is called; the
connector calls it without that, and `Connector` has its own model of it.  The
buffer starts with arbitrary content.  The stores are taken in program order;
the code uses plain variables and relies on x86 for that.

### VarLenRing and the code

A packet is a header (its total length), an optional session id and data.  A
byte is known by what it is part of (`kind`, `of`, `part`), so that a header
that was cut in the wrong place, or read from the wrong place, is not the
header of any length.  `DataCut` and `IdCut` are the case trees of `AddData` and
`AddSessionIDAndData`: the lengths of the `memmove` calls; `Pieces` lays them
one after the other, going back to place 0 where the code does.  `GetData`
takes the snapshot, `CopyOut` is one read, `ReadLength` checks the length and
chooses the copies of the body, `PublishRead` is the one store of the read
index.  The two impossible cases end in `"fatal"`, in which the caller in main
gives up; the packet would still be the first at the next call.  The abstract
queue is parsed from the bytes between the indexes, not from a history.
`ClearContent` is not an action: only the connector calls it.

### SessionIO and the code

- Bytes are numbered; byte `b` lies at place `(b-1) % SendCap`.  The send
  thread reads the write index once (`snap`) and sends in one or two pieces,
  each followed by its own store of the read index.
- `send()` accepts as many bytes as the system buffer has room for; a result
  above zero counts as the whole piece (`LSession.cpp:500`).
- `m_nSendBufIsFull` and `epoll_ctl` are separate steps in both threads that
  touch them: the receive thread reads the flag (`ChooseEvents`) and arms the
  descriptor (`AddToEpollWaitThread`), the send thread raises the flag
  (`SendBufIsFull`) and arms the descriptor (`SendDataFailedProcess`), in any
  interleaving.  `raised` remembers that the flag went up after the receive
  thread had read it.
- An event delivered disarms the descriptor (EPOLLONESHOT).
- The rings between the threads are shared by all sessions, so each of them may
  be full at any time (`Put`, `AppendToClose`; the constant `RingsHaveRoom` says
  whether the other sessions can fill them).  Send work that finds no room has
  main kick the session out; an event is lost; the first receive is lost with a line in the log;
  a request of the receive or the send thread for the close is refused, and then
  neither the flag is set nor the descriptor armed again.
- `RecvData` is reduced to its outcomes: re-arm or ask for a close.
- `SendPacket` may run before the descriptor is registered (inside
  `OnAddSession`); `EPOLL_CTL_MOD` then fails and the send thread asks for the close.

### RecvStream and the code

`unparsed` is the sequence of packets that `RecvData` has not taken, `unread`
how many of their bytes `recv()` has still to return; `contentLen` of them are
in the buffer.  `RecvBytes` lets `recv()` return any number of bytes that fits,
so a header may be cut and several packets arrive at once.  The loop of
`RecvData` is one step per packet (`TakeRecvedPacket`), since main may take
packets from the ring in between; each way out of the loop is an action.
Lengths are any of a set that lies below, at and above the limits, and a peer
that writes an illegal length has sent a header only: what follows is never
read.  A length of 2 is a header alone: legal to `RecvData`, refused by the ring
to main (`RefusePacket`).  `StreamBufLen = StreamMaxLen + 4` is `InitializeRecvAndSendBuf`'s choice.

### MainLogic and the code

An id stands for a session, used once.  The main thread's round is `mainAt` and
`count`: the accept, packet and close ring, at most `PerQueue` items of each,
then the idle check.  `OnAddSession` and the `AddFirstRecvOfSession` behind it
are two steps, for the close thread may retire the session in between.  The
receive thread looks a session up (`Receivable`), may find that it was retired
since, and still queues its packets: the close thread runs between any two of
its steps.  The send thread may find any session the application knows, for main
makes it work by sending, and asks for a close when its `send()` fails.  The
application may kick a session out from inside any callback, `OnAddSession`
before the first receive included.  Requests to the close thread go through one bounded ring per
thread; `RequestClose` sets the flag when the ring took the id, and
`ProcessKickOutSession` in any case.  A ring that is full loses an id exactly
where the code drops the result.  `KickOutIdleSession` waits until main has
handled the accept, as `m_usTime` seconds would.

### ServiceThreads and the code

`StartRank` and `StopRank` are the orders of `LNetWorkServices::Start` and
`Stop`; threads of one manager have the same rank.  `Stop` takes a group at a
time: the flags of all of its threads, then a join of each.  `pthread_create`
may fail; the code compares its result with -1, so the thread counts as started
and its handle is whatever was there (`"bad"`): joining it fails or crashes.
The accept thread sleeps in `epoll_wait(-1)` until a client connects; the other
threads never sleep for long and are modelled by `Leave` alone.  `MayQuit` are
the two threads whose loop ends on an error of `epoll_wait` or `accept`.

### Connector and the code

Bytes put and packets heard are numbered.  `GetOneRecvedPacket` and
`SendOnePacket` of the application are two steps each, copy and index.
`ReConnect` clears both rings under them by four stores, each a step: the read
index of the receive ring (in `ReConnect`), its write index (`ClearRecvWrite`),
and the same for the send ring (`ClearSendRead`, `ClearSendWrite`).  `getTorn`
and `putTorn` remember that a call of the application was caught; for
`GetOneRecvedPacket` that includes a call that began between the two stores: it
sees a read index of 0 and the old write index, gets an old packet again, and
leaves the read index ahead of the write index.  The thread's position is `pc`:
waiting for the reconnect time, the stores of the reset, `socket`, `connect`,
`select`, the parser's loop, sending.  `ReConnect` closes
the number in `m_Socket` and leaves it there; descriptors are given out lowest
first and `OtherOpens` is the rest of the process, so the stale number may
become somebody else's.  `select()` with no socket sets a bit outside the set:
either nothing is noticed or the process is aborted.  A header of one byte is
read as two, the second of which is arbitrary (`ParseRecvedData`).  `recv()` may
find no bytes though `select()` reported some; `E_Socket_No_Recv_Data` is
negative, and `ThreadDoing` gives the connection up.

### PacketBuffer and PacketPool and the code

A byte of a packet is the field it is part of and its number in it, so that a
read across fields, or behind the data, yields no field.  Values of 8 bytes are
`"low"` or `"wide"`, which is all that `htonl` on a `long` tells apart.  CRC is
an injective function of what it covers.  A read that fails returns a number all
the same and sets the error code; it is recorded as a read of no field
(`NoField`).  In `PacketPool` a ring is its items,
its size and its read index: the index decides how many items lie before the
end of the buffer, which `Request` and `CommitToAnother` treat apart.  The sort
of `OrderAndSetPacketDesc` has a wrong third assignment, which copies back what
the second wrote: the inner place keeps its entry, and each place ends with the
shortest entry that lay there or behind it (`Ordered`).  So a size may be there
twice, and another not at all.  `CommitAllLocalPacketPoolToGlobalPacketPool` returns at once
when it has a global pool and passes on NULL, which every call refuses, when it
has none: it changes no state and is no action.

### MySqlStatement and the code

The switches over data types are the functions `Numbers`, `WideNumbers`,
`Texts` and their counterparts for columns; their assertions are compiled in
(no makefile defines `NDEBUG`), so a bind too many ends in `"aborted"`.  SQL
text is the list of variables it names and whether a comma is left at its end.
The client library is external: a statement has a current result and more to
come; `CALL` ends with a status that has no fields; `prepare` fails while
results are waiting.  A value of an output variable is the place of the
parameter the server meant.

Two facts of the code show as branches that cannot succeed: a procedure with
two INOUT parameters (its `set` text holds two statements, which cannot be
prepared as one), and output parameters followed by an IN parameter as the last
(the `select` ends in a comma).  `FindResult` returns true when no result
matched; that does no harm, for the bind that follows fails.

## 3. Runs

| run | instance | shows |
|---|---|---|
| `lifecycle_safety` | 1 session, 2 incarnations, request rings of 1, all workers at work, disconnect queue may overflow | types; a holder's session is not recycled; an acknowledged session is let go; one disconnect per connection; implements `SessionPool` |
| `lifecycle_two` | 2 sessions, 2 incarnations, request rings of 3, receive thread at work | slots and sessions conserved; stop rings never need more than N places |
| `lifecycle_live` | 1 session, 2 incarnations, main and receive thread at work | a requested close ends in the pool; every close is reported |
| `lifecycle_fd` | 2 sessions, 1 incarnation | violation: a worker still uses a descriptor that is another connection's |
| `packet_ring` | 10 places, header 3, id 2, data up to 2 | sides apart; never a fatal error; implements `PacketQueue` |
| `io_session` | send ring 3, work rings 2 that may be full at any time, system buffer 2, packets up to 2, 4 bytes out, 1 in | bytes in order; a session waits in vain for room, or turns deaf, in the listed ways only; what is appended is taken, or the session is closed or got stuck in one of these ways |
| `io_deaf` | smaller, and rings that have room | violation: bytes of the peer are never received |
| `io_partial` | as `io_deaf` | violation: bytes are skipped after a partial `send()` |
| `services` | ring: 5 places, batches up to 2, prefix of 2, 2 item values; stream: 4 packets, lengths 1 to 5, limit 4; logic: 2 sessions, rings of 1, a round of 1 per queue, 2 packets; threads: 6 in 5 groups, 1 client | indexes in range, producer and consumer apart, the ring implements `BoundedQueue`; nothing received is held back and a session is given up only for cause, the keep-alive aside; OnAdd before OnRecved, every removal reported, every close that is marked asked for; threads stop in order and Stop hangs only in `epoll_wait` |
| `services_keepalive` | as `services` | violation: a packet that is a header alone closes the session |
| `services_late` | as `services` | violation: a packet of a session the application was told is gone |
| `clients` | connector: 2 descriptors, rings of 3 and 3 places, 3 attempts, up to 3 packets in and 3 bytes out, 4 together; packet: 2 fields, 2 reads; pools: 2 of up to 3 sizes; MySQL: 2 parameters, 3 binds | the wire is of this connection; packets in order; foreign descriptors closed only after a failed attempt; a legal stream refused only at one byte; fields arrive intact; packets keep their place; outputs and rows land where they belong |

Why the bounds are enough to be of interest.  Two incarnations of a slot are
the least in which an id can be stale and a session reused.  One session
gives all races on one session; two sessions give the pairing of slots with
sessions and the reuse of a descriptor by another one.  Request rings of one
place make them overflow.  A ring of 5 places with a prefix of 2 and batches of
up to 2 lets the end of the buffer fall into the prefix, behind it, into the
data and behind the data, in both directions of the indexes; places are reused
without limit, for the ring of `services` has no bound on the number of calls.  The packet ring
holds packets of 4 to 7 bytes in 9 places, with or without an id, at every
offset; a header of 3 can be cut in two ways and an id of 2 in one.  A send
ring of 3 holds 2 bytes, so that with 4 bytes sent the data wraps and the ring
overflows; a system buffer of 2 can be full, or accept a part.  That the work
rings hold 2 matters little, as `Put` may find them full anyway.  The input of
`SessionIO` is bounded and a session may simply wait for the peer, therefore
its configurations switch the deadlock check off; so do `services` and
`clients`, whose inputs are bounded too and in which a service that was stopped
stays stopped.

In `services`, lengths 1 and 5 are illegal, 2 is a header without data, 4 fills
a packet and with the 4 bytes that follow fills the buffer of 8; with four
packets two of them and a part of a third are received at once.  Rings of one
place overflow with two sessions, and a round of one item per queue leaves
items behind in each.  Six threads in five groups are the engine with two send
threads, the least in which a group has two.  In `clients`, three attempts are
the least in which a foreign descriptor can be closed: a first one succeeds, a
second closes its number and fails, somebody else gets the number, and the third
closes it again.  A receive ring of 3 places holds two packets, the least with
an order; a ring of 3 places wraps with 3 bytes; two descriptors let one be
somebody else's.  A packet buffer of 14 bytes for the sender holds a long and a short,
not two longs, and one of 12 bytes at the receiver refuses some packets the
sender could build.  Two parameters and three binds reach the first kind of
every error of the MySQL connector: a list one too long, an output before an
input, a statement run twice.

## 4. Fairness

Liveness is checked under `FairSpec`.  Each thread runs its loop for ever:
weak fairness of the step it is in.  A loop polls *each* of its rings once per
iteration and takes a bounded number of items from any other ring in between,
so a poll is not starved though other work interrupts it again and again:
strong fairness for `AckStop`, `TakeRequest`, `ProcessSendWork` and
`ProcessEpollOutEvent`.  Nothing is assumed of what the environment decides:
no fairness for new connections, for the application's sends and kicks, or for
the peer's sending and leaving, and clients connecting (`ServiceThreads`).
`AppendedIsTaken` is about a peer that keeps
reading (`PeerReads` is weakly fair); with a peer that does not, data waits.

`ThreadsFairness`: a thread that runs and sees its flag leaves its loop, a
connection that has come ends the accept thread's wait, and the caller of Stop
goes on when it can.  Of the connector no liveness is checked and no fairness
assumed: after a partial `send()` bytes are lost, so that no promise about what
the application put would hold.

## 5. Proofs

TLAPS proves every invariant, action property and refinement that a passing run
checks, for all values of the constants that satisfy the named assumptions of
the modules.  The runs' bounds on the number of calls, bytes or attempts
(`MaxBytes`, `MaxHeard`, `MaxIndex` and their like) are constants in the
theorems, too: they hold for every bound.

| theorem | states | needs, beyond the module's assumption |
|---|---|---|
| `TypeCorrect`, `LifecycleInv`, `Conserved` | `TypeOK`, `IInv`, `SessionsConserved` | - |
| `AcknowledgementInv` | `AckInv` | `[][NotOvertaken]_vars` |
| `NobodyHoldsRecycled`, `AcknowledgedLetsGo`, `StopRingsSuffice` | `HeldNotRecycled`, `AcknowledgedIsLetGo`, `StopNoticesFit` | `[][NotOvertaken]_vars` |
| `PublishedOnce` | `DisconnectOnce` | - |
| `LifecycleIsSessionPool` | `ImplementsSessionPool` | `[][NotOvertaken]_vars`, `~AcceptMayStall` |
| `RetiredIsOnItsWay` | `ReturnInv` | `[][NotOvertaken]_vars`, `~AcceptMayStall` |
| `RequestsAreKept` | `AskedIsRequested` | `[][NotOvertaken]_vars`, `[][MainHasRoom]_vars` |
| `NothingLeaks` | `QuietMeansReturned` | the three of the two rows above |
| `ClosedConnectionsAreReported` | `ClosedIsReported` | `CloseQueueRoom` |
| `FixLenRingProofs!RingInv`, `RingTypeCorrect`, `RingSidesApart` | `IInv`, `TypeOK`, `Apart` | - |
| `RingIsBoundedQueue` | `ImplementsBoundedQueue` | - |
| `VarLenRingProofs!RingInv`, `SidesStayApart`, `GetDataNeverFatal` | `IInv`, `Apart`, `NeverFatal` | - |
| `QueueOfEnds`, `RingIsPacketQueue` | the mapped queue, `ImplementsPacketQueue` | - |
| `SessionIOInv`, `BytesGoInOrder` | `IInv`, `WireInOrder` | - |
| `WaitsInVainOnlyByLoss`, `DeafOnlyInTheseWays` | `StuckOnlyByLoss`, `DeafOnlyByLoss` | - |
| `ThreadsInvariant`, `StopsInOrder` | `ThreadsInv`, `StoppedInOrder` | - |
| `StreamInvariant`, `NothingIsHeldBack`, `GivenUpForCause` | `StreamInv`, `NothingHeldBack`, `ClosedForCause` | - |
| `LogicInvariant`, `NoPacketBeforeAdd`, `GoneIsForgotten`, `MarkedIsRequested` | `LogicInv`, `AddBeforeRecv`, `RemovalReported`, `ClosingIsRequested` | - |
| `ConnectorInv`, `ConnectorTypes`, `WireOfThisConnection`, `PacketsInOrder`, `OthersClosedAfterFailure` | `IInv`, `TypeOK`, `WireIsOfThisConnection`, `GotInOrder`, `ClosesOthersOnlyAfterFailure` | - |
| `GivesUpForCause` | `ClosesLegalOnlyAtOneByte` | `MaxPacketLen <= RecvBufLen` |
| `BufferInvariant`, `PacketsArriveIntact` | `BufferInv`, `DeliveredIntact` | - |
| `PoolInvariant`, `PacketsAreKept` | `PoolInv`, `PacketsKeepTheirPlace` | - |
| `StatementInvariant`, `OutputsReachTheCaller`, `RowsGoIntoTheColumns` | `StatementInv`, `OutputsOfTheCall`, `RowsFillTheColumns` | - |

The hypotheses, and why they are there:

- `NotOvertaken` says of a step that it does not hand out a session a worker is
  about to put back.  Between the check of the four flags and
  `MoveWillCloseSessionToSessionPool` lie a few instructions of a worker, while
  the other side is another worker's move and a new connection; the code has nothing that
  rules it out, and section 6 says what happens then.  It is a hypothesis on the
  behaviour, and `PromptSpec` of the runs is `Spec` with it
  (`SessionPoolProofs!PromptIsSpec`).
- `~AcceptMayStall`: the idle check of main does not retire a session while the
  accept thread is still binding it, as the seconds of idleness make sure.
  Otherwise a thread whose id is not set yet gets no notice, its flag never
  rises, and the session does not come back.
- `MaxPacketLen <= RecvBufLen`: `Initialize` takes both as they come; with a
  smaller buffer a legal packet can never be complete and the connection is
  given up.
- `MainHasRoom`: `ProcessKickOutSession` finds room in the ring of the main
  thread.  It sets `m_nCloseWorkSendedToCloseThread` whether the append
  succeeded or not, and with the flag up nobody asks again: without this
  hypothesis the session is lost (`ClosingIsRequested` names the same case).
- `CloseQueueRoom`: the queue from the close thread to main has room; an item
  that does not fit is dropped.

*Why `SessionsConserved` needs strengthening.*  It says that the two free lists
are equal and without repetition, and that a session outside them owns its
slot.  Preserving it over `TakeRequest` needs that the id a request carries,
if current, names a session outside the pool: hence `IndexRunsAhead` (a pooled
session's slot index is one past its id, so `FindSession` cannot return it).
Preserving that over `TakeRequest`, in turn, needs that no request carries an id of the future:
hence `IdsIssued`.  Preserving `AllocatedKeepsSlot` over the close thread's next step needs
`RetiredBeforeReuse`.  `MoveToPool` rests on the map lookup, so it does not
matter which worker moves, or how late: a delayed mover may recycle the
wrong incarnation but never corrupts the lists.

*The acknowledgement.*  A session goes through: in use, retired, told to one
worker after the other, acknowledged by one after the other, recycled.
`AckInv` follows a worker through it.  A notice under way is of a retired
session (`NoticesOfRetired`), is there once, and the flag is not up yet
(`NoticeThenFlag`); a worker the close thread has still to tell
(`CloserTellsInTurn`) has neither; a worker that holds a session has no flag in
it (`UserHasNoFlag`), because it drops what it holds before it takes a notice,
and it finds no session that is retired; a worker on its way to put a session
back sees all four flags (`MoverSeesFlags`).  The last is where `NotOvertaken`
enters: `AllocSession` takes the flags down.  `HeldNotRecycled` and
`AcknowledgedIsLetGo` are then a step away.  For
`StopNoticesFit` the notices of a worker are mapped one to one to the sessions
outside the pool, of which there are at most `N`.  For the
refinement, `AcceptedIsPrivate` is also needed: until the accept thread
announces or gives up a session, nobody else holds its id.

*No session is lost.*  `RequestedCloseIsRecycled` is liveness, but what it needs of
the state is an invariant: there is always a thread with the next step to do.
While a flag says that a close was asked for, the request of this very
connection lies in a ring (`AskedIsRequested`).  It survives the other requests:
the close thread drops only those whose id is stale, and the id of a session that is
neither pooled nor retired is current (`LiveIsCurrent`).  The accept thread sets
the flag a step after its append, so the flag it is about to set counts as set.
Of a retired session each worker raised its flag, has its notice, or is still to
be told (`EachWorkerHears`); that no one is left out rests on `BoundInFull`, as
`ProcessDisconnect` tells only threads whose id is set.  And when the fourth
flag rises, who raised it reads the four after it, so with four flags up a worker
is between its flag and the pool (`LastFlagReturns`): another one may have put the
session back first, but then it is no longer retired.  In a state where no
thread is at work and no ring holds anything these exclude each other, hence
`NothingLeaks`.  `ClosedIsReported` does the same for `DisconnectIsReported`: the
close thread keeps the id `FreeSession` made stale until it is published.

*The ring of items.*  The invariant says of each side that the pieces still to be moved
are contiguous from its index, lie in its own part of the buffer, and end where
the index to be published points; for the producer also that the places behind
the write index already hold the part of the batch that was copied.  Publishing the write index then
appends exactly the batch to the abstract queue, publishing the read index
removes exactly what was copied out.

*The ring of packets.*  `Framed` says that there are ends of packets, counted
from the read index: between two of them lie the bytes of one whole packet, and
the last end is the write index.  `ProdInv` and `ConsInv` say how far each side's
call has come, for any of the ways the end of the buffer cuts header, id and
data (`FirstCutReadable` is the heart: `GetData` cuts a header as `AddData`
did).  The abstract queue is read from the bytes packet by packet, by a
recursive function over the distance.  That this function returns the packets
of `Framed` (`QueueOfEnds`) is induction over their number.  The library's
induction theorems cannot be used, as their parameter is an operator; instead
the set of the numbers for which the statement fails, if it is not empty, has a least
member (`WellFoundedInduction`'s `WFMin`, whose parameters are sets), and the
step refutes it.

*One session's input and output.*  `SentIsTaken` and `WireInOrder` give the order
of bytes.  `StuckOnlyByLoss` and `DeafOnlyByLoss` are about the step in which the
last chance of an event is lost, so the invariant has to say what the state
before it holds: if the flag of a full buffer was up when the receive thread
chose its events, or has been up since without `raised`, the choice contains
EPOLLOUT (`ChosenEvents`).  Then each action is gone through: a chance passes from the
choice to `epoll_ctl`, to epoll, to the ring of the send thread, and is lost in
one of the listed steps or not at all.

*Start and stop.*  Stop is a sweep over the groups.  The invariant says that of
the groups behind `group` no thread runs, and of those before it none was told
to stop; a thread of the present group was told so only while Stop joins it.
A join moves the sweep on only when the whole group is done.  That no thread
starts behind the sweep holds because the sweep is still at the first group
until Start is over (`NotStoppedYet`).  `StoppedInOrder` follows: a thread of a
higher rank that was told to stop is at or behind the sweep.

*Reassembly.*  `NothingHeldBack` is about what is in the buffer, so it needs that
the bytes in the buffer and those under way are together exactly the bytes of
the packets not taken yet (`AllAccounted`): with bytes in the buffer there is
then a packet they belong to, and taking the packet in front takes its bytes
and no others.  Instead of a sum over a sequence, `AreBytesOf` says that there
is a function from positions to the
end of each packet, and `AppendBytes` and `TailBytes` extend it by one packet
and shift it.  `Consecutive` counts the packets through, and what `LookAtHeader`
leaves behind (`LookAtHeaderHolds`) serves both after a `recv()` and after a
packet was taken.

*What the application sees.*  Nothing in the code orders the ring of the accept
thread and the ring of the close thread, so why does `OnAddSession` not follow
`OnRemoveSession`?  Because of `FreshIsUntouched`: as long as a session is with
the accept thread or in its ring, the application does not know it and no close
request names it, so it is not retired.  It is preserved because the receive
thread learns of a session only after `OnAddSession` (`ReceivedIsKnown`), the
application kicks out only what it knows, and the idle check finds a session
only after the announcement was handled (the guard of `KickOutIdleSession`,
which stands for the seconds of idleness).  `AnnouncedOnce` keeps the session
that is taken out of the ring from being in it twice.  The three properties then
follow with `UnusedIsNowhere` and `ReportedIsRetired`.

*The connector.*  Both rings are reset by `ReConnect`, store by store, while the
application may be inside a call.  The invariant therefore speaks of a ring only
if the last reset did not catch a call (`getTorn`, `putTorn`): what the ring
holds is then what was put into it since that reset, in order.  Between the two
stores of a ring it says only what the second store will find.  The bytes in the
receive buffer
and under way are whole packets, by ends as in the reassembly; this and the room
the buffer has left give `GivesUpForCause`.

*Packets.*  A packet object's bytes are the fields added, each as wide as its
kind, and the code behind them, until an id is written over them; the read
position is the end of a field.  Ends of fields again take the place of sums.
The receiver's reads then follow the sender's fields one by one.

*Pools.*  That no packet is lost is a sum over pools, rings and callers.  The
model counts it as the cardinality of a disjoint union of places, so that the
proof can use the library's facts about finite sets: a ring taken out of the
union and put back with one place more or less changes the number by one.  What
a caller gets is long enough because the first ring that fits is not
too short; the sort, which may keep one size twice and lose another, does not
matter for it.

*The MySQL connector.*  `CallKept` ties what was sent at the last call to
what is bound: between `InitBindParam` and the call nothing of an earlier call
is left, after it each OUT and INOUT parameter has a variable of the server that
holds what the call left there, in ascending order of the parameters
(`AllInOrder`: the listing of `1 .. n` is the identity).  `BoundFills` ties
the current result to the columns, by the comparison of types in `Matches`.

Only model-checked are the liveness properties (`RequestedCloseIsRecycled`,
`DisconnectIsReported`, `AppendedIsTaken`, `StopHangsOnlyInAccept`)
and that nothing deadlocks: liveness under fairness and ENABLED are
beyond TLAPS here.  The violations of section 6 are TLC's as well.

## 6. What the runs found

Each "violation" run contradicts a line of the repository (quoted in
`PROJECT.json`, "findings"):

1. `lifecycle_fd`: the descriptor is closed before the workers are told, and
   may belong to a new connection while a worker still uses the number.
2. `io_deaf`: an EPOLLOUT delivered alone disarms EPOLLIN, which a successful
   send does not restore.
3. `io_partial`: a partial `send()` is counted as complete.
4. `services_late`: packets of a session may reach the application after
   `OnRemoveSession`.
5. `services_keepalive`: a packet that is a header alone closes the session; a
   comment of the receive thread calls it a keep-alive.

Two more need a delay longer than the code seems to expect.  The passing runs
exclude them; this is how to see them:

- `HeldNotRecycled` of `SessionLifecycle` under `Spec` instead of `PromptSpec`
  (the other constants as in `lifecycle_safety`, `CloseCap = 3`, only the receive
  thread active): the reuse map is looked up by pointer, so a worker that saw
  the four flags, and comes to `MoveWillCloseSessionToSessionPool` only when the
  session was put back, handed out and closed again, puts the next incarnation
  back while the close thread still works on it.
- `RequestedCloseIsRecycled`, with `AcceptMayStall = TRUE`: threads bound after
  the close never hear of it and the session is lost.

The ways in which a session is lost without being closed are the exceptions in
`StuckOnlyByLoss` and `DeafOnlyByLoss`, all of them reached in `io_session`: the
receive thread's `epoll_ctl` takes away the EPOLLOUT the send thread has just
asked for (`Overtaken`: `LSession.cpp:378` to `416`, against `559` and `585`); a
full ring loses an event (`Dropped`), the first receive (`FirstRefused`) or a
request for the close (`Refused`); and an EPOLLOUT delivered alone, as in
`io_deaf`.  After the first, what was appended stays unsent for as long as the
peer sends nothing: `AppendedIsTaken` excepts a session that is `Stuck`, and
`StuckOnlyByLoss` says how it can get there.  Only the idle check ends such a
session.

What else the modules say about the code, in their properties' exceptions:
a failed connection attempt makes the next one close a foreign descriptor
(`ClosesOthersOnlyAfterFailure`); a header that arrives one byte at a time may
end a connection that is in order (`ClosesLegalOnlyAtOneByte`); a kick with a
full ring marks the session and never closes it (`ClosingIsRequested`); a call
of `GetOneRecvedPacket` that meets a reset gets an old packet again
(`GotInOrder`); a full
close ring loses an `OnRemoveSession` (`RemovalReported`); Stop does not return
while nobody connects (`StopHangsOnlyInAccept`); a second `ExcuteSql` without
`InitBindParam` sends the parameters twice (`OutputsOfTheCall`); a direct
statement between two `Fetch` leaves the columns unbound (`RowsFillTheColumns`).

## 7. Not modelled

Several receive, epoll and close threads (a session is bound to one of each and
the others never see it; the balance between them is a heuristic), pure input
and output (configuration, logging), the values of the CRC and of converted
numbers beyond 32 and 64 bits, the SQL Server connector (compiled for Windows
only, against ODBC), samples, and generated or duplicated files
(`singleserver/.../packetdefine`, `wrongFile`).  Edge-triggered mode
(`g_bEpollETEnabled`) is an empty branch of the code.  Effects of weak memory
and the C++ rules on data races are not modelled beyond interleaving.

## 8. Plan

1. `SessionLifecycle` and `MainLogic` composed: `OnRemoveSession` and the reuse
   of the session object in one instance, and the theorems about acknowledgement
   and removal joined.
2. A proof of the liveness properties from the invariants of section 5 under
   `Fairness`, once TLAPS supports reasoning about ENABLED.

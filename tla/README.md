# lib-fantuan in TLA+

A verification development of lib-fantuan, a C++ library for game servers: TLA+ models
of its components, TLC configurations that check them on small instances, and theorems
about them proved with TLAPS. Paths are relative to the repository.

- [The system](#the-system): its parts, their state, operations, interactions
- [The modules](#the-modules): which models what, and how they fit together
- [The core: IocpNetwork](#the-core-iocpnetwork)
- [The other components](#the-other-components)
- [Runs](#runs): what is checked, the bounds, the fairness
- [What the runs found](#what-the-runs-found), and [Disagreements beyond the listed runs](#disagreements-beyond-the-listed-runs)
- [Proofs](#proofs): what is proved, from what and how
- [Not modelled](#not-modelled), [What is left](#what-is-left)

## The system

lib-fantuan grew in generations: `easynet/` (an epoll prototype), `EasyNetwork/` (the
same for both platforms), `network/` (the current library), `tcpnetwork/` (the Windows
half of `network/` in one file with a C interface). On top of `network/` sits `midware/`,
a server frame with sessions, commands and packets, which the chat example
(`test/src/ChatTest`) uses. `common/` holds allocator, containers and log.

### IOCP server (`network/src`, `#ifdef WIN32`)

| object | state | operations |
|---|---|---|
| `EasyAcceptor` | `context_` (its AcceptEx), `running_`, `iorefs_`, `total_connection_`, lock-free list `free_connection_` | constructor, `Start`, `Stop`, `Accept`, destructor |
| `EasyConnection` | `socket_`, `context_` (its DisconnectEx), `connected_`, `iorefs_`, `iorefmax_`, `client_` | `Create`, `AsyncRecv`, `AsyncSend`, `AsyncDisconnect`, `Close`, `Connect` |
| `EasyContextPool` | two lock-free lists of I/O contexts and their counts | `Pop/PushInputContext`, `Pop/PushOutputContext` |
| `EasyWorker` | completion port, its threads | `WorkerThread`: accept, connect, disconnect, read and write completions |

The pieces share nothing but these objects and use no lock: worker threads, the
application and the kernel meet in interlocked counters, in one compare-and-swap
(`AsyncDisconnect`) and in the lists. The kernel completes requests in its own order;
any worker takes any completion. Hard here: a connection is announced before its first
receive is counted; its disconnect can complete before the requests it aborts; it may be
put back on the free list only when nothing of its use is left; each of the error paths
has to push the context, disconnect and count down exactly once; an acceptor that misses
one accept is deaf for ever.

Correct means: references are exact, a context has one owner and is never lost, a
connection on the free list is at rest, every connection created can be found again, the
callbacks come in the order the application expects, there is always an accept posted,
and a disconnected connection is eventually free. `tcpnetwork/` adds clients (`Connect`,
whose connections are deleted when they end) and has the same destructors: nothing may be
freed that the kernel, the port or a thread still uses, and each destructor should return.

### Server frame (`midware/src`)

`EasyBaseServer` turns callbacks into commands (`m_CommandList` under
`m_CommandMutex`), which one command thread takes and executes on `EasySession`s from a
pool; `m_SessionMap` and `m_SessionArray` name them. `EasySession` sends, disconnects and
closes its connection, and cuts the received stream into packets (`m_RecvBuf`) for the
dispatcher; `easy_stream.h` serializes their fields. Hard: the wake-up of the command
thread, commands that reach a connection or a session after its reuse, clients during
`Initialize`, shutdown, packets that arrive in pieces. Correct means: every queued command
is executed once, in order, on the session it was meant for; no connection stays open when
its session is gone; packets come out as they were sent, whatever the pieces.
`EasyBaseClient` on `simplenetwork/` repeats queue and packets for one blocking
connection, which two threads close.

### epoll server (`network/src`, `#ifdef _LINUX`; `EasyNetwork/`; `easynet/`)

One worker thread polls (edge-triggered), accepts, calls `RecvData` and sends what a full
socket left over; other threads call `SendMessage`; a semaphore guards what is left of a
message, from the send that found the socket full until the worker has sent the rest. Hard:
edges that are lost, the switch between EPOLLIN and EPOLLOUT, the semaphore taken by one
thread and posted by another while a mutex is held, deletion of a connection the worker still
has in hand. Correct means: received bytes are passed on in order, what is
put into a socket is whole messages, every request is answered, nobody waits for itself.

### The rest

`common/src`: `easy_buffer.cpp` and `easy_log.cpp` (a log thread behind a buffer),
`dy_array.h` (an array whose elements move out of the object when it grows), `easy_pool.h`,
`allocator.cpp` and wrappers of the platform. `udpnetwork/` is a project file without
sources. `test/`: examples.

PROJECT.json lists every component with its status, and under "hazards" the places that
are hard to test, with the properties that cover them.

## The modules

| module | models | run(s) |
|---|---|---|
| `HandlerProtocol` | what an application may rely on (`easy_handler.h`): the abstract specification of every network below | in all network runs |
| `IocpNetwork` | the Windows half of `network/src`, one interlocked operation a step | `iocp_*` |
| `TcpNetwork` | `tcpnetwork`: client side, `Delete`, destructors, one call a step | `tcp_core`, `clients` |
| `EpollServer` | the Linux half of `network/src` with the command thread and `EasySession::SendData` | `epoll_server` |
| `BaseServer` | `midware`'s server frame over `HandlerProtocol` | `base_*` |
| `BaseClient` | `midware`'s client with `simplenetwork` | `clients` |
| `PacketFramer` | `EasySession::OnData`, `EasyBaseClient::_OnCommandOnData` | `data`, `framer_long` |
| `Streams` | `OutputStream`, `InputStream`, the chat programs' remote calls | `data` |
| `EasyBuffer`, `EasyLog`, `PollLog` | the log's buffer, `common`'s log, `easynet`'s log | `data` |
| `ArraySpec`, `DyArray` | `ArrayBase` as a sequence, and `DyArray` | `data` |
| `EchoServer` | `easynet/main.cpp` | `prototypes` |
| `EasyConnection` | the Linux half of `EasyNetwork` with its test program | `prototypes` |
| `IocpPrototype` | the Windows half of `EasyNetwork` | `prototypes` |
| `IocpNetworkProofs`, `IocpLifeProofs` | theorems about `IocpNetwork`, the second module on top of the first | |
| `TcpNetworkProofs`, `EpollServerProofs`, `BaseServerProofs`, `BaseClientProofs` | theorems about one module each | |
| `DataProofs` | theorems about `PacketFramer`, `Streams`, `EasyLog` and `DyArray` | |
| `PrototypesProofs` | theorems about `EchoServer`, `EasyConnection` and `IocpPrototype`, as `MCPrototypes` puts them together | |

Refinement and composition. `IocpNetwork`, `TcpNetwork`, `EpollServer` (through `told`)
and `BaseClient` (through what it pushes) implement `HandlerProtocol`. `BaseServer` takes
`HandlerProtocol` as its network (`Network == INSTANCE HandlerProtocol`) and shows that
the queue hands the same contract on to the sessions, which learn everything later
(`Seen == INSTANCE HandlerProtocol WITH phase <- seen`). So the frame is checked once, for
any network that keeps the contract. `DyArray` implements `ArraySpec`.

The MC modules fix instances. `MCIocpNetwork` and `MCTcpNetwork` only add symmetry. The
others put several instances of one size into one run: `Init` chooses a `setup`, which
never changes, and `Next` is then the next-state relation of that instance (`INSTANCE ...
WITH` other constants). A property of such a module says for which setups it is meant.
Setups share no step, so that a run explores the sum of their states, not the product.
## The core: IocpNetwork

| variable | code |
|---|---|
| `connected`, `iorefs` | `connected_`, `iorefs_` of each `EasyConnection` |
| `sock` | its `socket_`: not created, reusable, or with a TCP peer |
| `disc` | the overlapped `DisconnectEx` on the connection's `context_` |
| `phase` | what the application has been told of it by the callbacks |
| `acc` | the acceptor's `context_`: its AcceptEx and the `connection_` in it |
| `accIorefs`, `running`, `total` | `iorefs_`, `running_`, `total_connection_` |
| `freeConnection` | `free_connection_`, an SList: a head and a next per entry, so that pushing an entry twice does what it does in memory |
| `made`, `pool` | contexts allocated, and how often each is in a pool list (2 would be a double push) |
| `ov` | the overlapped WSARecv or WSASend of each context: off, in the kernel, or in the port as `ok` or `bad` |
| `th` | program counter, `pConnection` and `pContext` of each thread |

A step is what one thread does between two points where another can see it: an
interlocked operation, a list operation, the posting of a request, a callback. Several of
these are one step where no other thread can tell the difference, as when a context is popped
from a list and then held. The test of `iorefs_` against its limit and the increment after
it are two steps. The completion port is a set: any completed packet may be taken next.

| actions | code |
|---|---|
| `Start`, `StartAccept`, `Stop` | `EasyAcceptor::Start`, `Stop` (easy_acceptor.cpp:180-199) |
| `Accept` = `AcceptPosted` / `AcceptRefused` / `AcceptWithout`, and `AcceptGivesUp` for the rest of its failure path | `EasyAcceptor::Accept` (easy_acceptor.cpp:127-178) |
| `DequeueAccept`, `DequeueFailedAccept`, `UpdateAccept`, `UpdateAcceptFails`, `RejectConnection`, `FirstRecv`, `FirstUnref`, `EndAccept` | `WorkerThread`, OPERATION_ACCEPT (easy_worker.cpp:67-96) |
| `DequeueDisconnect` | OPERATION_DISCONNECT (easy_worker.cpp:134-146) |
| `DequeueData`, `DequeueEof`, `NextRecv`, `NextUnref`, `DequeueSent`, `EndHandling` | OPERATION_RECV, OPERATION_SEND (easy_worker.cpp:148-173) |
| `AppSend`, `AppSendOversize`, `AppSendOverLimit`, `AppSendWithinLimit`, `AppSendPost`, `AppSendUnref` | `EasySession::SendData` and `EasyConnection::AsyncSend` |
| `AppDisconnect`, `AppClose` | `EasySession::Disconnect`, `OnDisconnect` with `EasyConnection::Close` |
| `Post`, `PostFails`, `AsyncDisconnect` | shared parts of `AsyncRecv`, `AsyncSend`, `AsyncDisconnect` (easy_connection.cpp:43-150) |
| `ConnectionArrives`, `AcceptExFails`, `RequestSucceeds`, `RequestFails`, `DisconnectCompletes` | Windows and the peers (external) |

`DequeueDisconnect` waits for `iorefs` to be 0. The code posts the packet to the
port again until it is; a packet that is put back as it was is a stutter.

The application (`App`) is the command thread of `midware`, which hears of
`OnDisconnect` only through its queue and so may use a connection that is already lost, but
closes it last. Two switches widen what may happen: `Faults` names the rare failures allowed (AcceptEx
at once or on completion, SO_UPDATE_ACCEPT_CONTEXT, DisconnectEx, a send longer than the
buffer); refused WSARecv and WSASend, an empty allocator, resets and aborted requests are
always possible. `Eager` lets the application use a connection as soon as `OnConnection`
was called, as the chat server does when a message of one client goes to every session
(`ChatSession::OnChatReq`, test/src/ChatTest/chat_session.cpp:13); with `FALSE` it waits for
the first data, as when it only answers (`OnPingReq`).

Abstracted away: contents and lengths of data, the order inside the context lists (nothing
depends on it), `client_`, the wording of errors.

## The other components

**HandlerProtocol.** For each connection `OnConnection` (or, for a `Connect` that fails,
`OnConnectFailed` alone), then `OnData` while it is open, `OnDisconnect` exactly once, and
`Close`, after which the same ConnID may come again. A connection that `OnConnection`
rejected still gets its `OnDisconnect`.

**TcpNetwork.** `conn` is a record per connection (`connected_`, `iorefs_`, the overlapped
of its own context, its receive, its sends in the kernel and in the port), `life` whether the object
exists, `acc` and `free` are the acceptor's, `inPool`, `outPool` count contexts made and
listed, `main` is the program from `CreateAcceptor` to the end of the destructors in the
order of `EasyBaseServer::_DestroyNetwork`. Calls on a connection are one step;
`IocpNetwork` interleaves what is inside them. A worker sets `connected_` and calls OnConnection
(`Announce`, in `UpdateAccept` and `DequeueConnect`) in a step of its own, before `FirstRecv`
counts and posts the first receive, or `Reject` disconnects. `Eager` is as in `IocpNetwork`:
with `FALSE` the application sends on a connection and disconnects it only after its first OnData.
`Close` refuses a connection with references left; nobody closes it again (`life` "kept"). `AcceptsDone`, `ListComplete`, `Drained`,
`WorkerDeleted`, `InputFreed` and `OutputFreed` are the waits of the destructors, `Close` of
a client's connection deletes it.

**EpollServer.** Bytes have numbers: `rbuf` holds which byte of the stream lies where in
`recv_context_`, `out` which byte of which answer was put into the socket. `ready` is epoll's list of
edges, `events` what the worker has fetched of it, `reg` what a connection is
registered for; `w` and `cmd` are the worker and the command thread, which holds
`m_CommandMutex` whenever it is not "idle". `notified` says that `wait_for` will return because
of a notification: `Push` may set it, or its notification is lost between two waits or to one
that times out; `BeginBatch` takes the whole list when it is set, or on a spurious wake-up. `Recv` is one round of `RecvData`'s loop,
`SendPart`, `SendAll`, `SendAgain` one of `SendMessage(len, data)`'s, `SendLeftPart` and
`SendLeftEnd` of `SendMessage()`'s. A reset makes the next send raise SIGPIPE (`killed`).

**BaseServer.** `main` follows `Initialize` (`SetServer`, `InitializeSessionPool`,
`StartCommandHandler`, `SetSessionServer`); a callback makes a command in `call` and
pushes it in a step of its own when the mutex is free; `pc`, `pos` are the command
thread, which waits (`Wait`, `TimesOut`, `WakesLate`, `WakesUp`) and handles all commands of
the list with the mutex held. `Handle...` is one action for each `_OnCommand...`.
`OnConnection` also clears `client`, as `EasyAcceptor::Accept` does with `client_` before
the connection is used again (network/src/easy_acceptor.cpp:149). The session pool's loop
gives each session back before it takes the next, as the code does, so that one object gets
all identifiers.

**BaseClient.** `main` (Login, sends, Logout), `worker` (`SimpleThread`) and the command
thread; each of the first two may have a command in `call`, and both close `socket_`.

**PacketFramer.** Bytes are numbered from the start of the oldest packet not handled.
`ends` are the ends of the packets sent, `wire`, (`from`, `len`) and `buf` hold the bytes
under way, in the piece in hand and in `m_RecvBuf`. `Copy` takes a part of a piece as the
code computes it (`iCopyLen`), `HandlePacket` cuts one packet, `NextPart` goes round.

**Streams.** Of a stream, only the ends of its fields (`marks`) and the reader's place (`index`)
matter. Sizes are computed modulo 2^16 as in `iCount *= sizeof(T)`.

**EasyBuffer, EasyLog, PollLog.** A byte is known by its message. `EasyLog`'s thread waits
on its condition variable without a predicate; `PollLog`'s polls until main returns.

**ArraySpec, DyArray.** A slot holds a value or `Raw`; arrays of objects also record whether an
object was lost or one used that was not there. `ArraySpec` is a sequence.

**EchoServer, EasyConnection, IocpPrototype.** The prototypes: one thread that
echoes, of what arrives in pieces of any length (`Ask` writes, `Arrive` delivers); a worker and
a main thread that share one array, one semaphore and one registration; AcceptEx, WSARecv and
DisconnectEx without reference counts. `refused` records the connections whose
SO_UPDATE_ACCEPT_CONTEXT or DisconnectEx failed, with which the code does nothing more.
## Runs

Runs that pass:

| run | instances | shows |
|---|---|---|
| `iocp_core` | 2 connections, 2 workers, 2+2 contexts, limit 1, no rare fault, application that waits for data | all safety properties, the refinement, no deadlock |
| `iocp_faults` | 2 connections, 2 workers, 2+1 contexts, limit 0, every fault, up to the first connection given back twice (CONSTRAINT `ListEnds`) | connections may be lost, but none is reused with something of its last use left; counts stay exact and contexts exclusive whatever fails |
| `iocp_live` | 2 connections, 1 worker, 1+1 contexts, fair | a disconnected connection comes back to the free list, accepting goes on |
| `tcp_core` | 1 server connection, 1 client, 2 workers, every fault, torn down at any time, application that waits for data | nothing freed is in use, both ends keep the protocol |
| `base_server` | "serving": 2 clients, 2 sessions, 1 piece of data in each use. "disconnecting": 1 client, forced disconnects. "closing": 1 client, perhaps before `Initialize` is over; sends, shutdown, allocations that fail | the queue loses, doubles and overtakes nothing; sessions, map and connections agree; shutdown reaches every session |
| `epoll_server` | Requests of 3 bytes, read 2 at a time. "two": 2 clients, 1 request each. "again": 1 client, 2 requests that need two reads. "leaving": 1 client, 2 requests, answers that fill the socket more than twice, may close at any time | streams in order, whole answers, no two threads that wait for each other; every request answered whose command is not forgotten |
| `clients` | "frame": 2 pieces, one of the sends fails. "failing frame": connect fails or the server resets. "connections": a `TcpNetwork` client, 2 workers, application that waits for data | the client's queue, the end of both its threads; every `Connect` answered |
| `data` | "framing": buffer 8, packets 2 to 5, pieces 1 to 8, 4 packets ahead. "streams": 3 fields of chat kinds, 24 bytes, counts modulo 32. "log", "poll log": buffer of 7, messages of 1, 4 and 5 bytes. "scalars", "objects": 2 slots inside, up to 5 elements | framing, serialization, logs and arrays do what they say |
| `prototypes` | "echo": a message of up to 4 characters, 2 a read, in any pieces of which none comes late (`InTime`). "busy": 2 messages of up to 2 through a socket with room for 1, in any pieces at any time. "conn": 3 messages of 3, room for 2, a client that writes 3 times and may close; "stay": the same, the client stays. "win": 4 connections, 2 workers, every call that may be refused, Start again. "stopped": 2 connections, failed accepts, refused calls, stopped and destroyed | what the predecessors do right |

Bounds, and why they are enough. Two connections let a reused and a fresh one compete, and one
be accepted while the other is torn down; two contexts of a kind let two sends overlap, or a
receive and another's, and the pool run empty; two workers handle any two completions
at once. `IoRefMax` (256 in `midware`) is 1, so that the limit is reached with the sends
there are. `TotalMod` (2^32 in the code) is 1, since nothing reads the
counter but what is said about it. In `EpollServer` the lengths are such that a request needs one, two or (in a
disagreement below) three reads, and an answer one, two or three sends. Packets of up to
5 in a buffer of 8 with pieces of 8 make pieces that end anywhere in a head or a body,
hold several packets, and have to be copied in parts. 24 bytes counted in 5 bits are too few
for some messages, and some arrays wrap around. `DataMax`, `AppMax`, `Requests`,
`MessagesMax`, `Sends`, `CloseMax`, `Ahead` and `SizeMax` bound what the outside does; each
is at least what fills the structure it goes into. Connections, workers and contexts
are symmetric; symmetry is used in the safety runs of `IocpNetwork` and `TcpNetwork` only.

Deadlock is checked in `iocp_core`, `iocp_live` and `framer_long`, where there is always
something to do. Elsewhere the system may stop: a client that has left for good, a
list of messages that is used up, a destroyed acceptor, a process ended by SIGPIPE, or (as in the code)
a server that lost its accept.

### Properties

`iocp_core`, `iocp_faults`, `iocp_live`:

- `IoRefsExact`: `iorefs_` of a connection is the number of its requests in flight, being completed, or refused and not yet counted down.
- `ContextsExclusive`, `ContextsConserved`: a context has at most, or exactly, one place. The second fails by design with "Oversize" in `Faults`, where the code forgets the context.
- `AcceptorSound`: the acceptor's count (`AccIorefsExact`), and that a running acceptor has an accept posted or about to be (`Listening`).
- `Recycled`: a created connection is free, being accepted, or known to the application (`ConnectionsConserved`); a free one has nothing of its last use left anywhere (`FreeIsQuiescent`); `Close`'s assertion holds when the application closes what it was told is lost (`CloseAssertion`).
- `OneReceive`: never two receives on a connection, and never none while it is connected and nobody is about to disconnect it.
- `DisconnectOnce`: the compare-and-swap keeps a connection's overlapped structure from being posted twice.
- `IoRefsBounded`: by how much the unlocked test against `iorefmax_` can be overrun: one reference plus one for each worker.
- `ImplementsHandlerProtocol`: every connection's callbacks come in the order of the protocol.
- `PartialSound`: that order, `FreeIsQuiescent`, `CloseAssertion` and `OneReceive` survive every failure except one: `AcceptEx` failing at once, which gives the connection back twice (`GivenBackTwice`; see the end of the next part).
- `DisconnectedIsFreed`, `AcceptGoesOn`: liveness.

`tcp_core`, `clients`:

- All with an application that waits for the first data (`Eager` FALSE): see the rows of `TcpNetwork` below for one that does not.
- `FreedUnused`: nothing is outstanding on a deleted connection and no thread has it in hand (`DeletedUntouched`); after `~EasyAcceptor` no accept is posted or handled (`AcceptorFreedUnused`); `~EasyContextPool` frees no context that a request refers to (`PoolFreedUnused`).
- `ConnectionsEnd`: every `Connect` is answered, a client's connection that failed or is disconnected is deleted, and `~EasyWorker` gets an empty packet to every thread.
- `NothingLost`, until `Logout`: the pieces handled, those in the list and the one in the callback follow each other, and only a piece without memory is missing. `FollowsProtocol`: the refinement, for the frame while the server's end is open. `LogoutEnds`: the receiving thread ends, wherever it was, whatever failed.

`base_server`, where `Serving` means not told to shut down, and no thread on a null pointer:

- `NothingLost`: as long as the server serves, the commands of a connection that are not handled, with the one in a callback's hand, are exactly the difference between what the network told and what the session was told, in order; only a piece that `CopyData` got no memory for is missing.
- `SessionsOK`: `m_SessionMap` leads to connected sessions under their own identifiers; a session is in the pool once or serves the one connection that points back to it, and closes the connection whose loss it handles. Also during shutdown, with the commands of a new use of a connection in the queue, and when clients come early.
- `ShutdownDisconnects`: every session in `m_SessionMap` is lost or has been asked to disconnect, and none is added to it, also none whose ONCONNECT was in the queue at that moment. Sessions that are not in the map are out of its reach: see `EveryoneInMap` below.
- `SessionsFollowProtocol`: the refinement, while the server serves.
- `PointersSet`: a null pointer is followed only before `Initialize` has returned, or by the application's own send to a session by its identifier, never by a handler of what the network told, also not in a shutdown. `NoNullPointer`, which makes neither exception, fails for each of them, see below.
- `OrdinaryLostIsClosed`, in the setups "serving" and "disconnecting": if notifications find the command thread waiting again and again, lost connections are closed. Without that condition they need not be: see `DataIsHandled` below.

`epoll_server`:

- `ConnectionsOK`: `sem_` lets one message be sent at a time (`OneSender`), command thread and worker never wait for each other (`NotStuck`), and, while no client has left without its answers (`Patient`), no deleted connection is used (`UsesLive`).
- `AnswersWhole`: what is put into a socket is whole answers, in order. `StreamInOrder`: OnData is given the bytes of the stream in order. `FollowsProtocol`: the refinement, while the clients are `Patient`. These hold of clients that wait for an answer before they ask again (`Pipelined` FALSE), with requests of up to two reads.
- `WaitingIsAnswered`: unless a command is forgotten, its notification lost and no other coming (`NoneForgotten`), every request is answered, and a connection its client closed is reported and deleted. Without that condition neither holds: see `IsAnswered` below.

`data`:

- `Framed`: `m_RecvBuf` starts at a packet and has no gap, no byte is lost, the copy stays inside the buffer, and no whole packet waits in it while more is copied.
- `Taken`: what was put into a stream is taken from where it was put; what is sent is whole.
- `WrittenInOrder`; `DataGoesOn`: `OnData` returns, the push after the thread began to wait gets everything written, `easynet`'s log prints all while main runs.
- `ArraysOK`: the refinement of `ArraySpec`, and an object in every slot of an array of objects.

`prototypes`:

- `EchoInOrder`, with `ReceivedAll`; `SemHeld`: main and worker never send at the same time, and while the semaphore is taken somebody is on the message; `Attended`: no connection is forgotten before it is disconnected but one whose update or DisconnectEx was refused (`AllAttended` below), and a running acceptor listens.
- `InputTaken`: although sending and receiving share one registration, what a client writes is received; what is begun is finished (`Echoed`, `ListensAgain`, `SemReleased`, and, unless DisconnectEx is refused, `LeftDisconnected`).

### Fairness

- `IocpNetwork`, `TcpNetwork`: a thread inside a handler or a call goes on (weak fairness:
  the operating system runs it). A packet in the port is eventually taken though a worker may be
  busy now and again (strong fairness: GetQueuedCompletionStatus hands packets out in turn
  and every worker comes back to it). The kernel completes DisconnectEx and ConnectEx, and
  completes with an error what is left on a socket without a peer. The application
  closes what it was told is lost. Peers owe nothing. `DisconnectedIsFreed` also supposes
  that the application stops sending at some time: one that sends for ever on a lost
  connection keeps it referenced for ever.
- `BaseServer`: initialization and the command thread run; a `PushCommand` gets the mutex in the
  end (strong: the command thread gives it back in every round); a notified command
  thread is not too late every time (strong); the network reports a disconnect it was asked for.
- `EpollServer`, `EchoServer`, `EasyConnection`: each thread runs (weak), what is sent
  arrives, and a client that asked reads its answer. A client need not ask or close. The
  command thread of `EpollServer` runs when it is notified; nothing makes it take a list of which
  it was not, nor makes notifications arrive in time: this is what `NoneForgotten` supposes.
- `BaseClient`: both threads run and the program goes on with what it has begun; strong
  fairness for the mutex only.
- `PacketFramer`, `EasyLog`, `PollLog`, `IocpPrototype`: their threads run (weak); nobody has
  to send, log or connect.

## What the runs found

Three runs expect a violation; each contradicts a comment or an assertion of the code.

1. `iocp_close_race`: `connected_` is set and `OnConnection` called before the first receive
   is counted (easy_worker.cpp:77-83). If the application disconnects in between,
   DisconnectEx completes with `iorefs_` 0, another worker reports OnDisconnect, the
   first worker counts its receive, and `Close` meets `iorefs_` 1 against its assertion
   (easy_connection.cpp:248). In a release build `Close` refuses, and the connection never
   comes back. In the chat server, a message broadcast to a client that has just connected,
   whose send is refused, disconnects at that moment. `tcpnetwork` has the same window, see
   `FreedUnused` below.
2. `base_shutdown_leak`: once `m_bReadyForShutdown` is set, `OnDisconnect` returns at once
   (midware/src/easy_baseserver.cpp:57-60), so that the connections shutdown disconnects are
   never closed by their sessions, and the acceptor's destructor, which is to "close all
   connection" (network/src/easy_acceptor.h:15), waits for them.
3. `framer_long`: a piece that does not fit into `m_RecvBuf` is copied in parts of the
   length by which it is too long (midware/src/easy_session.cpp:71), not of the room left.
   With the rest of a packet longer than half the buffer and a full piece behind it the copy
   ends past the buffer. `FramesInStep` below says for which lengths it stays inside.

### Disagreements beyond the listed runs

The modules state more properties that the code does not have. Each contradicts the line
quoted; TLC finds each violated when its module is checked alone with the constants given
(those not given as in the first row of the module) under `Spec`, or under `FairSpec` if the property
is one of liveness (marked ~>). The liveness rows of `EpollServer` but the first are violated even
if no command is forgotten: checked is `NoneForgotten => ...`.

| property | constants | what the code does |
|---|---|---|
| **BaseServer** | | |
| `DataIsHandled` ~> | 1 connection, 1 session, `MaxSession` 2, `DataMax` 1, `AppMax` 1, no `AppCommands`, no `Faults`, `EarlyClients` FALSE | The chat server answers every request (`void ChatSession::OnPingReq(uint32 iVersion) { PingAck(this, iVersion); }`, test/src/ChatTest/chat_session.cpp:6-9), but _CommandHandler handles commands only when wait_for reports a notification (midware/src/easy_baseserver.cpp:418): a PushCommand between two waits notifies nobody, every following wait ends by its timeout, and the request stays in m_CommandList until something else is pushed at a better moment. |
| `EveryoneInMap` | 3 connections and sessions, `DataMax` 0 | ChatSession::OnChatReq speaks to everyone by going through m_SessionMap (`for (auto mit = m_pServer->m_SessionMap.begin(); ...) ChatAck(mit->second, iLen, message)`, test/src/ChatTest/chat_session.cpp:13-16), but every session that does not come from the pool has identifier 0 and insert does not replace (midware/src/easy_baseserver.cpp:327-328): the third client connected at once is not in the map and gets nothing. |
| `NoNullPointer` | `EarlyClients` TRUE | EasyAcceptor::Start is 'start the acceptor and ready to receive connection' (network/src/easy_acceptor.h:18), and Initialize calls it before SetServer (midware/src/easy_baseserver.cpp:211-218) and before EasySession::m_pServer is set (line 126): a client that connects in between makes OnConnection use a null server, and one that sends at once makes SendData use a null m_pServer. |
| `NoNullPointer` | `AppCommands` {"SENDDATA"} | COMMAND_SENDDATA is documented as 'send data' (midware/src/easy_command.h:11), but _OnCommandSendData looks for a session in m_SessionArray only (midware/src/easy_baseserver.cpp:381-397), not whether it has a connection: for a session that is in the pool SendData goes through a null m_pConnection. |
| `DisconnectsNamed` | 2 connections and sessions, `DataMax` 0, `AppCommands` {"DISCONNECT"} | COMMAND_DISCONNECT is documented as 'force disconnect' (midware/src/easy_command.h:13) and names its session by m_iSessionId, but _InitializeSessionPool gives each session back before it takes the next (midware/src/easy_baseserver.cpp:245-248): every slot of m_SessionArray is the one session whose identifier is m_iMaxSession - 1, and the command for session 0 disconnects that one. |
| **BaseClient** | | |
| `LostIsReported` ~> | `DataMax` 1, `ListMax` 5, `SendMax` 1, no `Faults` | RecvData returns -1 for `socket was closed` (simplenetwork/src/simple_connection.cpp:49-53), but SimpleThread does not look at its result (simplenetwork/src/simple_worker.cpp:39): the socket stays readable, the thread goes round without end and OnDisconnect never comes. |
| `LoggedIn` | `Faults` {"Connect"} | Login logs `login successfully` and starts the receiving thread (midware/src/easy_baseclient.cpp:100-102) also after `login error` (line 95-98): the thread then works on a socket that Connect has closed and reports the connection as lost a second time. |
| `DataLength` | `Faults` {"Reset"} | A receive is of at most MAX_INPUT_BUFFER bytes and a server's packet of `max size from server to client` 65500 (common/src/common.h:9), but RecvData tests the result of recv for 0 only (simplenetwork/src/simple_connection.cpp:48-55): SOCKET_ERROR becomes the length 2^32 - 1, of which CopyData copies 65535 bytes from a buffer of 1024. |
| **EpollServer** | | |
| `IsAnswered` ~> | 1 connection, `MAXLINE` 2, `InputBuffer` 4, `Room` 2, `Request` 1, `Answer` 1, `Requests` 1, `Pipelined` FALSE, `Closes` "never" | The chat server answers every request (test/src/ChatTest/chat_session.cpp:6-9), but as in `DataIsHandled` a notification that comes between two waits is lost (midware/src/easy_baseserver.cpp:418), and the ONDATA of a client that waits for its answer stays in the list. |
| `StreamInOrder` | 1 connection, `MAXLINE` 2, `InputBuffer` 8, `Room` 2, `Request` 5, `Answer` 1, `Requests` 1, `Pipelined` FALSE, `Closes` "never" | A client may send MAX_INPUT_BUFFER bytes, `max size from client to server` (common/src/common.h:8), which is four reads of MAXLINE, but RecvData reads to `buffer_ + recvNum` (network/src/easy_connection.cpp:304), where recvNum is the length of the last read: the third read goes over the second, and OnData is given bytes no read has written. |
| `EveryoneAccepted` ~> | 2 connections, `InputBuffer` 4, `Request` 1 | NetworkTest expects of every client `OnConnection::Get A new connection` (test/src/NetworkTest/main.cpp:8-12), but the listening socket is registered edge-triggered (network/src/easy_acceptor.cpp:231) and AcceptConnection accepts once for an event: of two clients that connect between two epoll_wait, one stays in the backlog until a third comes. |
| `LostIsReported` ~> | `InputBuffer` 4, `Request` 1, `Answer` 0, `Closes` "any" | RecvData is to end a closed connection, `LOG_DBG(_T("close and leave"))` and Disconnect (network/src/easy_connection.cpp:326, 351), but a read shorter than MAXLINE ends it at once (line 336-340) although the socket is edge-triggered: an end that has arrived with those bytes causes no further event and is never read. |
| `IsAnswered` ~> | `InputBuffer` 4, `Request` 1, `Answer` 5, `Requests` 2 | SendMessage() is to `send the left` (network/src/easy_connection.cpp:361), but when the socket is full again it sets bWriteOK (line 372-376) and with it len_ to 0: what is still left is dropped, and the client waits for the end of its answer. |
| `AnswersWhole` | `InputBuffer` 4, `Request` 1, `Answer` 3, `Requests` 2, `Pipelined` TRUE | ChatSession::OnPingReq answers each request with `PingAck(this, iVersion)` (test/src/ChatTest/chat_session.cpp:6-9), but EasySession::SendData writes the packet into m_SendBuf (midware/src/easy_session.cpp:124-136) before SendMessage waits for sem_: the rest of the last packet, which the worker still has to send from there, is overwritten. |
| `NotStuck` | the same with 2 connections | SendMessage returns on a full socket with `sendmessage, eagain, go` (network/src/easy_connection.cpp:438) and leaves sem_ to the worker; the next one waits for it (line 424) in the command thread, which holds m_CommandMutex for the whole batch (midware/src/easy_baseserver.cpp:417-427), while the worker waits for that mutex in PushCommand: both wait for ever. |
| `UsesLive` | `InputBuffer` 4, `Request` 1, `Answer` 3, `Closes` "any" | _OnCommandOnDisconnect tells a connection without session by its client_, `if (pSession)` (midware/src/easy_baseserver.cpp:338-339), but on Linux EasySession::OnDisconnect has deleted the connection (midware/src/easy_session.cpp:46-47): after the end of a stream a reset is one more event, and the worker or a second ONDISCONNECT uses the deleted object. |
| `Survives` | the same | SendMessage is to treat a closed peer as `sendmessage close and leave`, with Disconnect (network/src/easy_connection.cpp:444-449), but send never returns 0 then: it fails with -1, which is not handled (line 434-443), or raises SIGPIPE, which nobody in the repository ignores, and the process ends. |
| **TcpNetwork** | | |
| `FreedUnused` | no server connection, 1 client, 2 workers, `IoRefMax`, `OutMax` 1, `InMax` 2, `TotalMod` 4, `CloseMax` 2, no `Faults`, `Eager` TRUE | Close is to `check if io reference count is 0` (tcpnetwork/src/easy_tcp.cpp:469) before it deletes a client's connection, but the first receive is counted only after OnConnection (line 790-795): if the application disconnects in between, OnDisconnect and Close come with iorefs_ 0, and the worker posts the receive on a deleted connection. |
| `ClientsDeleted` ~> | the same | In the same window the receive may be counted before Close: `Connection can't be closed` (tcpnetwork/src/easy_tcp.cpp:473) is logged, and nobody closes the connection again. |
| `FollowsProtocol` | 2 server connections, no client | In the same window on the server's side (line 758-764) Close gives the connection back and the next Accept takes it, before the worker posts the first receive of the use that is over: the data of the next use are told before its OnConnection. |
| `AcceptorIsDeleted` ~> | 2 server connections, no client, 1 worker, `IoRefMax`, `InMax`, `OutMax` 1, `TotalMod` 4, `CloseMax` 2, no `Faults`, `Eager` FALSE (as in the next two rows) | ~EasyAcceptor waits `if some io are not released, wait a while` (tcpnetwork/src/easy_tcp.cpp:583) until iorefs_ is 0, but closes the listening socket only afterwards (line 610): the posted AcceptEx ends only when another client arrives, and that one posts the next (line 752), whatever running_ says. |
| `AllConnectionsClosed` | 1 server connection | `stop and destroy the acceptor, close all connection` (tcpnetwork/src/easy_tcp.cpp:149): the destructor waits for as many free connections as total_connection_ counts, 0, and closes none of those in use; their Close then pushes them on the free list it has freed (line 480). |
| `PoolIsDeleted` ~> | no server connection, 1 client, `CloseMax` 0 | `destroy context pool` (tcpnetwork/src/easy_tcp.cpp:106): the destructor waits for every context ever allocated (line 885-898), but the worker that would give back the receive of an open connection was deleted before (midware/src/easy_baseserver.cpp:228-238) and nobody closes the connection. |
| **PacketFramer** | | |
| `BufferBounded` | `PacketHead` 2, `BufSize` 8, `PacketMax` 12, `PieceMax` 8, `Ahead` 4 | MAX_OUTPUT_BUFFER is the `max size from server to client` (common/src/common.h:9), 65500, but the client collects packets in m_RecvBuf[MAX_INPUT_BUFFER] (midware/src/easy_baseclient.h:49), 1024 bytes: a legal packet that is longer is never complete and the copy of its pieces goes past the end. |
| **Streams** | | |
| `ArraysWhole` | as in `MCData` and Data.cfg, under `StreamSpec` | `serialize array type` (midware/src/easy_stream.h:137), but iCount *= sizeof(T) is computed in the uint16 iCount: an array of 65536 bytes or more is put into the stream only up to the remainder modulo 65536, instead of being refused, and Serialize returns true. |
| `PacketFits` | the same | MAX_OUTPUT_BUFFER is the `max size from server to client` (common/src/common.h:9): an OutputStream may be that long (midware/src/easy_stream.h:139), but SendData puts PACKET_HEAD bytes before it into a buffer of the same size, so that the last four bytes of a full stream go past its end. |
| **EasyLog** | | |
| `AllWritten` ~> | `MaxSize` 7, `Wrap` 8, `Lengths` {1}, `MessagesMax` 2 | The server logs `Initialize log system success` (midware/src/easy_baseserver.cpp:172) right after it has started the log thread, but the thread waits without looking at the buffer (common/src/easy_log.cpp:82): what is pushed before it waits, and whatever is pushed while it writes, is written only when somebody logs again. |
| **PollLog** | | |
| `PrintedAtEnd` | `MaxSize` 7, `Lengths` {1}, `MessagesMax` 1 | The test logs `LOG_DBG("Hello")` (easynet/log_test.c:8) and returns: the process ends without waiting for the log thread, which may not have printed it. |
| **DyArray** | | |
| `OneDestruct` | `IsClass` TRUE, `N` 2, 3 `Elements`, `PushNs` {1}, no `Data`, no `Resizes`, `EmptyErase` FALSE, `AppendGrows` FALSE, `SizeMax` 5 | The comment says `one construct means one destruct, attention!` (common/src/dy_array.h:324). push_back constructs the value in every free slot (:108), over the objects the push before it left there, and objects moved out of the array's own slots are not destructed (:313-316). |
| `ElementsLive` | `PushNs` {1, 2} | _grow_n says `add new stuff` (common/src/dy_array.h:309) and constructs one object whatever n is: after push_back(2, value) with one slot too few for the second, the second element is memory in which nothing was constructed. |
| `ElementsLive` | `EmptyErase` TRUE | The array asserts `i < size() && "out of range"` (common/src/array_base.h:49) and nothing else of an index, but erase(first, last) with first = last copies each element behind onto itself and then destructs it (common/src/dy_array.h:167-168): i < size() is then no object. |
| `InStorage` | `IsClass` FALSE, `Data` the `Words` of `MCData`, `AppendGrows` TRUE | `i < size() && "out of range"` (common/src/array_base.h:49) is what an index is held to; append calls resize, which counts the new elements, and then adds len once more (common/src/dy_array.h:237,241): size() is greater than max_size(), and an i < size() is behind the block. |
| **EchoServer** | | |
| `ReceivedAll` | 2 characters, `MAXLINE` 2, `BufSize` 4, `Room` 4, `MaxMessage` 1, `Messages` 2, `Closes` "never" | The server prints `receive all` (easynet/main.cpp:125) and then the message as buffer_ up to len, but len is never set back: the second message of a connection is printed and echoed with bytes of the first behind it. |
| `EchoInOrder` | `Room` 2, `MaxMessage` 3, `Messages` 1 | send_packet is given buffer_ and len to send (`send(pConnection->socket_, pConnection->buffer_, len, 0)`, easynet/main.cpp:135). When the socket is full after a part, it keeps how much is left but not from where: send_message sends the first bytes of buffer_ once more (:184-185). |
| `EchoInOrder` | `MaxMessage` 2, `Messages` 1 | `receive all` (easynet/main.cpp:125) is printed when a read is shorter than MAXLINE. If the network cuts the message and its second part comes after that, it is received to the start of buffer_ (line 90) but len counts on (line 117): bytes that were never received are echoed. |
| **EasyConnection** | | |
| `AllSent` | `Length` 3, `Beyond` 0, `Room` 1, `MAXLINE` 2, `RecvSize` 2, `Request` 1, `Requests` 1, `Sends` 1, `Closes` FALSE | SendMessage() says `send the left` (EasyNetwork/EasyNetwork/easy_connection.cpp:256), and takes a full socket for success (:267-271): the rest of the message is dropped, and the next one follows it. |
| `OnlyFilled` | `Room` 2, `Sends` 2 | The test sends an array in which every `ch[i] = 'a';` (EasyNetwork/EasyNetwork/easy_test.cpp:17). SendMessage keeps the pointer for the worker and returns when the socket is full; the test's next array is in the same place on the stack and starts with zeros, which the worker sends. |
| `LeftAlone` | `Room` 2, `Sends` 2, `Closes` TRUE | HandleMessage prints `close and leave` (EasyNetwork/EasyNetwork/easy_connection.cpp:223) and closes the socket, but conn_ keeps the connection: main sends to the closed socket, takes every error but EAGAIN for -1 bytes sent (:329-356), and never leaves its loop. |
| `ClosesLeft` | `Beyond` 1, `Room` 2, `Requests` 3, `Sends` 3 | `sendmessage close and leave` (EasyNetwork/EasyNetwork/easy_connection.cpp:341) is for a send that returns 0. The worker's SendMessage ends with `buffer_[0] = '\0'` (:306); if the socket had taken nothing of the message, that is the first byte of main's array, which may hold the next message by then. Its strlen is 0, to send nothing returns 0, and main closes the socket of a client that is there. |
| `NoOverrun` | `Room` 2, `Request` 2, `Requests` 2 | `hit maxline, continue` (EasyNetwork/EasyNetwork/easy_connection.cpp:231) receives MAXLINE more bytes behind the 1024 of the buffer (:187), of which the first MAXLINE have filled all. |
| **IocpPrototype** | | |
| `Listening` | 2 connections, 2 workers, `Faults` {"accept"}, no `Calls` | The worker's comment is `post another accept request` (EasyNetwork/EasyNetwork/easy_worker.cpp:89), which it does only for an accept that succeeded: a client that resets its connection before it is accepted ends all accepting. |
| `AllAttended` | `Faults` {"update"}, or {"DisconnectEx"}, no `Calls` | `confirm connected and invoke handler` (EasyNetwork/EasyNetwork/easy_worker.cpp:95) comes only if SO_UPDATE_ACCEPT_CONTEXT succeeds (line 93), and a refused DisconnectEx is `DisconnectEx failed` (EasyNetwork/EasyNetwork/easy_connection.cpp:21) and nothing else: such a connection has no request posted and is never heard of again. |
| `StopStops` | no `Faults`, `Calls` {"Stop"} | The header says of Stop `stop receiving connection` (EasyNetwork/EasyNetwork/easy_acceptor.h:19). Stop sets running_, which Accept and the worker never read: the AcceptEx posted stays, and every accept posts the next. |
| `Attended` | 3 connections, no `Faults`, `Calls` {"Stop", "Restart"} | Start is to `start the acceptor and ready to receive connection` (EasyNetwork/EasyNetwork/easy_acceptor.h:17). After Stop it posts a second AcceptEx with the context of the first and another connection in it: both completions find the same connection, and the other is never received from. |
| `AllClosed` | no `Faults`, `Calls` {"Destroy"} | The header says `stop and destroy the acceptor, close all connection` (EasyNetwork/EasyNetwork/easy_acceptor.h:14); Destroy closes the listening socket only, and connections are closed nowhere, not even when they are disconnected (EasyNetwork/EasyNetwork/easy_worker.cpp:129-132). |
| **IocpNetwork** | | |
| `AccIorefsExact` | 1 connection, 2 workers, 2+2 contexts, `IoRefMax` 0, `TotalMod` 1, `Faults` {"AcceptDone"}, `Eager` FALSE | The acceptor's iorefs_ is documented as 'reference count to record the number of io, if start, add one, if finished, minus one' (network/src/easy_acceptor.h:43), but for an accept that completes with an error WorkerThread skips the whole case (network/src/easy_worker.cpp:67-94): the count is never decremented and no other accept is posted, with running_ still 1. |
| `RefMaxAssertion` | `IoRefMax` 1, no `Faults` | AsyncSend asserts `_ASSERT(iorefs_ <= iorefmax_)` (network/src/easy_connection.cpp:75) although the next line handles iorefs_ > iorefmax_ by disconnecting: sends to a peer that does not read legally reach the limit plus one, so that a debug build stops where a release build disconnects. |
| `StopStopsAccepting` | 2 connections, no `Faults` | Stop is documented as 'stop receiving connection' (network/src/easy_acceptor.h:20), but it only clears running_ (network/src/easy_acceptor.cpp:195-199), which Accept() never reads: the worker posts the next AcceptEx after every connection (network/src/easy_worker.cpp:71) whether running_ is set or not. |
| `TotalIsCount` | `TotalMod` 8, no `Faults` | total_connection_ is documented as 'number of connections' (network/src/easy_acceptor.h:45), but it is decremented whenever a connection is taken from the free list (network/src/easy_acceptor.cpp:144) and incremented only when AcceptEx fails at once (line 167), neither when one is created nor when Close pushes one back: with the first reuse it wraps to 2^32 - 1. |
| `StartReturns` ~> | no `Faults` | Start is documented as 'start the acceptor and ready to receive connection' (network/src/easy_acceptor.h:18), but after a Stop its wait `while (iorefs_)` (network/src/easy_acceptor.cpp:186) does not end: the accept that Stop left posted keeps iorefs_ above 0, and every connection that arrives posts another. |

Two more are visible in the code without a property. When AcceptEx fails at once, `Close`
has already pushed the connection and `Accept` pushes it again
(network/src/easy_acceptor.cpp:165-166): its entry then points to itself, the list never
ends, and the same connection is given out for ever (`PartialSound` excludes just these
states, and `iocp_faults` explores nothing after them; what is proved holds after them
too). And `EasyBaseServer::Destroy` deletes a joinable
`std::thread` (midware/src/easy_baseserver.cpp:137), which ends the process.

## Proofs

TLC checks small instances. What follows holds for every value of the constants that the named
assumptions and hypotheses allow. Every invariant and every refinement of the passing runs is stated
by a theorem.

**`IocpNetworkProofs`**: `TypeCorrect`, `Spec => [](TypeOK /\ RecordsInv)`; `ContextsNeverShared`,
`Spec => []ContextsExclusive`; `ReferencesCounted`, `Spec => []IoRefsExact`, for any finite sets of
connections, workers and contexts, any limit and modulus, any set of faults and both kinds of
application. Assumed: `SetsAssumption`, `NumbersAssumption`, `SwitchesAssumption`. None of the three
is inductive alone. `TypeOK` needs `RecordsInv`: a thread has a connection and a context in hand at
just the points where the code does, and a request in flight has a connection. `ContextsExclusive`
needs `PlacesInv`, which says the same pairwise: a pooled context is in no request and no hand, one
in a hand is in one hand only. `IoRefsExact` needs both. `Init` is immediate, and each invariant has
one proof step for each action: `ActionRecords` gives the records an action writes; the lemmas
`Places...` say how taking, posting, pushing and handing on a context keep `PlacesInv`; `Recount` is
the cardinality of a set one element enters or leaves, from which `RefsOfThread` and `RefsOfRequest`
follow; `NextIoRefsExact` shows of every action that `iorefs` and the set it counts change by the
same amount.

What `IocpNetwork` was given it still has: `ContextsNeverLost`, `"Oversize" \notin Faults => (Spec
=> []ContextsConserved)`, from `KeptInv`: a context that was made is pooled, in a request or in a
thread's hand. `AcceptsNeverLost`, `"AcceptDone" \notin Faults => (Spec => []AcceptorSound)`, from
`AccInv`: the acceptor's count is never below the accepts and threads it stands for, even with that
failure, and none is posted while a refused one is cleaned up. The two hypotheses name the places
where the code does lose: an oversized `SendData` forgets its context, and an accept that completes
with an error is dropped: it stays counted and none is posted after it. All other failures are
allowed in each.

**`IocpLifeProofs`**: the life of a connection in `IocpNetwork`. `Patient` is a patient application
(`Eager` is FALSE: it uses a connection only after its first OnData) and an `AcceptEx` that does not
fail at once. Both halves are needed: `iocp_close_race` shows what an eager application does to
`CloseAssertion`, and a refused `AcceptEx` gives a connection back twice (`GivenBackTwice`). Under
`Patient`: `DisconnectPostedOnce` (`DisconnectOnce`), `ReceivesInOrder` (`OneReceive`),
`ReusedWhenQuiescent` (`FreeIsQuiescent` and `CloseAssertion`), `CallbacksInOrder`
(`ImplementsHandlerProtocol`: each step is a step of `HandlerProtocol` or leaves `phase` alone),
`ReferencesBounded` (`IoRefsBounded`); and, where no accept is lost either, `ConnectionsRecycled`
(`Recycled`). The inductive invariant is `LifeInv`, with those above:

- `KindsInv`: which thread runs what, with a context of which kind;
- `PhasesInv`: what the application was told fits the flag, the socket, the requests and what
  threads do;
- `AloneInv`: until its first receive is posted, a connection is in the hands of its worker only,
  which is why `Reject` may use it without a lock;
- `ReceiveInv`: at most one context receives on a connection, and one does, or a worker is about to
  disconnect it, as long as it is connected;
- `FreeInv`: the free list has no cycle, and what is in it, or in the posted accept, is idle and not
  announced.

None is inductive without the others: that a completed receive may post the next one needs the
phase, the phase needs that nobody recycles the connection meanwhile, and that needs `FreeInv`. TLC
checked `LifeInv` with two connections and two workers first. The members of the free list are the
least set that is closed under its links (`Listed`), so that no recursion is needed: `FromIsLeast`
and `FromIsClosed` replace induction over the list. `ReferencesBounded` adds `RefsInv`, `iorefs` of
a connection against the workers that have posted its next receive. `SoundUntilGivenBackTwice`,
`~Eager => (Spec => PartialSound)`, gives up the second half of `Patient`: `LifeInv` holds until a
connection has been given back `Twice`, or a refused accept is about to, and what follows from it
holds until then.

**`TcpNetworkProofs`**: `NothingFreedIsUsed`, `ASSUME ~Eager PROVE Spec => []FreedUnused`, and
`CallbacksFollowProtocol`, `ASSUME ~Eager PROVE Spec => FollowsProtocol`, for any connections,
workers, sizes of pools, failures and any moment of teardown; otherwise assumed is `TcpAssumption`
only. An application that uses a connection from OnConnection on breaks both, see the rows of
`TcpNetwork`: the hypothesis keeps it away from a connection until the worker that announced it has
posted and counted the first receive, or given it up (`LifeInv` says who is on a connection in each
phase). The inductive invariant is `Inv`: `LifeInv` (what was told of a connection fits its life, its flag and its requests, and the
free list is a stack of `depth_` connections that nobody deals with, `Stack(f)`), `RefsInv` (the
count of a connection, less its requests, is the number of threads that still count it down, so that
the thread that gets to zero is the last one), `PoolsInv` (what a pool has made and not listed is in
requests; the difference is how `~EasyContextPool` finds out that it may free) and `EndInv`
(`~EasyAcceptor` and `~EasyWorker` wait for what they say they wait for). Freed memory is safe only
through the counts, and the counts are right only if no callback comes after the last one: hence one
invariant for both theorems. TLC checked it on small instances first.

**`BaseServerProofs`**: the server frame, for any connections, sessions, pieces of data, sizes of
the pool and any failure. `ShutdownAsksAll` (`ShutdownDisconnects`), from `MapShrinks` and
`AskedStays`: after `ready` the map only loses sessions, and who was asked stays asked.
`SessionsKept` (`SessionsOK`), `QueueLosesNothing` (`NothingLost`), `ProtocolHandedOn`
(`SessionsFollowProtocol`). Their invariant is `Base` (types, what each thread has in hand, and the
map), and while the server serves `ServeInv`: `QueueInv`, the list with the callback's command is
what the sessions miss, in the order they miss it, and what the sessions know is behind what the
network told; `LinkInv`, connection and session point to each other; `PoolInv`, the sessions without
a connection are in the pool once. `Waits`, `Holds` and `InOrder` speak of the commands of one
connection in the list; `AppendedOwn`, `TakenOwn` and their neighbours say what appending a command
and taking the first one do to them. `SessionsKept` and `HandlersFindPointersSet`
(`Spec => []PointersSet`) hold in a shutdown too: a handler that answers runs only while the server
serves, where a command finds its session and the session its connection, and one that runs later
finds in `client_` the session of this use or NULL. `NoPointerNull`, `ASSUME Ordinary PROVE Spec =>
[]NoNullPointer`, is for an application that does neither of what `PointersSet` excepts; TLC finds a
use of a null pointer when either is allowed.

**`EpollServerProofs`**, for any number of clients, any sizes of reads, buffers, sockets, requests
and answers, and clients that may close at any time. The hypothesis `Waiting`: a client asks again
only after it was answered (`Pipelined` FALSE), and an answer has a length. `ConnectionsShared`
(`ConnectionsOK`), `WholeAnswers` (`AnswersWhole`), `HandlerIsToldInOrder` (`FollowsProtocol`) need
nothing else; `StreamsInOrder` (`StreamInOrder`) also that a request is at most two reads, `Request
<= 2 * MAXLINE`. The rows of `EpollServer` above show what happens without each hypothesis. The
inductive invariant is a conjunction, its parts proved one after the other, each from those before
it:

- `Types`; `HandsOK` and `EventsOK`: a thread has a connection in hand exactly when it is in a call
  about it, and a connection has one event at most; `NewOK`: the threads know nothing of a
  connection before it is accepted;
- `SendersOK`: `sem_` is taken exactly while something is left of a message, and while the worker
  sends or will, the command thread does not;
- `AnswersOK`: what is in the socket and what is left are whole answers up to the one in
  `m_SendBuf`, and the answers begun and due are those of the requests handled;
- `FlowOK`: what a session was given, the commands' bytes, those in the worker's hand and those on
  their way are together no more than what was asked (`Tally`), and `AsksOK`: only the last request
  may be unanswered. So there is one answer of a client in the system at a time, which is why one
  `m_SendBuf` is enough;
- `EndsOK`: ends and resets come from clients that are gone. `RecvOK`: what RecvData has received
  lies at the front of the buffer. `LifeOK`, under `Patient`: the end of a connection is noticed
  once, and its command is the last that names it.

TLC checked these parts before they were proved.

**`BaseClientProofs`**: `ClientLosesNothing` (`NothingLost`) and `ClientToldInOrder`
(`FollowsProtocol`), for any number of pieces, sends and commands in the list and whatever fails;
assumed is `Bounds` only. The inductive invariant `IInv`: `Types`; `CallsOK`, what each of the two
threads has in hand in a call; `PiecesFollow`, the list with what the callbacks have in hand
(`Coming`, over the positions `ToCome`) has every piece received, not handled and not dropped, in
order; `ToldOK`, what was pushed of the connection fits where main and the receiving thread are.

**`DataProofs`**, about framing: `FramesInStep`, `Spec => []Framed` for every buffer, packet and way
of cutting the stream, from `SizesAssumption` and `Short`: `2 * (PacketMax - 1) + PieceMax <= 2 *
BufSize` and `PacketMax <= BufSize`. `Short` is what the code relies on and nowhere checks;
`framer_long` shows a copy past the buffer without it. It is used once, in `PartFits`: the copy
stays in the buffer. The inductive invariant is `TypeOK` with `Ascending` (packets end in the order
they were sent in), `IdleEmpty` (nothing of a piece is left between two calls) and the parts of
`Framed`. One lemma for each action.

About streams: `MessagesAreTaken`, `StreamSpec => []Taken`, for all fields and every size of stream
that 16 bits can count (`FieldsAssumption`). The inductive invariant adds `Laid` (each field begins
where the one before it ends) and `Placed` (the reader is at the end of the field it took last).
`NextField` is its centre: the next field is where the reader is, so that `TakeFails` is never
enabled (`TakeFailsNot`).

About the log: `LogInOrder`, `LogSpec => []WrittenInOrder`, for messages of any length and a buffer
whose size 16 bits can count (`LogAssumption`, with `MaxSize <= Wrap`). Inductive with `LogTypeOK`:
`SizeFits`, because a full buffer is one byte short of its size, so that the 16-bit size handed to
`Pop` is not cut; and `PopAll`, so that popping as much takes all.

About arrays: `ArraysAreSequences`, `MCSpec => ArraysOK`, for any number of slots in the object, any
elements, data and sizes: each call of `DyArray` is a step of `ArraySpec`, and an array of objects
has one in every slot it counts. The two instances in `MCData` are the hypotheses: one element is
pushed at a time, `append` is called with room, and objects are not erased by an empty range (each
is needed, see the rows of `DyArray`). The invariant `ArrayInv` is `TypeOK` with "never less slots
than in the object". `LengthenedKeeps`, `Erased` and `PutOver` say what the three kinds of call do
to the slots, scalars or objects; `PushedBehind` and `CutOut` turn that into sequences.

**`PrototypesProofs`**, about `MCSpec` of `MCPrototypes`, whose instances `Init` chooses from;
assumed is `Instances` only, and sizes, numbers of connections, workers and messages are any.

- `SemaphoreHeld` (`SemHeld`), of `EasyConnection` in both setups. `ConnInv`: types, and `SemOK`:
  who sends has `sem_`; main hands it on with a registration for output, which the worker keeps
  until it posts `sem_`.
- `AcceptorAttends` (`Attended`), of `IocpPrototype` with every call refused that may be, and a
  second Start.
  `WinInv`: `ThreadsOK`, what each thread has in hand; `AcceptOK`, one AcceptEx is posted or about
  to be if `running_` is 1 and none otherwise, for the connection its context holds; `Attended`.
- `EchoesInOrder` (`EchoInOrder`), of `EchoServer` with one message that arrives in any pieces, none
  of them after the thread has found nothing more (`InTime`). `EchoInv` has four phases,
  `Arriving`, `Receiving`, `Answering` and `GivenBack`; in each, the message is cut into what is on
  its way, received, placed in `buffer_` and given back.

Only model-checked:

- Every liveness property (`WaitingIsAnswered`, `OrdinaryLostIsClosed`, `LogoutEnds`,
  `ConnectionsEnd`, `DataGoesOn`, `InputTaken`, `DisconnectedIsFreed`, `AcceptGoesOn`): liveness
  under fairness, and ENABLED, are out of the prover's reach. So is what a definition by recursion
  computes for every input.
- The types of `PollLog` and of the setups "busy" and "stopped", which are conjuncts of properties
  of liveness.
- The theorems' hypotheses leave out what the tables above show to fail; of what is between, such as
  requests of three reads whose clients wait, nothing is claimed.

## Not modelled

- `network/src` on Windows: `EasyNetwork::Init` only loads function pointers. Its client side and
  its destructors are the same code in `tcpnetwork`, modelled in `TcpNetwork`.
- `network/src` on Linux: a failing `accept`, the system calls of the constructor and the
  destructor.
- `EasyNetwork/`: `AsyncSend` and the completion of a ConnectEx, which nothing calls or posts;
  starting and ending the worker threads.
- `EasyBaseServer::Destroy`, which deletes a joinable thread and so ends the process; the log's
  `Destroy`, which joins a thread that never ends.
- `DyArray`'s copy constructor and destructor, the fixed `Array`, the strings: nothing else in the
  repository uses them.
- The allocator beyond "memory, or none": blocks from a list under one lock, or malloc's.
- Wrappers of the platform, compile-time templates, crash dumps: no state of their own.
- What `easynet`'s `handle_message` returns: it reads `len` out of the connection it has just deleted
  (main.cpp:113, 139), for a caller that has no use for it.
- `easynet/main_bk.cpp`, an older `main.cpp`; `easy_queue.h` and `easy_locker.h`, used nowhere.
- `udpnetwork/` has no sources. The tests and the chat programs are read for how the library is
  used.

The models are sequentially consistent: one interlocked operation, system call or locked region is a
step, and a read without a lock is a step of its own where another thread can write what it reads.

## What is left

All components of the inventory are modelled as far as they have state, and every safety property of
the runs is proved. What a change of the code would touch first: the rows above, which stop being
violated when their lines are repaired, and the hypotheses `Patient`, `Waiting` and `Short`, which
could then be dropped from the theorems.

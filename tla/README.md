# A verification development of IOTC

IOTC is a small home-automation daemon in C. Devices ("slaves") connect to the
*master* over TCP and report themselves in JSON; the master keeps a list of
devices and is meant to pass commands to them. This directory holds TLA+ modules
that model the master, the devices' programs and the threads library, TLC
configurations that check them on small instances, and TLAPS proofs of what
matters most for every value of the constants.

Paths below are relative to the repository; `socket_server.c`, `iotc_network.c`,
`iotc_application.c`, `iotc_devices.c` and `main.c` are in
`src/iotc_master/source`, `mthread.c` in `src/iotc_net`, `socket_client.c` in
`src/iotc_slave/abel/client/src`, `multicast.c` in `src/iotc_slave/multicast`.

## 1. The system

### 1.1 Components

| component | state | operations | model |
|---|---|---|---|
| socket server (`socket_server.c`) | listening socket, epoll set, client list `sSocketClientHead`, `u8NumConnClient`, `eThreadState` | epoll loop: accept, one `recv` per event, disconnect; `SocketServerFinished` | `SocketServer` |
| event exchange (`sSocketEventQuene`) | `flag_data`, `flag_space`, one copy of a client with its text, a mutex, two condition variables | post (a detached thread per message, or the server thread for a lost client); take (network and application thread); stop request | `EventSlot`, `Mailbox` |
| device registry (`iotc_devices.c`) | list of `tsIotcDevice` under a mutex, the nodes and services in memory | `IotcDeviceAdd`, `IotcDeviceAddService`, `IotcDeviceRemove`, `IotcDeviceRemoveSocket`, `IotcDeviceFinished` | `DeviceRegistry` |
| network thread (`iotc_network.c`) | `eThreadState`, the event it works on | report of devices, disconnect command, broadcast command (an empty handler) | `EventSlot`, `DeviceRegistry`, `IotcDaemon` |
| application thread (`iotc_application.c`) | `eThreadState` | takes application events, does nothing with them | `EventSlot`, `IotcDaemon` |
| main (`main.c`) | `bRunning` | starts everything, prints the list, stops server, network, application in this order | `IotcDaemon`, parts in `SocketServer` and `EventSlot` |
| message queue of the threads library (`mthread.c`) | a ring of buffers with front and rear, a mutex, two condition variables | `mQueueEnqueue`, `mQueueDequeue`, `mQueueDequeueTimed`; `mQueueCreate`, `mQueueDestroy` | `RingQueue`, `BoundedFifo`; `QueueMemory`, in `ThreadLibrary` |
| threads of the library (`mthread.c`) | `eState`, `eThreadDetachState` of each thread | `mThreadStart`, `mThreadStop`, `mThreadFinish` | `ThreadLibrary` |
| locks of the library (`mthread.c`) | an error-checking mutex | `mLockLock`, `mLockTryLock`, `mLockLockTimed`, `mLockUnlock`, `mLockDestroy` | `LibraryLock`, in `ThreadLibrary` |
| list (`list.c`, `list.h`) | `next` and `prev` pointers of the list and its nodes | add at either end, delete, walk | `DlList`; a set in the models that use it |
| discovery (`iotc_broadcast.c`, `iotc_multicast.c`) | a UDP socket, `eThreadState`, the source of the last datagram | answer every datagram; stop | `Discovery` |
| slave multicast client (`multicast.c`) | a UDP socket, the address it asks | ask, wait for the answer, ask its source again | `Discovery` |
| slave client (`socket_client.c`, `pthread_utils.c`) | a TCP socket, an epoll set, a flag for its second thread | report every three seconds, read commands, end with the master | `SlaveClient` |
| slave service (`iotc_slave/abel/src/service.c`) | lists of device descriptions | an unfinished library; it does not compile and no Makefile builds it | no |
| `iotc_net` program, `msocket.c`, utilities, Android skeleton | - | pure I/O, stubs, generated code | no |

### 1.2 How they interact

    peers --TCP--> server thread --(thread per message)--> event exchange --+--> network thread --> device registry
                        |                                        ^          +--> application thread
                        +--(lost client, by the thread itself)---+
    main: SocketServerInit -> IotcNetworkInit -> IotcApplicationkInit -> IotcBroadcastInit -> prints the list
          SocketServerFinished -> IotcNetworkFinished (empties the registry, then stop request) -> IotcApplicationFinished

The server thread copies the client (its descriptor and the text just received)
into a fresh allocation and starts a detached thread with it. That thread writes
the copy into the exchange, which has **one** place, sets `flag_data` and, after the
unlock, broadcasts. Both serving threads read every event and compare its
`event_type` with their own; the one it is meant for removes it. main stops a
thread by clearing its `eThreadState`, writing a text with the type "exit" into
the exchange, broadcasting, sending a signal and joining.

A device finds its master with a datagram to a group, which a thread of every
master answers, and then connects and reports itself over TCP. The threads library
is used by none of the programs yet: it has its own model, with a thread
function of the form the daemon's threads have.

### 1.3 What is hard here

* *Interleavings.* Any number of detached threads post; the broadcast follows the
  unlock; both serving threads look at the same event; main writes flags that
  threads also write when they start.
* *Edge-triggered epoll.* A report is given once; a loop that leaves a list of
  reports, or reads less than there is, loses it. Sockets are blocking, so a
  call too many stops the server.
* *Stale names.* Descriptors are used again after a close, and entries of an
  event list, events in flight and devices name sockets only by descriptor.
* *Streams and old bytes.* A message may take several recvs, and the buffer they fill is
  not cleared in between.
* *Start.* The server thread accepts and posts before the serving threads exist.
* *Partial failure.* `malloc` or `pthread_create` may fail between two steps, and
  `mQueueCreate` half way through its buffers.
* *Limits.* A counter of clients and the number of descriptors in a report are
  `uint8`; the ring queue tells full from empty by one free buffer.
* *Shutdown.* It relies on an order of joins, and on one stop request reaching
  two threads. `mThreadStop` relies on a signal that ends system calls only.
* *Lost datagrams.* The device waits for an answer without a timeout, and takes a failed `recvfrom` for one.

`PROJECT.json` lists every hazard at its line with the properties that cover it,
or the reason why none does.

### 1.4 What makes each component correct

* Server: list, counter and open sockets agree; no call of the loop blocks; what
  arrives is read, and what is handed on is one message of one client; a stop request
  ends the thread.
* Exchange: an event is removed at most once, by the right thread; nobody sleeps
  on a full exchange; an event that is wanted does not stay; both threads are
  joined in the end.
* Registry: the index is a key; no freed memory in the list, no memory lost,
  only allocated pointers freed; a report leaves its devices in the list, under a
  socket that is its own or the one they had.
* Daemon: a device carries the descriptor of the message that named it; devices
  disappear with their socket; every loss of a client is posted when main begins to stop
  the serving threads. (The detached thread of a message may still post then: nobody waits for it.)
* Ring queue: FIFO of bounded size; no lost wakeup; a buffer lent to a
  consumer is not overwritten; a timed call waits, and ends; a creation that fails frees
  what it has allocated.
* Threads and locks: a queue may be destroyed once its threads were stopped with
  success; a signal gets a thread out of a system call for good; a lock belongs to
  whoever was told so.
* List: both pointer chains are one ring of the allocated nodes; a walk that
  deletes never touches freed memory and deletes what it should.
* Slave client: its loop never blocks and ends with the master.
* Discovery: datagrams do not multiply but for a `recvfrom` that fails; a stopped thread falls silent; a device
  that asked gets its answer from a master that goes on serving.

## 2. The modules

A critical section under one mutex is one action, because every access to the
state it protects is inside such a section; what follows the unlock (the broadcast)
is another action. Handlers, early returns and error paths are actions or disjuncts
of their own. `PROJECT.json` maps each definition to its lines.

* **`Mailbox`** - what the exchange promises: a box with one place, where a letter may
  be replaced, is removed at most once and never comes back.
* **`EventSlot`** - the exchange, the posting calls (`Posts`), the two threads
  (`cpc`), the stopping part of main (`mpc`). A text is reduced to its kind: for
  one of the threads, "exit", another type, or not readable. `Release` and `Broadcast`
  are the code's three assignments and the broadcast. A wait may end
  spuriously, which also stands for the signal `pthread_kill` sends.
  `Call` only happens while main has not joined the server thread; that the server makes
  no other calls is proved of `IotcDaemon` (`DaemonRunsSlot`). A call that began before may
  post at any time later, and replace the stop request.
* **`DeviceRegistry`** - the list with the memory of its nodes (`heap`), the report
  being worked on (`todo`), and each exported function of `iotc_devices.c`. Each is one
  action since it holds the mutex throughout; a report is one `IotcDeviceAdd`
  after the other, with removals by other threads and `IotcDeviceFinished` in between.
  `stale` remembers the devices that a report found under another socket. `IotcDeviceRemove` goes
  on reading the index of its argument after it has freed it; what it reads is any index (`read`).
* **`SocketServer`** - the server thread (`spc`) with peers and kernel around it:
  connection queue, lowest free descriptor, end of stream, reset, and epoll's ready list
  (`edges`). Client sockets are edge-triggered, the listening one level-triggered. `batch`
  is the event list that the loop works on. A message consists of `Parts` parts, which the
  network may deliver one by one; a recv takes what is there, up to `RecvCap` parts, and
  writes it over the beginning of `csClientData`, of which `data` is the part behind. A text
  is what the parser would see: parts of one form in their order, of whatever message. Every
  failing call of the thread is modelled: it ends, with (`"done"`) or without (`"failed"`)
  closing its sockets. A failed accept leaves list and sockets as they were: the new node is linked
  and unlinked again by the only thread that uses the list (its memory is lost, which no state shows).
* **`IotcDaemon`** - the three by `INSTANCE`, in joint steps: the recv that starts a
  posting call, the close that posts a disconnect (by the server thread itself,
  which waits for the post), the event that leaves the exchange for its
  handler. `Content` says what each message contains. `evFd` is the descriptor in the
  copy of the client that travels with an event. `boot` is where main is with its start: the
  server thread is at work from the first state on, the others once they are created.
* **`BoundedFifo`** - what a bounded queue promises.
* **`RingQueue`** - the ring with its two conditions, plain and timed consumers.
  An item is the part of the data that fits into a buffer. `last` and `got`
  remember which buffer was returned, since `mQueueDequeue` returns a pointer
  to it. A wait with a timeout has its deadline, with its carry; it begins at any moment of a
  second, and its end is an action of its own.
* **`QueueMemory`** - the life of a queue: not yet created, created, destroyed; and the buffers
  that are allocated. A creation may fail at the array or at any buffer; the clean-up then
  frees the elements that were never set, too, and the heap may be broken from there on
  (`queue = "broken"`: nobody goes on from there, since there is no queue).
* **`LibraryLock`** - the mutex of `mLockCreate`, of the error-checking kind. `mLockLock`
  reports success to a thread that has it already; `held` counts what a thread was told,
  `misled` remembers who was told so although the mutex refused. `mLockDestroy` reports success
  also for a mutex in use, which stays. Calls that fail or wait change nothing.
* **`ThreadLibrary`** - extends the queue and the lock by `tsThread`: who starts and stops a
  thread (`caller`), where its function is (`worker`), and by `QueueMemory`. `pthread_create` may
  fail; `pthread_detach` cannot, since the thread was just created joinable (`mthread.c:95`). The library leaves the
  function to its user; it is modelled in the form of the daemon's threads: store
  `E_THREAD_RUNNING`, loop while it is there, call `mThreadFinish`. One round takes an item
  and makes a system call under the lock.
* **`DlList`** - the pointers of the list, its nodes in memory, and the walks: `safe` deletes
  any subset of nodes, `plain` may break off. `order` is the ghost sequence that the
  pointers should stand for.
* **`SlaveClient`** - main with its epoll loop, the sending thread, and the two directions of
  the connection as far as they decide what epoll reports.
* **`Discovery`** - masters' threads and devices, with datagrams on their way. The
  responders of the two files differ where `recvfrom` fails: the one for broadcasts begins its loop again
  (`ReceiveFails`), the one for multicasts goes on and answers the address that is still in
  `server_addr` (`AnswersAgain`), which is the one it was bound to if nobody asked before: that
  datagram comes back to its own socket. `Multicast` names the masters of the second kind. The device goes
  to sleep after a failed `recvfrom` as after an answer (`HearFails`). `failures` counts, for each address, the
  failed calls that left it in place. A failed set-up looks the same from outside for both responders.

`MC...` modules instantiate these for TLC. Operators under the words "Mistake to be
caught" are not part of a model: each is a wrong version of the definition that
follows it, and the run of a property finds the property violated when the definition
is replaced by it.

## 3. The runs

| run | question | instance |
|---|---|---|
| `EventSlot` | Is an event removed once, by its owner; is no thread left asleep; does every wanted event leave; does main join both threads; is it a mailbox? | 2 posting calls of every kind, both threads, the whole shutdown |
| `EventSlotOverwrite` | *violated*: may a wanted event be replaced? | 2 posting calls |
| `DeviceRegistry` | Are list and memory in order, and does a report take effect? | 3 nodes, 2 sockets, 2 indexes, a known and an unknown type, reports of up to 3 descriptors, the count wraps at 3 |
| `DeviceRegistryUnknown` | *violated*: is only allocated memory freed, with a device type that has no case? | 2 nodes, 1 socket, 2 indexes |
| `SocketServer` | Do list, counter and sockets agree; does the loop never block; is a text one message of one client; is what arrives read; does the stop request end the thread? | 2 connections, 2 descriptors, 2 messages of 2 parts, recvs of up to 2 parts, 1 connection that may be reset, event list of 2, counter of 2 values |
| `IotcDaemonSafety` | Do descriptors, events and devices stay together, from the start of main through the shutdown; is every loss of a client posted in time? | 2 connections on 1 descriptor, a report and a disconnect command |
| `IotcDaemonLive` | Does a report get from the socket to the list? | 1 connection, a report of 2 devices |
| `IotcDaemonOrphan` | *violated*: do devices disappear with their socket? | 1 connection, a report of 2 devices |
| `ThreadLibrary` | Is the ring a FIFO queue; is nobody left asleep; is the lent buffer safe; does a timed call end; may the queue be destroyed after `mThreadStop`; is the lock its holder's? | a producer, a consumer that is started and stopped any number of times, a timed consumer, 3 buffers, 4 items, another user of the lock who may lock twice |
| `DlList` | Are the pointers one ring; is the deleting walk safe and complete? | 4 nodes |
| `SlaveClient` | Does the loop never block; does the device end with its master; is a command read? | buffers of 2, any number of commands and reports |
| `Discovery` | Do datagrams stay few; does a stop take effect; does a waiting device get its answer? | a master of each kind, 1 device, 2 failed `recvfrom` calls |

**Why the bounds are enough.** *Exchange*: a lost wakeup, a double removal or a
replacement needs one event under way and a second one that interferes. The
invariants and the refinement are proved for any number of calls; only the
liveness depends on the bound. *Registry*: a duplicate needs two sockets and one index,
a lost descriptor the wrap of the count, a stale node a removal between two adds of one report.
The count wraps at 3 instead of 256 so that it wraps within the bound; the invariants are proved
for any values. *Server*: the second
connection gets the descriptor of the first or another one; two entries per list let an accept share
a list with a client; the client counter wraps at 2 instead
of 256 (the invariants are proved for any values); a message of two parts meets recvs of one or two, so that the end of an older message may
complete a new one, and a message and the end of its connection are more than one recv serves.
Descriptors run out in `IotcDaemonSafety`, which has one for two connections. *Daemon*: two connections
share one descriptor, so the second takes over the number of the first; its messages come in one
part, since what parts do is a matter of the server alone. *Library*: three
buffers give a full and an empty ring and four items go round it once and further; a
second lock by one thread and a second thread are what it takes to meet the nested
lock; a second of four moments has a deadline below, on and above the whole second. Its invariants are proved for any values. *List*: with four nodes a walk deletes the
first, the last, neighbours, or all; proved for any number. *Slave*: buffers of two tell empty,
partly full and full apart; more commands or reports than fit come later.
*Discovery*: a late answer and a current one need two masters, of different kinds so that both ways to
go on after a failed `recvfrom` occur; two failures show each kind twice, and both in either order. `FewUnderWay`
bounds the number of datagrams once the number of failures is bounded (`MaxFailures`); it is proved without that
bound and for any number of devices. Devices meet only in a master, which serves one datagram after the other.

**Symmetry** is used only in two runs of invariants, `DeviceRegistry` and
`IotcDaemonSafety`. `CHECK_DEADLOCK FALSE` stands where the system may
really stop: peers that have nothing more to say, a thread or program that ended,
a full ring without a consumer, a device whose datagram was lost.

### 3.1 Fairness

Weak fairness of each thread that can run: a scheduler runs it, and a thread that asks
for a mutex gets it, since critical sections are short. There is none
on what the environment does: no peer has to connect, send or close, nothing has to
fail or be lost, no signal has to arrive, no wait has to end spuriously, no thread has to
call the queue or the lock, or to give a lock back. In `SocketServer` the loop as a whole is fair,
not each entry of the list. In `ThreadLibrary` a thread inside a queue call goes on, so do the
loops of started threads and a call of `mThreadStop`; a system call need not return. In
`Discovery` a thread that waits in `recvfrom` goes on once a datagram is there; a call may fail instead,
but `MaxFailures` times at most, since a socket whose every call fails serves nobody. In
`SlaveClient` one thing is asked of the network: a report sent to a
socket that the master has closed is answered by a reset or times out.

### 3.2 What the violated runs show

1. **`flag_space` is never cleared** (`socket_server.c:253`). A second post does not wait
   for the first event to be taken: it replaces it, and the first never reaches its
   thread, although the posting code says it hands the data to the other threads.
2. **A device of unknown type has no service** (`iotc_devices.c:321`). The default
   case stores nothing in `psDeviceServer` and reports success; removing the device
   frees what the fresh memory happened to contain.
3. **Devices outlive their socket** (`socket_server.c:52`). The event of a
   lost client has the type of the application thread, whose handler is empty.

Two faults of the threads library are in the models without a run of their own. To see
them, check the property named here with `ThreadLibrary.cfg`:

* A failed `mQueueCreate` frees garbage (`mthread.c:277`, `FreesOnlyAllocated`, an invariant). The clean-up
  frees every element of the array that is not `NULL`, but the array comes from `malloc`: the elements
  behind the buffer that could not be allocated were never set.
* A timed dequeue may fail instead of waiting (`mthread.c:397`, `TimedWaits`, an action property). The
  carry into the seconds is tested with `>`: a deadline on a whole second has 10^9 nanoseconds, which
  `pthread_cond_timedwait` refuses.

### 3.3 What the passing runs exempt

Some properties name the cases in which the code gives less than one may expect:

* `ReadUnlessMissed`: one recv per edge leaves behind what came together with the data, the end
  of the connection above all (`socket_server.c:373`), and the break after an accept forgets the
  other entries of the list (`:355`). A reset aside these are the only ways to be missed.
* `StopReachesServer`: a signal that comes just before `epoll_wait` is lost, and a thread that
  starts late overwrites the stop.
* `CommandsRead`: the device passes a command over while its send buffer has room
  (`socket_client.c:328`), that is, nearly always.
* `EndsWithServer`: a device whose second thread could not be created - which it does not
  notice (`pthread_utils.c:49`) - never learns that the master is gone.
* `StopInterrupts`: `mThreadStop` may wait for ever for a thread inside `mQueueDequeue` or on
  its way to a system call, and for one that begins after the request.
* `HolderIsOwner`: `mLockLock` tells a thread that has the lock already that it got it, and the
  first unlock then gives it up (`mthread.c:183`); it tells the same to a thread that meets a
  destroyed mutex.
* `TimedCallEnds`: each wakeup that finds no data starts the time of a timed call anew
  (`mthread.c:394`).
* `TextIsMessage`: a recv of less than a message leaves a text that the rest of an older message may
  complete (`socket_server.c:373`); only one that takes in a whole message is promised to be read as it was sent.
* `ReportTakesEffect`: a device that was listed under another socket keeps that one
  (`iotc_devices.c:88`), be it closed or not.
* `ReadUnlessMissed`: a connection that was reset is never released (`socket_server.c:323`).
* `ClientAnswered`: one lost datagram, or a master that ends, makes a device wait for ever.
* `FewUnderWay`: each failed `recvfrom` of a device (`multicast.c:92`), or of a master that answers
  it once more (`iotc_multicast.c:157`), allows as many datagrams more as masters are reached.
* `CleanShutdown`: the detached thread of a message that posts while main stops the serving threads may
  replace the stop request; main then waits for ever. `DisconnectsPosted` says that the events of lost
  clients are not among these.

## 4. The proofs

Proved with TLAPS, from the assumptions named in each module, for every value of the
constants (any number of posts, nodes, sockets, threads, buffers):

* **`EventSlotProofs`**. The inductive invariant joins the type, `ExchangeInv`,
  `NoLostWakeup`, `PendingIsFresh`, `HandledByOwner` and `ServedUntilShutdown`. `ExchangeInv` is
  needed because `Take` copies the slot: a pending event must have a text, and an
  event in the slot must have been written by its call. One lemma per conjunct,
  one step per action. From it: each conjunct as `Spec => []...`, and
  `Spec => ImplementsMailbox` - posts map to `Put`, main's stop request to
  `PutExit`, `Take` and `DropMalformed` to `Remove`, everything else to a stutter.
* **`DeviceRegistryProofs`**. `UniqueIndex`, `NoDangling`, `LostOnlyByFailure` and the
  progress of a report. `ReportTakesEffect` speaks only of finished
  reports and is not inductive; `ReportProgress` strengthens it to reports under way:
  what is left to do is the end of what was given, and the part before is in the list.
  That a report of less than `U8Size` descriptors is not shortened uses the
  remainder's value below the modulus.
* **`ThreadLibraryProofs`**, the queue: `NoLostWakeup`, `LentIsIntact` and `Spec => ImplementsFifo` for
  any length and any threads. For the lent buffer the invariant adds that it lies directly
  before the front (`LentBeforeFront`): a producer that wrote to it would
  have to be at the rear of a full ring. For the refinement the remainder is
  taken out of the way first (`Reduced`, `Span`, `Onward`: positions below twice the
  length), then an enqueue is shown to append and a dequeue to take the tail.
* **`ThreadLibraryProofs`**, the library: `DestroyedUnused` and `StoppedIsOver` from `LibInv`: outside
  `mThreadStart` and `mThreadStop` a thread is over (`OutMeansGone`), a thread is inside the queue
  only in its loop (`InsideLoop`), and nobody is about to call a destroyed queue (`NobodyLeft`).
  `HolderIsOwner` needs that a thread which never locked twice holds the lock once at most
  (`LockInv`). `LibSpec => Spec` (`UsesQueue`) carries the theorems about the queue over to
  threads that are started and stopped at any time.
* **`DlListProofs`**. The invariant ties `next` and `prev` to the ghost sequence at every
  place of the ring and says which cells a walk is going to touch (`WalkInv`); adding and deleting
  are then facts about inserting into and cutting from a sequence. `WalkDeletesMatching` speaks of the end of a
  walk only; `WalkProgress` strengthens it to walks under way: what does not match is still there, in its
  order, and nothing that matches lies before the cell the walk comes to next (`Target`).
  `WalkShortens` says that each body brings the walk one node nearer to its end, so that it takes as many
  rounds as there are nodes. That is `WalkEnds` but for the fairness.
* **`SlaveClientProofs`**. `NeverBlocks`: what a report of `EPOLLIN` promised is still there when it is handled (`ReportHolds`),
  since only main takes data away. `EndsOnlyWithServer`: every error of the socket comes from a
  master that is gone (`LossOfPeer`).
* **`SocketServerProofs`**. `ListMatchesSockets` needs that open connections have descriptors of their own
  (`FdInv`) and the counter's arithmetic below the modulus (`UpModulo`, `DownModulo`). `NeverBlocks`: no
  two entries of an event list name one socket (`EntriesDiffer`), so that serving one entry
  leaves the others as they were reported, and peers only add to what can be read (`PeersOnlyAdd`).
  `TextIsMessage`: what is under way on a connection and what is in its node come from one
  client (`OwnParts`), and the parts still to be received are whole messages but for the beginning of the
  first (`Framed`), so that a text in the order of a message that one recv took in is that message.

* **`IotcDaemonProofs`**. Each step of the daemon is a step of the server or leaves it alone
  (`DaemonRunsServer`), and so for the exchange and the registry: refinements in which the composed state
  is only projected, but which fail if a joint step calls a component in a way it does not expect.
  They carry over the invariants of the components (`ComponentsKeepPromises`, `DaemonHasMailbox`), and what the
  daemon adds follows from these. `PostedBeforeReuse`: while the event of a lost client waits for the exchange
  the server thread waits with it, so that nobody accepts (`WaitInv`). `DisconnectsPosted`: for the same reason
  the thread has not ended while one waits, and main comes to the exchange only with the thread joined (`GoneInv`). `DeviceFromMessage`: the
  invariant follows a descriptor from the recv into the copy of the client, into the event that the
  network thread handles, into the report under way and into the list (`SourceInv`).
* **`DiscoveryProofs`**. `OneMoreAnswer`: a thread that has answered since its stop is past `recvfrom`
  (`LateInv`). `FewUnderWay` compares numbers of datagrams; the invariant says instead that there is an
  injection from the datagrams a device has under way, with the request it sends next, into pairs of a
  master its first request reached and a round, with one round and one for each failed `recvfrom` that
  kept its address (`DatagramInv`). Every other step maps what is under way after it, one to one, to
  what was under way before: a received request to the answer that comes of it, an answer to the
  request that comes of it, datagrams behind a lost one to the places they had. The first request
  begins a round with a datagram for each master (`RoundBegins`), and then there was none; it
  does so again each time `recvfrom` failed before any answer. A later failure adds one datagram, for which the
  new round has a place (`FailureAdds`, `OneMoreRound`).

The assumptions are those of the modules: `GroupAssumption` (the masters are finitely many),
`DaemonAssumption` (messages of one part, and the components' own assumptions), and for the other modules that sizes
and bounds are natural numbers, positive where the code needs it, and that special values differ from ordinary ones.

**Only model-checked**: all liveness (`EventLeaves`, `CleanShutdown`,
`ReadUnlessMissed`, `StopReachesServer`, `ReportReachesList`, `ConsumerServed`, `TimedCallEnds`,
`StopInterrupts`,
`EndsWithServer`, `CommandsRead`, `WalkEnds`, `ClientAnswered`) - the
prover has no rule for fairness and `ENABLED`. Every invariant that a passing run checks is proved, and
so is the type invariant of each module that has one. No module uses recursive definitions.

## 5. What is not modelled, and why

* *Bytes.* A message has parts, not bytes: a recv that ends inside a part, and a text that fills
  `csClientData` to its last byte and is read on behind it (`socket_server.c:374`), are left out. The JSON
  parser takes the first object of a text.
* *Set-up of the process.* `socket`, `bind`, `listen` and the creation of the server thread come before
  anything else runs: the program ends. So it does, by `exit`, when `malloc` fails in
  `SocketClientNew`. The failures after that are in the models. The initialization of mutexes
  and conditions does not fail.
* *Destroyed mutexes.* `IotcDeviceFinished` destroys the mutex of the list while the network thread may be using it.
  The models take a lock of it as an error that the code ignores, as the C library does.
* *Data* that no property depends on: names, `blDeviceOnline`, the contents of a
  service, sequence numbers, addresses of clients.
* *main's* options, logging and the printing of the list. `daemonize_init` is never called: `daemonize`
  is 0 whatever the options are (`main.c:76`, `:85`).
* `u32AtomicAdd` (`mthread.c:429`): one atomic addition of the compiler, called by nobody.
* Calls of the library that no user can make in order: on a queue that does not exist, a second
  `mQueueCreate` for the same queue, `mQueueDestroy` while threads are inside.
* Sending to a device: `SocketClientSendMessage` is never called, so that the master and a slave client
  meet in one direction only. That is why there is no model with a slave client at each of the master's
  connections: the master's side is the stream of parts in `SocketServer`, the device's the peer in `SlaveClient`.
* The two different multicast addresses of master and device: `Discovery` leaves open which
  masters a datagram to the group reaches, none included.
* The slave service: its header has an empty `#define` and its code takes members of pointers with a dot;
  it does not compile, no Makefile names it, and its parsers have no bodies.
* The `iotc_net` program is a `main` that sleeps in a loop around three empty components; `msocket.c`
  wraps one system call per function and nobody calls it. The Android application is the generated
  skeleton of a user interface.

## 6. Plan

Done, in this order: `Mailbox`, `EventSlot`, `EventSlotProofs`; `DeviceRegistry`,
`DeviceRegistryProofs`; `SocketServer`; `IotcDaemon`; `BoundedFifo`, `RingQueue`;
`SlaveClient`, `DlList` and their proofs; `LibraryLock`, `ThreadLibrary`, `ThreadLibraryProofs`;
`Discovery`.

Then, in the models: messages in parts, failing calls and the end of the server thread in `SocketServer`;
main's start in `IotcDaemon`; `QueueMemory`, `mLockDestroy` and the deadlines of timed calls in the library;
`SocketServerProofs`.

Then, in the proofs: `WalkDeletesMatching`, `IotcDaemonProofs` and `DiscoveryProofs`.

Then: the failures of `recvfrom` in `Discovery`, and their part in its proofs.

What is left of the code has no behaviour of its own (section 5). What could still be proved:

1. That the sets `listed` and `clients` are implemented by the list of `DlList`: to whoever holds the
   mutex, a walk that deletes is one step which takes out what matches.
2. The safety parts of the liveness properties, as `WalkShortens` is for `WalkEnds`: that a thread which
   is to be served is enabled and that its service is nearer after each step.

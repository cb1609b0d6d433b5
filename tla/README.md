# TLA+ models of sctp_sandbox

This directory models the concurrent parts of the chat endpoint in `src/src`.
It contains the TLA+ modules, their TLC configurations, and `PROJECT.json`, the
machine-readable index (components, runs, mutants, the source map, findings and
hazards).

## The system

One `networkTask` owns one transport (`Socket` subclass chosen by
`SocketFactory`) and a `TaskScheduler`. Its loop is `ts.launch(); socket->receive();
chatOrQuit()`.

- **Receive cycle** (`Socket::receive`, Socket.cpp 48-58): `selectFds()` computes
  the ready descriptors, one `asyncTask(handleMessage, fd)` per ready descriptor
  runs concurrently, `join` waits for all of them. No handler of cycle N overlaps
  cycle N+1.
- **Scheduler thread** (`tools/TaskScheduler`, not under `src/src`): runs
  `schedule(cb, delay, reps)` callbacks on its own thread. Sockets hold weak
  handles (`ScheduledTaskPtr`) to tasks and call `reset()` / `disable()` on them.
  Every transport uses it for `scheduleReestablishment` (connect again after 5s);
  SocketUdp also for its keep-alive ping and comm-lost timers.
- **SocketTcp / SocketDccp**: one descriptor per peer in `peers` (a `std::map`
  under `peers_mtx`). Outbound peers (`connect`) have `should_reestablish = true`,
  accepted peers `false`. A read error is loss (reestablish if outbound, remove),
  a zero-length read is graceful shutdown (remove).
- **SocketUdp**: one shared descriptor; `peers` maps a remote address to two
  task handles. The map has **no lock** although the network thread
  (`handleMessage`) and the scheduler thread (comm-lost callback, reestablishment)
  both change it.
- **SocketSctp**: one listening descriptor; association notifications arrive on
  it. COMM_UP peels the association off onto its own descriptor; COMM_LOST and
  SHUTDOWN_COMP remove; CANT_STR_ASSOC and COMM_LOST reestablish.
- **SocketDccp**: SocketTcp with its own `handleMessage`. There is no catch around
  `receiveMessage`, an empty read is loss, and `quit_msg` is graceful shutdown.
  The destructor sends `quit_msg` to every peer.
- **SocketUnix**: one datagram descriptor bound to an abstract path, and a
  `std::set` of peer paths. Configured remotes and senders of data are added.
  A `quit_msg` erases its sender. The destructor sends `quit_msg` to every known
  path. It is single-threaded.
- **FDSet**: the `select` wrapper. `set` keeps `fd_max` one past the highest
  descriptor, and `select` scans `0 .. fd_max-1` for ready bits.
- **FileDescriptor**: the owning descriptor, with `should_close`, moves and close.
- **SocketUnixForked** (protocol `UnixForked`): the constructor creates two
  POSIX message queues, `/shm`, a SysV segment, `/sem`, an unnamed semaphore,
  a socket pair, a pipe and the fifo `/tmp/named_pipe`, then forks. The parent
  sends each chat line on all of them; the child reads them. Named objects
  outlive the processes.
- **Chat relay** (`Chat.cpp`, `IoTask.cpp`, `NetworkTask.cpp`, `main.cpp`): the
  io task `chat()`s each typed line into one shared slot. Each network task takes
  the slot (`exchange` under a mutex) and sends the line. `quit_msg` is put back
  for the next task and ends the loop.

`SocketErrorChecks.hpp` is not in the repository. Its `check*` helpers are taken
to throw `std::runtime_error` on failure, as `SocketTcp::receiveMessage`'s catch
relies on (SocketTcp.cpp 56-64). The reads tolerate EAGAIN because the callers
test `result > 0`.

## Modules

| Module | Models | State | Actions |
|---|---|---|---|
| `IPSocket` | IPSocket.cpp/.hpp | none: pure operators | `Literal` (the configuration's constructor with `detectFamily`), `FromStorage` (the constructor from `sockaddr_storage`: `ntohs`, `resize`, `inet_ntop`), `ToStorage` (`htons`, `inet_pton`), `IsIPv6`, `SizeofSockaddr`, `SameRemote` |
| `SctpAddrs` | SocketSctp::bind/getBoundAddresses, checkPorts, chooseSocketFamily, toSockaddrs, SctpGetAddrs.cpp | `locals`, `bound` (what `sctp_bindx` read), `laddrs` (what `getBoundAddresses` reported); fixed after construction | `Bind` (the constructor's bind, an initial condition); operators `CheckPorts`, `ToSockaddrs`, `Walk` (getAddrs' loop), `GetAddrs`, `Getladdrs` (the kernel's packing), `MapV4` |
| `SocketUdp` | SocketUdp.cpp, scheduler callbacks | `peers` (IPSocket key -> ping/lost handle, each a due time and the repetitions left, or `NoTask`), `detached` (bag of scheduled tasks no handle points to), `inbox`, `npc`/`nremote` (network thread), `tpc`/`tremote` (scheduler thread), ghost `silence` | `Receive` (recvfrom and the branch in handleMessage), `NetResetTasks`, `NetCommUp`, `NetDisable`+`NetErase` (remove), `FirePeerPing`, `FirePeerLost`, `FireDetached`, `TimerDisable`+`TimerErase`, `RemoteSend`, `Tick` |
| `SocketTcp` | SocketTcp.cpp, Socket::receive/accept/scheduleReestablishment | `peers` (fd -> remote, should_reestablish), `rx` (what recv returns next per fd), `backlog`, `lock` (owner of peers_mtx), `phase`, `hpc` (handler thread positions), `reests` (bag of scheduled reestablishments) | `Select`, `Join`, `HandleCommUp`, `HandleCommUpFails`, `ReceiveMessage`, `HandleCommLost`, `HandleGracefulShutdown`, `Remove`, `Reestablish`, `ReestablishFails`, `ClientConnects`, `RemoteActs` |
| `SocketSctp` | SocketSctp.cpp, Socket::receive/scheduleReestablishment | `peers` (assoc_id -> peeled-off fd), `open` (descriptors), `kassoc` (kernel associations: remote, state, fd delivered on), `q` (messages per fd), `phase`, `hpc`/`hmsg` (handler threads), `reests`, ghost `owed` | `Select`, `Join`, the handler steps (`ReceiveMessage`, `HandleData`, `PeelOff`, `HandleEstablishmentFailure`, `HandleGracefulShutdown`, `HandleCommLost`, `Erase`), `Reestablish`, and the kernel's `KEstablish`, `KFail`, `KAccept`, `KData`, `KShutdown`, `KLost` |
| `AssocLifecycle` | spec section 4.4 (no code: the abstract promise) | `assoc` (id -> remote, connecting/up/gone), `entry` (ids with a peer-map entry), `owed` (remotes owed a retry) | `Reconnect`, `Establish`, `Accept`, `End`, `AddEntry`, `RemoveEntry`, `Forget` |
| `SocketUnix` | SocketUnix.cpp, chatOrQuit/networkTask | `peers` (known paths per endpoint), `inbox` (FIFO datagram queue), `pc` (loop / send broadcast / destructor broadcast / gone), `todo` (paths the broadcast still has to reach), `lines`, ghosts `ended` and `heard` | `Receive`, `Chat`, `Quit`, `SendTo` (one sendto, including the throw on a closed path), `SendDone` |
| `FDSet` | FDSet.cpp | `fds`, `fd_max`, `selected`, the caller's `phase`, ghosts `watched` and `ready` | `Reset`, `Set`, `Select` (the kernel's readiness is chosen among the watched descriptors) |
| `ChatRelay` | Chat.cpp, IoTask.cpp, NetworkTask.cpp, main.cpp | `slot` (chat's static message), `io`, `iomsg` (ioTask's msg), `typed`, `tpc`/`msg` (each network task), ghost `sent` | `Type`, `EndOfInput`, `Reput`, `ChatTake`, `ChatOrQuit`, `Expire` |
| `FileDescriptor` | FileDescriptor.cpp/.hpp | `obj` (each object's life state, fd, should_close), `kopen` (kernel table), ghost `lastClose` | `Construct` (lowest free number), `ConstructInvalid`, `MoveConstruct`, `MoveAssign`, `Destroy` |
| `Descriptors` | composition of `FileDescriptor` and `FDSet` (selectFds) | the variables of both | `FD!Next` (while no selectFds is in progress), `Sel!Reset`, `Sel!Set` of a number a live owner holds, `Sel!Select` |
| `SocketUnixForked` | SocketUnixForked.cpp/.hpp over several program runs | `names` (named objects in the system), `sysv`, `runs`, `ppc` (parent task), `garbage` (isChild() in the parent), `child`, `orphans`, channel counts `sp`, `pp`, `fifo`, `mq`, `semN`, `semU` | `Start` (constructor and `Fork`), `Send`, `Quit`, `ParentReceive`, `Exit`, `ChildReceive`, `OrphanUnwinds`, `OrphanTerminates`, `Interrupt` |
| `MC_*` | model values, bounds and symmetry for TLC | | |

**IPSocket.** A `std::string` address is its text plus the number of NULs
after it: `c_str()` (what `inet_pton` reads) sees only the text, while
`tieAll` comparisons, and so `std::map` keys, see both. A native address is
the family, the port in network byte order (`ByteSwap16` is `htons`/`ntohs`
on a little-endian host) and the binary address, named by the text
`inet_ntop` prints for it. What libc's `inet_pton` accepts and prints back is
given per text as constants. The constructor from `sockaddr_storage` resizes
`addr` to `INET_ADDRSTRLEN` (16) or `INET6_ADDRSTRLEN` (46) before `inet_ntop`
writes into it, so the decoded string keeps `16 - strlen` NULs.

**SocketUdp.** Peers are keyed by `IPSocket` values. The configured remotes
are `Literal`s; a datagram comes from a native address, and `Receive` keys it
by `FromStorage` of it, as `handleMessage` does (SocketUdp.cpp 51). Each std::map operation is one atomic step. The two threads
interleave between operations: `remove` is `NetDisable` then `NetErase` (or
`TimerDisable` then `TimerErase`). A task stored in a peer's handle lives in
`peers`. A task that is still scheduled but unreferenced (an erased peer's
timers, a reestablishment, timers whose emplace failed) lives in `detached`.
Time passes in keep-alive periods; `Tick` is enabled only when both threads are
idle, no datagram is queued and no task is due, since the 100ms poll and the
scheduler react far faster than one period. `silence[r]` counts the periods
since the code last armed r's liveness window; it is a ghost that saturates at
`LossDelay + 1`. The scheduler's `schedule/reset/disable` follow spec
sections 5, 6 and 9 (spec_modelled).

**SocketTcp / SocketDccp.** A handler thread exists per ready descriptor of the
cycle (`hpc`). Each step that takes `peers_mtx` requires it to be free, except
`Remove`, which is the nested `LOCK_MTX` in `remove()`. That step needs the mutex
free or, with `PeersMtxRecursive = TRUE`, already owned by the same handler.
Descriptors are allocated lowest-free, as the kernel does. The remote ends
(`RemoteActs`, `ClientConnects`) are the environment.

The variable `dccp`, chosen at Init from the constant `Variants` and never
changed, selects the class. Its `handleMessage` is a table from what recv
returns to the handler's path (`TcpPath`, `DccpPath`). SocketDccp's escaping
recv error ends the handler with no state change. The kernel then reports 0 on
the dead connection in the next cycle, which SocketDccp treats as loss.

**SocketSctp.** The kernel is part of the model. `kassoc` holds its
associations and the descriptor each one is delivered on. `sctp_peeloff` moves
an association's queued events to the new descriptor. A peel-off of an
association the kernel has already freed throws out of the handler. The lock
is held only inside single steps, so it is not a variable. The kernel
environment is bounded by a guard, not a constraint: `KFail` and `KLost` are
enabled only while fewer than `MaxReests` reestablishments are scheduled, so
the state space is finite and liveness can be checked.

**SctpAddrs.** `SocketSctp::bind` packs the local addresses with
`toSockaddrs` into one byte array of `sockaddr_in` (16 bytes) and
`sockaddr_in6` (28 bytes) for `sctp_bindx`; `getAddrs` walks the array
`sctp_getladdrs` returns by moving `sizeofSockaddr()` of the element it just
decoded. The model keeps, per byte, the address whose element it belongs to
and whether it is that element's first byte; a read anywhere else is garbage
(`NoAddr`). `Walk` is getAddrs' loop, `RECURSIVE` over the count; the kernel's
`sctp_bindx` reads the array the same way, and `Getladdrs` packs the bound
addresses as an IPv6 socket presents them (IPv4 ones as `::ffff:a.b.c.d`).
In `MC_SocketSctp` the socket is first bound (`MCInit == Init /\ Bind`) and
then runs the handler loop with its addresses unchanged (`MCNext`, one
disjunct per `SocketSctp` action).

**AssocLifecycle and the refinement.** `AssocLifecycle` states what spec 4.4
promises of an association, without descriptors, queues or threads. SocketSctp
is shown to implement it: `Lifecycle == INSTANCE AssocLifecycle WITH assoc <-
(kassoc, its fd dropped), entry <- DOMAIN peers, owed <- owed`, and the
property `ImplementsLifecycle == Lifecycle!Spec` is checked. That covers every
step (each code step is an abstract step or a stutter) and the abstract
fairness: an ended association's entry is removed, and a remote owed a retry
gets one.

**Accept failure.** `HandleCommUpFails` is an `accept4` that throws on the
non-blocking listening socket: Linux reports a network error pending on a
queued connection from `accept` and drops the connection. The lock guard
releases, no peer is added, and the exception leaves the handler for the
fan-out, which logs it (spec section 4.1).

**Connect failure.** `ReestablishFails` is a reestablishment whose `socket()`
or `connect()` throws at once (EMFILE, ENETUNREACH): the callback ends before
`emplace`, and nothing schedules another attempt (SocketTcp.cpp 16-25,
Socket.cpp 116-121). The configured remote is then abandoned, against spec
sections 7 and 8. That is the absence of any later attempt, a liveness
property, and it can only show once `receive()` cycles go on past a loss,
which needs the recursive mutex the code does not have. So it is not a run;
the hazard stays listed at Socket.cpp:120.

**The nested lock.** `remove()` locks `peers_mtx` while its caller holds it.
With glibc's default mutex that blocks the handler, and with it `receive()`,
for good (`SocketTcp_nested_lock`). `PeersMtxRecursive = TRUE` lets the
inner lock succeed. With FALSE, `Remove` is the only action that loses
behaviours, so the recursive model reaches every state the real build
reaches, and more. The recursive run therefore checks only safety
(`OneAttemptPerRemote`), which then holds for the real build too. No
liveness property is checked under it: that would be about a program the
code is not.

**SocketUnix.** Endpoints are processes, and paths are `1..N` in `std::set`
order. The broadcast is one `SendTo` step per path, so other endpoints can act
between two sendtos. A sendto to a closed path throws. From `send()` it unwinds
into the destructor's broadcast (`pc` becomes "close"). From the destructor it
is `std::terminate`, which closes the descriptor. `Close` is
`FileDescriptor::close` and discards the queue. The receive queue (512
datagrams) never fills under the model's bounds.

**FDSet.** The model drives the calls in the callers' order: reset, set for
each descriptor, then select. `Select` chooses the kernel's readiness over the
watched descriptors. The kernel examines only those below `fd_max`.

**ChatRelay.** `chat()` is one atomic step because of its mutex. The user's
input is `Type`. A task with a lifetime can `Expire` whenever it is back at the
top of its loop. `EndOfInput` is `getline` failing at the end of stdin. When
the last line had a newline, or nothing was read, `getline` erases ioTask's
`msg`. Otherwise `eofbit` is already set, the sentry fails, and `msg` keeps
that line. Either way `chat(msg)` puts it in the slot. `Reput` is every later
iteration doing the same: the last unterminated line is re-put, and sent,
forever.

**FileDescriptor.** Objects are born, moved and destroyed against the kernel's
table of open numbers. `InTreeUse = TRUE` restricts the calls to the patterns
the transports use:
- constructing from `socket`, `accept4` or `peeloff`;
- moving an owning object into a `Peer` or a pair;
- assigning into `Socket::fd` while it is still invalid.

**Descriptors (composition).** `selectFds` sets the numbers of live owning
FileDescriptor objects (the socket's own and each peer's) and selects. It runs
under `peers_mtx`, and peers are created and removed under the same lock, so
the FileDescriptor steps happen only while no selectFds is in progress
(`phase = "idle"`). Both modules are checked through this composition, so
FDSet sees descriptor numbers as the kernel hands them out and reuses them.

**SocketUnixForked.** One program run is `Start` (the constructor in code
order, failing at the first `O_EXCL` open whose name exists) up to `Exit`.
Data is reduced to counts per channel. The child never sends: it has no io
thread, and its chat slot is the copy taken at fork. Its `receive` reads one
datagram, one pipe packet (`O_DIRECT`), the whole fifo and one queue message.
The parent's `isChild()` reads the member `parent`, which only the child
assigns: the model chooses its value at fork. When the forking thread ends,
the child gets SIGTERM and `parentDied` throws from a signal handler. The
model lets that either unwind through the destructor (`OrphanUnwinds`) or
end in `std::terminate` (`OrphanTerminates`). `Interrupt` is SIGINT from the
terminal, which kills both processes without a destructor. `checkRemove` is
taken to accept a missing fifo; otherwise no first start could succeed.

## Runs

| Run | Expect | Shows |
|---|---|---|
| `SocketUdp_timers` | pass | With the configured literal and the key recvfrom decodes for the same remote both in play, `KnownPeerCanBeLost`: outside its removal, every known peer holds a live comm-lost timer, or a comm-lost or reestablishment task for it is scheduled. A peer `resetTasks` re-inserted without a timer is covered only by the reestablishment `handleCommLost` scheduled before the erase, and, through it, by the timer `handleCommUp` orphans. |
| `SocketUdp_LiveTrafficNeverLost` | violation | A peer that keeps talking is declared lost. A reestablishment's `handleCommUp` finds the peer already back, emplace keeps the old entry, and the orphaned comm-lost timer fires (SocketUdp.cpp:79). |
| `SocketUdp_SilentPeerDeclaredLost` | violation | `handleMessage` counts the peer, the scheduler erases it, and `resetTasks` re-inserts it with only a ping task. The peer stays known while silent past `LossDelay` periods (SocketUdp.cpp:115). It is declared lost only when the reestablishment runs `handleCommUp` on it and the comm-lost timer that call orphans fires: after `ReestDelay + LossDelay` = 9 periods instead of 4. The `silence` ghost stops counting at 5, so the trace ends there. |
| `SocketUdp_config_remote` | violation | `OnePeerPerAddress` fails in three steps: the configured remote sends, `Receive` keys it by the decoded IPSocket, whose address keeps the NUL padding of `resize`, and `handleCommUp` adds a second peer for the same address. The configured entry never hears anything, so it is declared lost every 4s and re-established, and every chat line is sent twice. Spec section 3 says address records are equal by (address, port, family) (IPSocket.cpp:42). |
| `SocketTcp_recursive` | pass | Both classes, as if the nested lock succeeded (a superset of the real build's states), with connects that may fail at once. `OneAttemptPerRemote`: a configured remote never has more than one connection or scheduled reestablishment at a time, whichever of the handlers and the scheduler's connect gets `peers_mtx` first, and no reestablishment is ever scheduled for a client. |
| `SocketTcp_nested_lock` | violation | With `peers_mtx` a `std::mutex`, `remove()` under the caller's lock blocks the handler forever, and no closed peer is removed again (SocketTcp.cpp:131). |
| `SocketSctp_lifecycle` | pass | `PeerMapConsistent`: peers, open descriptors and the kernel's delivery agree through peel-off, removal and descriptor reuse. `OneAttemptPerRemote`: a configured remote never has two attempts in flight. `ImplementsLifecycle`: SocketSctp refines `AssocLifecycle`, including that every lost or failed association is retried and every ended peeled-off association leaves `peers`. `BoundAddressesReported`: the kernel binds exactly the configured locals from `toSockaddrs`' array, and `getBoundAddresses` reports each in order (mapped on an IPv6 socket), through mixed IPv4/IPv6 strides. |
| `SocketUnix_quit` | pass | `NoResurrection`: a path whose `quit_msg` was handled never comes back into `peers`. This depends on FIFO queues and on the destructor's quit being the last datagram sent. |
| `SocketUnix_EndsOnlyByQuit` | violation | Endpoint 1 knows endpoint 2, but 2 never learnt 1. 2 quits without telling 1. 1's next chat line goes to the closed path, `checkSend` throws, and the task ends. Spec section 10 says one peer's failure does not end the endpoint (SocketUnix.cpp:83). |
| `Descriptors_select` | pass | `OwnershipExact`: under the transports' calls, every open descriptor has exactly one live owner that will close it, and no owner holds a closed number. `SelectReturnsWatchedReady`: `select` returns exactly the watched descriptors with data, in ascending order, checked against `SetToSortSeq`, with the descriptors the objects really hold. |
| `SocketUnixForked_restart` | violation | A run killed by SIGINT leaves `/shm` and `/sem`. The next start's `O_EXCL` `shm_open` fails and the network task ends before fork. The constructor clears stale queues and the fifo but not these two (SocketUnixForked.cpp:132, 148). With `Interrupts = FALSE`, every restart succeeds. |
| `ChatRelay_quit` | pass | `LineSentOnce`: a typed line goes out on at most one task, except the line stdin ended on without a newline, which is re-put and sent forever. `QuitEndsAllTasks`: in the UDP, SCTP and Unix builds, once `quit_msg` is typed, every network task ends. |

Every property of a passing run has a mutant in `PROJECT.json`. A mutant is a
plausible bug in a mapped definition, and TLC catches each one.

**A latent FileDescriptor bug.** The bug is not a run because no caller reaches
it. With `InTreeUse = FALSE` in `Descriptors_select.cfg`, TLC violates
`OwnershipExact` in three steps: construct o1 (fd 3) and o2 (fd 4), then
move-assign o2 into o1. `operator=` calls `close()`, which clears
`should_close`, and nothing sets it again. Descriptor 4 is then never closed
(FileDescriptor.cpp:22). It is not listed as a hazard, since no code in the
repository reaches it.

### Bounds

- **UDP:** one remote, 127.0.0.1 on main.cpp's X2 port, configured in the
  pass run and the `config_remote` run. Its literal and its decoded key are
  two distinct map keys, so a configured peer and a stranger coexist. A second
  sending address (tried with the S1 port) grows the pass run past 20 million
  states without finishing in ten minutes.
  - `Probes = 3` and the 5s reestablishment delay are the code's values
    (`keep_alive_probes`, `5s`).
  - One queued datagram (`InboxCap = 1`) is enough to interleave any datagram
    with any callback.
  - At most three detached tasks (`MaxDetached`, a CONSTRAINT) is enough for one
    orphaned ping/lost pair plus a reestablishment.
  - The violation runs use one remote and no keep-alive text.
- **TCP/DCCP:** two configured remotes and one client, so outbound and inbound
  peers are handled in the same cycle. The descriptor range is just large
  enough for all of them at once. Both classes are checked in one run.
- **SCTP:**
  - `SocketSctp_lifecycle` uses one configured remote, one client and two
    association ids. Both remotes can be alive at once, an ended association
    can still be queued on its descriptor, and a freed id is reused.
  - `DataCap = 1`.
  - At most two scheduled reestablishments (`MaxReests`, a guard on the
    kernel's failures), so a second loss can happen while a retry is pending.
  - Four local lists for bind, from main.cpp's addresses: the MME's
    `127.0.0.1:36412`; IPv4, IPv6, IPv4 on one port (strides 16, 28, 16);
    IPv6 first; and the two eNB ports together, which `checkPorts` refuses.
    Each accepted list is a separate initial state.
  - No symmetry: the refinement property is temporal, and symmetry is unsound
    for liveness checking.
- **Unix:** three endpoints with the configured remotes 1 -> {2} and
  3 -> {1, 2}. This gives a one-way path (2 never learns 1 until data arrives)
  and a mutual one. `MaxLines = 2` chat lines in total.
- **Descriptors:** four objects and descriptors 3..6, symmetric in the objects.
  This covers every order of `set` calls, gaps left by a closed number, a
  reused number, and a highest descriptor that is not set last.
- **Chat:** the three tasks `main` starts (mme, enb1, enb2), with one mortal.
  Three typed lines.
- **SocketUnixForked:** two program starts, so that the second meets what the
  first left. Three chat lines per run: with five queue messages per line and
  `mq_maxmsg` 10, the third line overflows the queue when the child has not
  drained it.

### Fairness

- **UDP, TCP/DCCP:** the checked pass properties are safety, so there is no
  fairness. `SocketTcp`'s fairness serves only the `nested_lock` run.
- **SCTP, and TCP/DCCP in `SocketTcp_nested_lock`:** weak fairness for (a
  reestablishment that succeeds or fails counts as one):
  - `Select`/`Join`: the network loop never stops.
  - each handler thread: an async task runs unless it is blocked.
  - each scheduled reestablishment: the scheduler runs due tasks.

  The remote ends and the kernel get none: a peer may stay silent forever.
- **Unix:** weak fairness for `Receive`, `SendTo` and `SendDone`. The loop polls
  every 100ms and sends complete. The user (`Chat`, `Quit`) gets none.
- **Chat:** weak fairness for each task's `ChatTake`/`ChatOrQuit`, because
  `receive` returns within its 100ms select timeout. That holds in the UDP,
  SCTP and Unix builds: their handlers take `peers_mtx` at most once, and the
  Unix reads are non-blocking. It does not hold with SocketTcp/SocketDccp,
  whose `receive` blocks for good at the first removal. So `QuitEndsAllTasks`
  is a property of the first three builds. The user and the lifetimes get
  none.
- **Descriptors, SocketUnixForked:** safety only.

## Not modelled and the plan

Next, in order:

1. A refinement of `SocketTcp` to a per-connection lifecycle like
   `AssocLifecycle`.
2. **SCTP**: a kernel that reports COMM_UP twice.
3. **FDSet** at `FD_SETSIZE`: descriptors in the models stay far below the
   limit.

Left out on purpose:

- `send()` broadcast I/O for TCP, UDP and SCTP. It changes no state, and the
  unlocked UDP iteration is undefined behaviour.
- IPSocket values appear only in `SocketUdp` and `SctpAddrs`; the other
  transports key their peers by descriptor or association id and keep the
  remote as an opaque value. `connectMultihomed` (toSockaddrs for
  `sctp_connectx`) is called by no code path. The peer addresses
  `getPaddrs` logs at each peel-off go through the same `Walk`.
- Configuration parsing (`NetworkConfiguration`), socket options, `SocketIO`
  and `SocketFactory`. These are pure conversion or I/O with no state to
  check.
- A TCP `send()` to a connection reset after `select` (SocketTcp.cpp:94):
  `checkSend` throws out of `chatOrQuit` and the network task ends, and with
  `ignore_flags = 0` and no SIGPIPE handler in `main`, a write to a closed
  connection kills the process. The TCP model leaves `send()` out; the same
  unwinding is shown for the Unix transport by `SocketUnix_EndsOnlyByQuit`.
  A TCP run with a failing send is the next step for this hazard.
- `msg_buffer[received] = 0` in every `receiveMessage`
  (SocketTcp.cpp:100, SocketSctp.cpp:106) writes one past the buffer when a
  read fills it. The buffer types are in `tools/`, which is not in the
  repository, so their sizes are unknown.
- The order in the SCTP constructor: the socket is created (Socket.cpp:27)
  before `checkPorts` throws, and closed while unwinding. Spec section 8
  says the validation error comes before any descriptor is created; no
  property distinguishes the two, as the descriptor never escapes.
- In `SocketUnixForked`: the values of the shared integers (only logged),
  `checkParentAlive` (the parent dying during fork), and the parent's SIGCHLD
  handler. Spec section 1 excludes this transport as test scaffolding, so no
  property states what it promises per line. The full queue, the parent
  taking its own semaphore posts, and the leaked SysV segment are modelled
  and listed as hazards.
- The order of destruction in `networkTask`: the socket dies before the
  `TaskScheduler`, whose callbacks capture `this`. `tools/TaskScheduler` is
  not in the repository.

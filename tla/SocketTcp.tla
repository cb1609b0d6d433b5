----------------------------- MODULE SocketTcp -----------------------------
(***************************************************************************)
(* The stream transport SocketTcp (src/src/SocketTcp.cpp) driven by        *)
(* Socket::receive (src/src/Socket.cpp) and the reestablishment task.      *)
(*                                                                         *)
(* Threads: the network thread runs receive(): selectFds under peers_mtx, *)
(* then one handleMessage task per ready descriptor, all concurrent, then *)
(* join.  Each handler is its own thread here.  The scheduler thread runs *)
(* the connect({remote}) callbacks scheduleReestablishment queues.  Every  *)
(* step that takes peers_mtx is guarded by the mutex being free; the one   *)
(* exception is remove(), which locks peers_mtx again while its caller    *)
(* (handleGracefulShutdown, handleCommLost) still holds it.  peers_mtx is  *)
(* a std::mutex: locking it twice from one thread is undefined and with    *)
(* glibc blocks forever.  PeersMtxRecursive = FALSE is that build;         *)
(* TRUE checks the rest of the design as if the inner lock succeeded.     *)
(*                                                                         *)
(* dccp = TRUE is SocketDccp (src/src/SocketDccp.cpp), the same class    *)
(* with its own handleMessage: no catch around receiveMessage, an empty    *)
(* read is handleCommLost and quit_msg is handleGracefulShutdown.  The    *)
(* class is fixed for a behaviour and chosen from Variants at Init.       *)
(*                                                                         *)
(* Descriptors are small naturals allocated lowest-free, as socket() and  *)
(* accept4() do.  The remote side of each connection is the environment:  *)
(* it sends data, closes (recv returns 0) or fails (recv errors).          *)
(***************************************************************************)
EXTENDS Naturals, FiniteSets, Bags, BagsExt, Functions, FiniteSetsExt, TLC

CONSTANTS
    ConfigRemotes,      \* config.remotes, connected by establishSocket
    Clients,            \* remotes that connect to the listening socket
    PeersMtxRecursive,  \* does remove()'s second lock of peers_mtx succeed?
    Variants,           \* which classes: TRUE SocketDccp, FALSE SocketTcp
    NoOwner             \* peers_mtx is not held

ASSUME /\ ConfigRemotes \cap Clients = {}
       /\ PeersMtxRecursive \in BOOLEAN
       /\ Variants \subseteq BOOLEAN

\* Enough descriptors for the listening socket, one connection per remote
\* and per client: the environment opens no more than that at a time.
Fds == 1 .. (1 + Cardinality(ConfigRemotes) + Cardinality(Clients))

\* The listening socket Socket::Socket creates first.
ListenFd == 1

VARIABLES
    peers,    \* SocketTcp::peers : fd -> [remote, reest (should_reestablish)]
    rx,       \* per open peer fd, what recv returns next
    backlog,  \* clients whose connection waits in the listen backlog
    lock,     \* owner of peers_mtx: a handler's fd, or NoOwner
    phase,    \* network thread: "idle" or "join" (handlers running)
    hpc,      \* handler threads of the current cycle : fd -> position
    reests,   \* bag of remotes with a scheduled reestablishment
    dccp      \* the class: SocketDccp (TRUE) or SocketTcp (FALSE)

vars == <<peers, rx, backlog, lock, phase, hpc, reests, dccp>>

Remotes == ConfigRemotes \cup Clients
RxStates == {"none", "data", "quit", "eof", "error"}
HandlerPcs == {"start", "lost", "eof", "removeLost", "removeEof", "done"}

TypeOK ==
    /\ DOMAIN peers \subseteq Fds \ {ListenFd}
    /\ \A fd \in DOMAIN peers : peers[fd] \in [remote : Remotes, reest : BOOLEAN]
    /\ rx \in [Fds -> RxStates]
    /\ backlog \subseteq Clients
    /\ lock = NoOwner \/ lock \in Fds
    /\ phase \in {"idle", "join"}
    /\ DOMAIN hpc \subseteq Fds /\ \A fd \in DOMAIN hpc : hpc[fd] \in HandlerPcs
    /\ DOMAIN reests \subseteq ConfigRemotes \cup Clients
    /\ \A r \in DOMAIN reests : reests[r] \in Nat \ {0}
    /\ dccp \in Variants

-----------------------------------------------------------------------------

Open == DOMAIN peers \cup {ListenFd}

\* socket() / accept4(): the lowest free descriptor.  Fds is large enough
\* that the code's own behaviour never runs out (no EMFILE).
CanOpen == Fds \ Open # {}

\* Mutant: the next descriptor after the highest one in use.
NewFdAfterHighest == Max(Open) + 1

NewFd == Min(Fds \ Open)

LockFree == lock = NoOwner

\* Outbound connections from connect(config.remotes) in establishSocket.
InitPeers ==
    LET order == CHOOSE f \in [1 .. Cardinality(ConfigRemotes) -> ConfigRemotes] :
                     Range(f) = ConfigRemotes
    IN  [fd \in 2 .. Cardinality(ConfigRemotes) + 1 |->
            [remote |-> order[fd - 1], reest |-> TRUE]]

Init ==
    /\ peers = InitPeers
    /\ rx = [fd \in Fds |-> "none"]
    /\ backlog = {}
    /\ lock = NoOwner
    /\ phase = "idle"
    /\ hpc = <<>>
    /\ reests = <<>>
    /\ dccp \in Variants

-----------------------------------------------------------------------------
(* Network thread: Socket::receive with SocketTcp::selectFds.              *)

\* selectFds holds peers_mtx across FD_SET of the listening fd and every
\* peer fd and the select call; one handleMessage task per ready fd.
Select ==
    /\ phase = "idle"
    /\ LockFree
    /\ LET ready == {fd \in DOMAIN peers : rx[fd] # "none"}
                    \cup (IF backlog # {} THEN {ListenFd} ELSE {})
       IN  /\ ready # {}
           /\ hpc' = [fd \in ready |-> "start"]
    /\ phase' = "join"
    /\ UNCHANGED <<dccp, peers, rx, backlog, lock, reests>>

\* join(tasks)
Join ==
    /\ phase = "join"
    /\ \A fd \in DOMAIN hpc : hpc[fd] = "done"
    /\ phase' = "idle"
    /\ hpc' = <<>>
    /\ UNCHANGED <<dccp, peers, rx, backlog, lock, reests>>

-----------------------------------------------------------------------------
(* Handler threads: SocketTcp::handleMessage(fd).                          *)

At(fd, pc) == fd \in DOMAIN hpc /\ hpc[fd] = pc
Goto(fd, pc) == hpc' = [hpc EXCEPT ![fd] = pc]

\* fd == this->fd: handleCommUp locks peers_mtx, accepts and registers the
\* inbound peer with should_reestablish = false.
HandleCommUp ==
    /\ At(ListenFd, "start")
    /\ LockFree
    /\ CanOpen
    /\ \E c \in backlog :
          /\ peers' = peers @@ (NewFd :> [remote |-> c, reest |-> FALSE])
          /\ backlog' = backlog \ {c}
    /\ Goto(ListenFd, "done")
    /\ UNCHANGED <<dccp, rx, lock, phase, reests>>

\* accept4 on the non-blocking listening socket fails for a connection
\* that saw a network error while queued (Linux returns the pending error
\* from accept and drops the connection): checkedAccept throws, the lock
\* guard releases, no peer is added, and the exception leaves handleMessage
\* for the fan-out, which logs it (spec section 4.1).
HandleCommUpFails ==
    /\ At(ListenFd, "start")
    /\ LockFree
    /\ \E c \in backlog : backlog' = backlog \ {c}
    /\ Goto(ListenFd, "done")
    /\ UNCHANGED <<dccp, peers, rx, lock, phase, reests>>

\* What handleMessage does after receiveMessage, by what recv returned:
\* "lost" goes to handleCommLost, "eof" to handleGracefulShutdown, "done"
\* returns.  SocketTcp catches a recv error as loss, takes an empty
\* message for shutdown and logs anything else, quit_msg included.
TcpPath == [error |-> "lost", eof |-> "eof", quit |-> "done", data |-> "done"]

\* SocketDccp has no catch: a recv error leaves handleMessage as an
\* exception, which the fan-out logs (spec section 4.1), so the handler
\* ends.  An empty message is loss, quit_msg a graceful shutdown.
DccpPath == [error |-> "done", eof |-> "lost", quit |-> "eof", data |-> "done"]

\* receiveMessage: getBuffer (peers_mtx) then recv, then the branch of
\* handleMessage.  The connection's state stays in rx until remove closes
\* the descriptor; a data read consumes the message, and a recv error that
\* escapes (SocketDccp) consumes the socket's pending error, after which
\* the dead connection reads 0.
ReceiveMessage(fd) ==
    /\ fd # ListenFd
    /\ At(fd, "start")
    /\ LockFree
    /\ rx[fd] # "none"
    /\ LET path == (IF dccp THEN DccpPath ELSE TcpPath)[rx[fd]]
       IN  /\ Goto(fd, path)
           /\ rx' = CASE path # "done"     -> rx
                       [] rx[fd] = "error" -> [rx EXCEPT ![fd] = "eof"]
                       [] OTHER            -> [rx EXCEPT ![fd] = "none"]
    /\ UNCHANGED <<dccp, peers, backlog, lock, phase, reests>>

\* handleCommLost: lock peers_mtx, scheduleReestablishment(peer.remote) if
\* should_reestablish, then remove(fd) with the lock still held.
HandleCommLost(fd) ==
    /\ At(fd, "lost")
    /\ LockFree
    /\ lock' = fd
    /\ reests' = IF peers[fd].reest THEN BagAdd(reests, peers[fd].remote) ELSE reests
    /\ Goto(fd, "removeLost")
    /\ UNCHANGED <<dccp, peers, rx, backlog, phase>>

\* handleGracefulShutdown: lock peers_mtx, then remove(fd) with it held.
HandleGracefulShutdown(fd) ==
    /\ At(fd, "eof")
    /\ LockFree
    /\ lock' = fd
    /\ Goto(fd, "removeEof")
    /\ UNCHANGED <<dccp, peers, rx, backlog, phase, reests>>

\* remove: LOCK_MTX(peers_mtx) a second time, peers.erase(fd) (the Peer's
\* FileDescriptor closes fd), then both lock guards release.
Remove(fd) ==
    /\ \E pc \in {"removeLost", "removeEof"} : At(fd, pc)
    /\ LockFree \/ (PeersMtxRecursive /\ lock = fd)
    /\ peers' = Restrict(peers, DOMAIN peers \ {fd})
    /\ rx' = [rx EXCEPT ![fd] = "none"]
    /\ lock' = NoOwner
    /\ Goto(fd, "done")
    /\ UNCHANGED <<dccp, backlog, phase, reests>>

-----------------------------------------------------------------------------
(* Scheduler thread: the scheduleReestablishment callback.                 *)

\* Mutant: the scheduler keeps the reestablishment task after running it.
ReestablishKeepTask(r) ==
    /\ r \in DOMAIN reests
    /\ LockFree
    /\ CanOpen
    /\ peers' = peers @@ (NewFd :> [remote |-> r, reest |-> TRUE])
    /\ UNCHANGED <<dccp, rx, backlog, lock, phase, hpc, reests>>

\* connect({remote}): lock peers_mtx, createConnectSocket, Socket::connect
\* (non-blocking), peers.emplace with should_reestablish = true.
Reestablish(r) ==
    /\ r \in DOMAIN reests
    /\ LockFree
    /\ CanOpen
    /\ peers' = peers @@ (NewFd :> [remote |-> r, reest |-> TRUE])
    /\ reests' = BagRemove(reests, r)
    /\ UNCHANGED <<dccp, rx, backlog, lock, phase, hpc>>

\* The same callback when socket() or checkConnect fails at once (EMFILE,
\* ENETUNREACH): the exception leaves connect before emplace, the lock
\* guard and the FileDescriptor release, and the task ends.  Nothing
\* schedules another attempt.
ReestablishFails(r) ==
    /\ r \in DOMAIN reests
    /\ LockFree
    /\ reests' = BagRemove(reests, r)
    /\ UNCHANGED <<dccp, peers, rx, backlog, lock, phase, hpc>>

-----------------------------------------------------------------------------
(* Environment: the remote ends of the connections.                        *)

Connected(c) == \E fd \in DOMAIN peers : peers[fd].remote = c

ClientConnects(c) ==
    /\ c \notin backlog
    /\ ~Connected(c)
    /\ backlog' = backlog \cup {c}
    /\ UNCHANGED <<dccp, peers, rx, lock, phase, hpc, reests>>

\* The peer sends a chat message, closes its end, or the connection fails
\* (refused, reset, or keep-alive probes unanswered).  A SocketDccp peer
\* also sends quit_msg from its destructor; a SocketTcp peer never does.
RemoteSignals == IF dccp THEN {"data", "quit", "eof", "error"}
                         ELSE {"data", "eof", "error"}

RemoteActs(fd) ==
    /\ rx[fd] = "none"
    /\ \E s \in RemoteSignals : rx' = [rx EXCEPT ![fd] = s]
    /\ UNCHANGED <<dccp, peers, backlog, lock, phase, hpc, reests>>

-----------------------------------------------------------------------------

Handler(fd) ==
    \/ fd = ListenFd /\ (HandleCommUp \/ HandleCommUpFails)
    \/ ReceiveMessage(fd) \/ HandleCommLost(fd)
    \/ HandleGracefulShutdown(fd) \/ Remove(fd)

Next ==
    \/ Select \/ Join
    \/ \E fd \in DOMAIN hpc : Handler(fd)
    \/ \E r \in DOMAIN reests : Reestablish(r) \/ ReestablishFails(r)
    \/ \E c \in Clients : ClientConnects(c)
    \/ \E fd \in DOMAIN peers : RemoteActs(fd)

\* The network thread loops forever and every handler task runs to its end
\* unless blocked; the scheduler runs every due task.  The remote ends get
\* no fairness.
Fairness ==
    /\ WF_vars(Select) /\ WF_vars(Join)
    /\ \A fd \in Fds : WF_vars(fd \in DOMAIN hpc /\ Handler(fd))
    /\ \A r \in Remotes : WF_vars(Reestablish(r) \/ ReestablishFails(r))

Spec == Init /\ [][Next]_vars /\ Fairness

(* Properties.                                                             *)

\* A handler that has taken peers_mtx to remove fd: the peer is still in
\* the map but handleCommLost has already scheduled its successor.
Leaving(fd) == fd \in DOMAIN hpc /\ hpc[fd] \in {"removeLost", "removeEof"}

\* Outbound attempts to r: live peers to it that will be retried, and
\* reestablishments of it still scheduled.
Attempts(r) ==
    Cardinality({fd \in DOMAIN peers : /\ peers[fd].remote = r
                                      /\ peers[fd].reest
                                      /\ ~Leaving(fd)})
    + CopiesIn(r, reests)

\* Spec section 8, reestablishment policy: a lost outbound peer is replaced
\* by one new connection, and an inbound one is never re-dialled.  At most
\* one attempt per configured remote exists at a time, whichever of the
\* handler threads and the scheduler's connect gets peers_mtx first, and
\* no reestablishment is ever scheduled for a client.  Checks the
\* should_reestablish flags connect and handleCommUp set, handleCommLost
\* scheduling under the lock before remove, and the scheduler consuming
\* its task.  Checked with remove()'s second lock succeeding: the build
\* with std::mutex blocks there instead, and reaches a subset of the
\* states, so the invariant holds for it too.
OneAttemptPerRemote ==
    /\ \A r \in ConfigRemotes : Attempts(r) <= 1
    /\ \A c \in Clients : CopiesIn(c, reests) = 0

\* Spec sections 4.2 / 8 and 10 (transient read errors are a loss event):
\* once a connection is closed or has failed, later cycles remove the
\* peer.  For SocketDccp the recv error escapes handleMessage and only the
\* zero-length read of the next cycle reaches handleCommLost.  Checks the
\* lock discipline of handleGracefulShutdown / handleCommLost -> remove.
ClosedPeerRemoved ==
    \A fd \in Fds \ {ListenFd} :
        (fd \in DOMAIN peers /\ rx[fd] \in {"eof", "error"}) ~> (fd \notin DOMAIN peers)

=============================================================================

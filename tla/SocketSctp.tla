----------------------------- MODULE SocketSctp -----------------------------
(***************************************************************************)
(* The multi-association transport SocketSctp (src/src/SocketSctp.cpp)     *)
(* driven by Socket::receive and the reestablishment task.                 *)
(*                                                                         *)
(* One SOCK_SEQPACKET descriptor (ListenFd) carries data and association  *)
(* notifications of every association until handleCommUp peels one off   *)
(* onto its own descriptor; from then on the kernel delivers that          *)
(* association's events there, and sctp_peeloff moves the events already  *)
(* queued for it along (Linux sctp_sock_migrate).  When the kernel reports *)
(* CANT_STR_ASSOC, SHUTDOWN_COMP or COMM_LOST it has freed the            *)
(* association: a later sctp_peeloff of it fails and checkedPeeloff       *)
(* throws out of the handler task.                                         *)
(*                                                                         *)
(* Threads as in SocketTcp: the network thread (selectFds under peers_mtx, *)
(* one handler per ready fd, join), one thread per handler, and the       *)
(* scheduler running connect({remote}), which uses the listening fd and   *)
(* takes no lock.  peelOff, remove, getBuffer and selectFds each hold    *)
(* peers_mtx only inside one step, so the lock itself is not a variable. *)
(***************************************************************************)
EXTENDS Naturals, Sequences, FiniteSets, Bags, BagsExt, Functions, FiniteSetsExt, TLC

CONSTANTS
    ConfigRemotes,  \* config.remotes, connected by establishSocket
    Clients,        \* remotes that open associations to us
    Assocs,         \* association ids the kernel hands out
    DataCap,        \* chat messages a descriptor's queue holds at once
    MaxReests       \* scheduled reestablishments the remotes' failures outpace

ASSUME /\ ConfigRemotes \cap Clients = {}
       /\ Cardinality(ConfigRemotes) <= Cardinality(Assocs)
       /\ DataCap \in Nat
       /\ MaxReests \in Nat

Remotes == ConfigRemotes \cup Clients

\* The listening socket Socket::Socket creates first.
ListenFd == 1

\* One descriptor per association that can be peeled off at once.
Fds == 1 .. (1 + Cardinality(Assocs))

\* sctp_recvmsg results: a chat message, or an SCTP_ASSOC_CHANGE
\* notification with sac_state COMM_UP, CANT_STR_ASSOC, SHUTDOWN_COMP or
\* COMM_LOST.
Events == {"data", "up", "cant", "shut", "lost"}
Msg == [assoc : Assocs, ev : Events]

VARIABLES
    peers,   \* SocketSctp::peers : assoc_id -> peeled-off fd
    open,    \* descriptors open in the process
    kassoc,  \* kernel associations : id -> [remote, st, fd it is delivered on]
    q,       \* per descriptor, the messages sctp_recvmsg returns in order
    phase,   \* network thread: "idle" or "join"
    hpc,     \* handler threads of the current cycle : fd -> position
    hmsg,    \* the message each handler of the cycle read
    reests,  \* bag of remotes with a scheduled reestablishment
    owed     \* remotes whose association the kernel dropped, not yet retried

vars == <<peers, open, kassoc, q, phase, hpc, hmsg, reests, owed>>

TypeOK ==
    /\ peers \in [DOMAIN peers -> Fds \ {ListenFd}] /\ DOMAIN peers \subseteq Assocs
    /\ ListenFd \in open /\ open \subseteq Fds
    /\ DOMAIN kassoc \subseteq Assocs
    /\ \A a \in DOMAIN kassoc :
          kassoc[a] \in [remote : Remotes, st : {"connecting", "up", "gone"}, fd : Fds]
    /\ q \in [Fds -> Seq(Msg)]
    /\ phase \in {"idle", "join"}
    /\ DOMAIN hpc \subseteq Fds /\ \A fd \in DOMAIN hpc : hpc[fd] \in {"start", "handle", "done"}
    /\ DOMAIN hmsg \subseteq DOMAIN hpc /\ \A fd \in DOMAIN hmsg : hmsg[fd] \in Msg
    /\ DOMAIN reests \subseteq Remotes
    /\ owed \subseteq Remotes

-----------------------------------------------------------------------------

\* Mutant: the next descriptor after the highest one in use.
NewFdAfterHighest == Max(open) + 1

\* socket() / sctp_peeloff(): the lowest free descriptor.
NewFd == Min(Fds \ open)

\* An association the model still has to remember: it is live, the
\* process keeps a peer for it, or one of its messages is queued.  Other
\* ids are forgotten at the end of a cycle and may be handed out again.
Retained(a) ==
    \/ kassoc[a].st # "gone"
    \/ a \in DOMAIN peers
    \/ \E fd \in Fds : \E i \in 1 .. Len(q[fd]) : q[fd][i].assoc = a

\* Association ids the kernel may hand out.
FreeAssocs == Assocs \ DOMAIN kassoc

\* An association that is connecting or up with r.
Live(r) == \E a \in DOMAIN kassoc : kassoc[a].remote = r /\ kassoc[a].st # "gone"

\* The kernel queues a message on the descriptor association a lives on.
Deliver(a, ev) ==
    q' = [q EXCEPT ![kassoc[a].fd] = Append(@, [assoc |-> a, ev |-> ev])]

\* Socket::connect(fd, remote) on the listening descriptor: the kernel
\* starts an association with r (sctp_connect on a one-to-many socket).
StartAssoc(r) ==
    \E a \in FreeAssocs :
        kassoc' = [x \in DOMAIN kassoc \cup {a} |->
                     IF x = a THEN [remote |-> r, st |-> "connecting", fd |-> ListenFd]
                              ELSE kassoc[x]]

\* SocketSctp::connect(config.remotes) in establishSocket.
InitAssocs ==
    LET order == CHOOSE f \in [ConfigRemotes -> Assocs] : IsInjective(f)
    IN  [a \in Range(order) |->
            [remote |-> CHOOSE r \in ConfigRemotes : order[r] = a,
             st |-> "connecting", fd |-> ListenFd]]

Init ==
    /\ peers = <<>>
    /\ open = {ListenFd}
    /\ kassoc = InitAssocs
    /\ q = [fd \in Fds |-> <<>>]
    /\ phase = "idle"
    /\ hpc = <<>>
    /\ hmsg = <<>>
    /\ reests = <<>>
    /\ owed = {}

-----------------------------------------------------------------------------
(* Network thread: Socket::receive with SocketSctp::selectFds.             *)

\* selectFds holds peers_mtx across FD_SET of the listening fd and every
\* peer's fd and the select call; one handleMessage task per ready fd.
Select ==
    /\ phase = "idle"
    /\ LET ready == {fd \in {ListenFd} \cup Range(peers) : q[fd] # <<>>}
       IN  /\ ready # {}
           /\ hpc' = [fd \in ready |-> "start"]
           /\ hmsg' = <<>>
    /\ phase' = "join"
    /\ UNCHANGED <<peers, open, kassoc, q, reests, owed>>

\* join(tasks).  Ids no live association, peer or message refers to any
\* more are forgotten here, as the kernel freed them.
Join ==
    /\ phase = "join"
    /\ \A fd \in DOMAIN hpc : hpc[fd] = "done"
    /\ phase' = "idle"
    /\ hpc' = <<>>
    /\ hmsg' = <<>>
    /\ kassoc' = Restrict(kassoc, {a \in DOMAIN kassoc : Retained(a)})
    /\ UNCHANGED <<peers, open, q, reests, owed>>

-----------------------------------------------------------------------------
(* Handler threads: SocketSctp::handleMessage(fd) and handle().            *)

At(fd, pc) == fd \in DOMAIN hpc /\ hpc[fd] = pc
Done(fd) == hpc' = [hpc EXCEPT ![fd] = "done"]

\* getBuffer (peers_mtx, find_if over peers for a peeled-off fd), then
\* sctp_recvmsg takes the next message queued on fd.
ReceiveMessage(fd) ==
    /\ At(fd, "start")
    /\ hmsg' = hmsg @@ (fd :> Head(q[fd]))
    /\ q' = [q EXCEPT ![fd] = Tail(@)]
    /\ hpc' = [hpc EXCEPT ![fd] = "handle"]
    /\ UNCHANGED <<peers, open, kassoc, phase, reests, owed>>

\* Without MSG_NOTIFICATION the message is only logged.
HandleData(fd) ==
    /\ At(fd, "handle")
    /\ hmsg[fd].ev = "data"
    /\ Done(fd)
    /\ UNCHANGED <<peers, open, kassoc, q, phase, hmsg, reests, owed>>

\* Mutant: sctp_peeloff of an association the kernel has freed is taken
\* to succeed (the peeled-off descriptor is not checked).
PeelOffNoStateCheck(fd) ==
    /\ At(fd, "handle")
    /\ hmsg[fd].ev = "up"
    /\ LET a == hmsg[fd].assoc
           nfd == NewFd
       IN  IF kassoc[a].fd = ListenFd
              THEN /\ kassoc' = [kassoc EXCEPT ![a].fd = nfd]
                   /\ q' = [q EXCEPT ![ListenFd] = SelectSeq(@, LAMBDA m : m.assoc # a),
                                     ![nfd] = SelectSeq(q[ListenFd], LAMBDA m : m.assoc = a)]
                   /\ IF a \in DOMAIN peers
                         THEN UNCHANGED <<peers, open>>
                         ELSE /\ peers' = peers @@ (a :> nfd)
                              /\ open' = open \cup {nfd}
              ELSE UNCHANGED <<peers, open, kassoc, q>>
    /\ Done(fd)
    /\ UNCHANGED <<phase, hmsg, reests, owed>>

\* COMM_UP -> handleCommUp -> peelOff: under peers_mtx, sctp_peeloff moves
\* the association and its queued messages to a new descriptor, and the
\* peer is emplaced (a duplicate assoc_id leaves the map alone and the new
\* FileDescriptor closes).  A freed association makes sctp_peeloff fail:
\* checkedPeeloff throws and the handler ends.
PeelOff(fd) ==
    /\ At(fd, "handle")
    /\ hmsg[fd].ev = "up"
    /\ LET a == hmsg[fd].assoc
           nfd == NewFd
       IN  IF kassoc[a].st # "gone" /\ kassoc[a].fd = ListenFd
              THEN /\ kassoc' = [kassoc EXCEPT ![a].fd = nfd]
                   /\ q' = [q EXCEPT ![ListenFd] = SelectSeq(@, LAMBDA m : m.assoc # a),
                                     ![nfd] = SelectSeq(q[ListenFd], LAMBDA m : m.assoc = a)]
                   /\ IF a \in DOMAIN peers
                         THEN UNCHANGED <<peers, open>>
                         ELSE /\ peers' = peers @@ (a :> nfd)
                              /\ open' = open \cup {nfd}
              ELSE UNCHANGED <<peers, open, kassoc, q>>
    /\ Done(fd)
    /\ UNCHANGED <<phase, hmsg, reests, owed>>

\* CANT_STR_ASSOC -> handleEstablishmentFailure(from) ->
\* scheduleReestablishment(from).
HandleEstablishmentFailure(fd) ==
    /\ At(fd, "handle")
    /\ hmsg[fd].ev = "cant"
    /\ reests' = BagAdd(reests, kassoc[hmsg[fd].assoc].remote)
    /\ Done(fd)
    /\ UNCHANGED <<peers, open, kassoc, q, phase, hmsg, owed>>

\* Mutant: the Peer is erased but its descriptor is never closed.
EraseKeepFd(a) ==
    /\ peers' = Restrict(peers, DOMAIN peers \ {a})
    /\ UNCHANGED open

\* remove: under peers_mtx, peers.erase(assoc_id); the Peer's
\* FileDescriptor closes the peeled-off descriptor.
Erase(a) ==
    /\ peers' = Restrict(peers, DOMAIN peers \ {a})
    /\ open' = IF a \in DOMAIN peers THEN open \ {peers[a]} ELSE open

\* SHUTDOWN_COMP -> handleGracefulShutdown -> remove.
HandleGracefulShutdown(fd) ==
    /\ At(fd, "handle")
    /\ hmsg[fd].ev = "shut"
    /\ Erase(hmsg[fd].assoc)
    /\ Done(fd)
    /\ UNCHANGED <<kassoc, q, phase, hmsg, reests, owed>>

\* Mutant: handleCommLost only removes the peer.
HandleCommLostNoReest(fd) ==
    /\ At(fd, "handle")
    /\ hmsg[fd].ev = "lost"
    /\ Erase(hmsg[fd].assoc)
    /\ Done(fd)
    /\ UNCHANGED <<kassoc, q, phase, hmsg, reests, owed>>

\* COMM_LOST -> handleCommLost: remove, then scheduleReestablishment(from).
HandleCommLost(fd) ==
    /\ At(fd, "handle")
    /\ hmsg[fd].ev = "lost"
    /\ Erase(hmsg[fd].assoc)
    /\ reests' = BagAdd(reests, kassoc[hmsg[fd].assoc].remote)
    /\ Done(fd)
    /\ UNCHANGED <<kassoc, q, phase, hmsg, owed>>

Handler(fd) ==
    \/ ReceiveMessage(fd) \/ HandleData(fd) \/ PeelOff(fd)
    \/ HandleEstablishmentFailure(fd) \/ HandleGracefulShutdown(fd)
    \/ HandleCommLost(fd)

-----------------------------------------------------------------------------
(* Scheduler thread: the scheduleReestablishment callback.                 *)

\* Mutant: the scheduler keeps the task after running it.
ReestablishKeepTask(r) ==
    /\ r \in DOMAIN reests
    /\ IF Live(r) THEN UNCHANGED kassoc ELSE StartAssoc(r)
    /\ owed' = owed \ {r}
    /\ UNCHANGED <<peers, open, q, phase, hpc, hmsg, reests>>

\* connect({remote}): Socket::connect on the listening descriptor.  With
\* an association to r already there (a client that came back by itself)
\* sctp_connect fails with EISCONN or EALREADY, checkConnect throws in
\* the scheduler thread and the task is gone.
Reestablish(r) ==
    /\ r \in DOMAIN reests
    /\ IF Live(r) THEN UNCHANGED kassoc ELSE StartAssoc(r)
    /\ reests' = BagRemove(reests, r)
    /\ owed' = owed \ {r}
    /\ UNCHANGED <<peers, open, q, phase, hpc, hmsg>>

-----------------------------------------------------------------------------
(* Kernel and remote ends.  The remote may accept, refuse, talk, shut     *)
(* down or vanish at any time; none of this is fair.  Associations fail  *)
(* only while fewer than MaxReests reestablishments are scheduled: a      *)
(* client that keeps coming back and failing would pile them up without  *)
(* bound.                                                                  *)

KEstablish(a) ==
    /\ kassoc[a].st = "connecting"
    /\ kassoc' = [kassoc EXCEPT ![a].st = "up"]
    /\ Deliver(a, "up")
    /\ UNCHANGED <<peers, open, phase, hpc, hmsg, reests, owed>>

\* INIT retransmissions exhausted (configureInitParams: 5 attempts).
KFail(a) ==
    /\ BagCardinality(reests) < MaxReests
    /\ kassoc[a].st = "connecting"
    /\ kassoc' = [kassoc EXCEPT ![a].st = "gone"]
    /\ Deliver(a, "cant")
    /\ owed' = owed \cup {kassoc[a].remote}
    /\ UNCHANGED <<peers, open, phase, hpc, hmsg, reests>>

\* A client opens an association to the listening socket.
KAccept(c) ==
    /\ ~Live(c)
    /\ \E a \in FreeAssocs :
          /\ kassoc' = [x \in DOMAIN kassoc \cup {a} |->
                          IF x = a THEN [remote |-> c, st |-> "up", fd |-> ListenFd]
                                   ELSE kassoc[x]]
          /\ q' = [q EXCEPT ![ListenFd] = Append(@, [assoc |-> a, ev |-> "up"])]
    /\ UNCHANGED <<peers, open, phase, hpc, hmsg, reests, owed>>

KData(a) ==
    /\ kassoc[a].st = "up"
    /\ Len(SelectSeq(q[kassoc[a].fd], LAMBDA m : m.ev = "data")) < DataCap
    /\ Deliver(a, "data")
    /\ UNCHANGED <<peers, open, kassoc, phase, hpc, hmsg, reests, owed>>

KShutdown(a) ==
    /\ kassoc[a].st = "up"
    /\ kassoc' = [kassoc EXCEPT ![a].st = "gone"]
    /\ Deliver(a, "shut")
    /\ UNCHANGED <<peers, open, phase, hpc, hmsg, reests, owed>>

\* Retransmissions or heartbeats exhausted (configureMaxRetrans: 5).
KLost(a) ==
    /\ BagCardinality(reests) < MaxReests
    /\ kassoc[a].st = "up"
    /\ kassoc' = [kassoc EXCEPT ![a].st = "gone"]
    /\ Deliver(a, "lost")
    /\ owed' = owed \cup {kassoc[a].remote}
    /\ UNCHANGED <<peers, open, phase, hpc, hmsg, reests>>

-----------------------------------------------------------------------------

Next ==
    \/ Select \/ Join
    \/ \E fd \in DOMAIN hpc : Handler(fd)
    \/ \E r \in DOMAIN reests : Reestablish(r)
    \/ \E a \in DOMAIN kassoc : KEstablish(a) \/ KFail(a) \/ KData(a)
                                \/ KShutdown(a) \/ KLost(a)
    \/ \E c \in Clients : KAccept(c)

\* The network loop never stops, every handler task runs to its end, and
\* the scheduler runs every due task.  The kernel and the remotes get none.
Fairness ==
    /\ WF_vars(Select) /\ WF_vars(Join)
    /\ \A fd \in Fds : WF_vars(fd \in DOMAIN hpc /\ Handler(fd))
    /\ \A r \in Remotes : WF_vars(Reestablish(r))

Spec == Init /\ [][Next]_vars /\ Fairness

-----------------------------------------------------------------------------
(* Properties.                                                             *)

\* Spec section 8, peer-map consistency: no two peers share a descriptor,
\* every peer's descriptor is open and is the one the kernel delivers its
\* association on, no peeled-off descriptor is open without a peer (none
\* leaks), and a handler started on a peeled-off descriptor finds its peer
\* (getBuffer's find_if never runs off the end).  Checks peelOff's
\* sctp_peeloff + emplace and remove's erase against the kernel's
\* migration of queued events and the reuse of descriptor numbers.
PeerMapConsistent ==
    /\ IsInjective(peers)
    /\ \A a \in DOMAIN peers : /\ peers[a] \in open
                               /\ a \in DOMAIN kassoc
                               /\ kassoc[a].fd = peers[a]
    /\ open \ {ListenFd} \subseteq Range(peers)
    /\ \A fd \in DOMAIN hpc : At(fd, "start") /\ fd # ListenFd => fd \in Range(peers)

\* Messages about an association of r that report its end and are not
\* handled yet: queued, or read by a handler that has not acted on them.
PendingEnds(r) ==
    LET isEnd(m) == m.ev \in {"cant", "lost"} /\ kassoc[m.assoc].remote = r
    IN  Cardinality(UNION {{<<fd, i>> : i \in {j \in 1 .. Len(q[fd]) : isEnd(q[fd][j])}} :
                               fd \in Fds})
        + Cardinality({fd \in DOMAIN hmsg : hpc[fd] = "handle" /\ isEnd(hmsg[fd])})

\* Spec section 8, SCTP notification routing: a COMM_LOST or
\* CANT_STR_ASSOC schedules exactly one reestablishment.  So for a
\* configured remote there is never more than one attempt in flight: a
\* live association, an unhandled end-of-association message, or a
\* scheduled reestablishment.  Checks handleCommLost, the failed peel-off
\* of a freed association, and the scheduler's connect.
OneAttemptPerRemote ==
    \A r \in ConfigRemotes :
        Cardinality({a \in DOMAIN kassoc : kassoc[a].remote = r /\ kassoc[a].st # "gone"})
        + CopiesIn(r, reests) + PendingEnds(r) <= 1

\* The refinement mapping: the kernel's associations without the
\* descriptor they are delivered on, and the ids with a peer entry.
Lifecycle == INSTANCE AssocLifecycle WITH
    assoc <- [a \in DOMAIN kassoc |-> [remote |-> kassoc[a].remote, st |-> kassoc[a].st]],
    entry <- DOMAIN peers

\* Spec section 4.4 state machine: SocketSctp implements AssocLifecycle.
\* A peer entry appears only for an established association and only by
\* peel-off, disappears only after the association ended (SHUTDOWN_COMP or
\* COMM_LOST), and a retry only starts an association for a remote that has
\* none; under fair network, handler and scheduler threads every peer
\* whose association ended is removed and every remote owed a retry for a
\* lost or failed association (COMM_LOST, CANT_STR_ASSOC) gets one.
ImplementsLifecycle == Lifecycle!Spec

=============================================================================

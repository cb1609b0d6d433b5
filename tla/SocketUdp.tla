----------------------------- MODULE SocketUdp -----------------------------
(***************************************************************************)
(* The datagram transport SocketUdp (src/src/SocketUdp.cpp) together with  *)
(* the part of the TaskScheduler it drives.                                *)
(*                                                                         *)
(* Two threads touch SocketUdp::peers: the network thread, which runs      *)
(* handleMessage for the one UDP descriptor once per receive cycle, and   *)
(* the scheduler thread, which runs the ping, comm-lost and               *)
(* reestablishment callbacks.  The map has no lock, so each std::map      *)
(* operation (count, operator[], emplace, erase) is one atomic step and   *)
(* the threads interleave between them.                                    *)
(*                                                                         *)
(* Time is counted in keep-alive periods (keep_alive_period = 1s).  A     *)
(* period passes (Tick) only when both threads are idle, no datagram is   *)
(* queued and no task is due: the receive loop polls every 100ms and the  *)
(* scheduler fires tasks on time, both far below one period.              *)
(*                                                                         *)
(* Scheduled tasks are kept in two places.  A task a peer's weak handle   *)
(* (ping_task, comm_lost_task) points to is stored in that handle; every  *)
(* other task the scheduler holds (reestablishments, and timers no peer   *)
(* points to any more) is an element of the bag "detached".  A handle     *)
(* whose task fired for the last time or was disabled is NoTask: that is  *)
(* weak_ptr::lock() failing.                                               *)
(*                                                                         *)
(* The TaskScheduler is not part of src/: its schedule / reset / disable  *)
(* semantics follow the spec (sections 5, 6 and 9).                        *)
(***************************************************************************)
EXTENDS Naturals, Sequences, FiniteSets, Bags, BagsExt, Functions, FiniteSetsExt, TLC

CONSTANTS
    Senders,        \* native addresses datagrams come from
    ConfigRemotes,  \* config.remotes (IPSocket literals), connected by establishSocket
    SentKinds,      \* the kinds of datagram remotes send in a run
    Probes,         \* keep_alive_probes
    ReestDelay,     \* scheduleReestablishment delay (5s) in periods
    InboxCap,       \* datagrams the socket receive queue holds at once
    NoTask,         \* an empty or expired weak task handle
    Texts, PtonFamily, TextLen, Canonical  \* of IPSocket

IP == INSTANCE IPSocket

\* The keys SocketUdp::peers can hold: the configured literals, and what
\* handleMessage makes of a datagram's source address.
Remotes == ConfigRemotes \cup {IP!FromStorage(n) : n \in Senders}

\* quit_msg, keep_alive_msg, keep_alive_ack_msg, any other chat text.  ka,
\* kack and app differ only in the reply handleMessage sends to a ka.
Kinds == {"quit", "ka", "kack", "app"}

ASSUME /\ SentKinds \subseteq Kinds
       /\ Probes \in Nat \ {0}
       /\ ReestDelay \in Nat \ {0}
       /\ InboxCap \in Nat \ {0}

\* scheduleCommLost: keep_alive_period * (keep_alive_probes + 1)
LossDelay == Probes + 1

VARIABLES
    peers,     \* SocketUdp::peers : remote -> [ping, lost] task handles
    detached,  \* bag of scheduled tasks no peer handle points to
    inbox,     \* datagrams queued on the UDP descriptor
    npc,       \* network thread: where handleMessage is
    nremote,   \* network thread: the datagram's source
    tpc,       \* scheduler thread: where the running callback is
    tremote,   \* scheduler thread: the callback's remote
    silence    \* periods since the code last armed r's liveness window

vars == <<peers, detached, inbox, npc, nremote, tpc, tremote, silence>>

PingSt == [due : 0 .. 1, left : 1 .. Probes]
LostSt == [due : 0 .. LossDelay]
TaskRec == [kind : {"ping", "lost", "reest"}, remote : Remotes,
            due : 0 .. ReestDelay, left : 1 .. Probes]

TypeOK ==
    /\ DOMAIN peers \subseteq Remotes
    /\ \A r \in DOMAIN peers :
          peers[r] \in [ping : PingSt \cup {NoTask}, lost : LostSt \cup {NoTask}]
    /\ DOMAIN detached \subseteq TaskRec
    /\ \A t \in DOMAIN detached : detached[t] \in Nat \ {0}
    /\ inbox \in Seq([from : Senders, kind : Kinds])
    /\ npc \in {"idle", "reset", "commup", "disable", "erase"}
    /\ nremote \in Remotes
    /\ tpc \in {"idle", "disable", "erase"}
    /\ tremote \in Remotes
    /\ silence \in [Remotes -> 0 .. LossDelay + 1]

-----------------------------------------------------------------------------
(* TaskScheduler (spec_modelled).                                          *)

\* A default-constructed Peer: both weak_ptrs empty.
NoPeer == [ping |-> NoTask, lost |-> NoTask]

\* weak_ptr::lock() succeeds
Alive(h) == h # NoTask

\* schedulePing: keep_alive_msg every period, keep_alive_probes times; a
\* reset re-arms the whole schedule.
PingArmed == [due |-> 1, left |-> Probes]
\* Mutant: the comm-lost delay counts one probe too many.
LostArmedLate == [due |-> LossDelay + 1]

\* scheduleCommLost: once, LossDelay periods from now; reset re-arms it.
LostArmed == [due |-> LossDelay]

\* A task with its callback's remote, as the scheduler holds it.
Detach(k, r, st) ==
    [kind |-> k, remote |-> r, due |-> st.due,
     left |-> IF k = "ping" THEN st.left ELSE 1]

\* scheduleReestablishment: connect({remote}) after 5s.
ReestTask(r) == [kind |-> "reest", remote |-> r, due |-> ReestDelay, left |-> 1]

\* Tasks of a peer's handles that are still scheduled.
LiveTasks(r, p) ==
    {Detach(k, r, p[k]) : k \in {f \in {"ping", "lost"} : Alive(p[f])}}

-----------------------------------------------------------------------------
(* SocketUdp operations shared by both threads.  bag is the detached bag   *)
(* the operation starts from (the caller may already have changed it).    *)

\* handleCommUp: schedulePing and scheduleCommLost are the arguments of
\* peers.emplace and run before it; emplace leaves an existing entry alone,
\* and then the two fresh tasks belong to nobody but the scheduler.
HandleCommUp(r, bag) ==
    IF r \in DOMAIN peers
       THEN /\ detached' = BagAdd(BagAdd(bag, Detach("ping", r, PingArmed)),
                                  Detach("lost", r, LostArmed))
            /\ UNCHANGED <<peers, silence>>
       ELSE /\ peers' = peers @@ (r :> [ping |-> PingArmed, lost |-> LostArmed])
            /\ detached' = bag
            /\ silence' = [silence EXCEPT ![r] = 0]

\* disableTasks: peers[remote] (a default Peer is inserted when r is not
\* known), then disable both tasks that are still alive.
DisableTasks(r) ==
    /\ peers' = [x \in DOMAIN peers \cup {r} |-> IF x = r THEN NoPeer ELSE peers[x]]
    /\ UNCHANGED detached

\* remove: peers.erase(remote).  Tasks the erased handles still point to
\* stay scheduled.
Erase(r) ==
    /\ peers' = Restrict(peers, DOMAIN peers \ {r})
    /\ detached' = IF r \in DOMAIN peers
                      THEN detached (+) SetToBag(LiveTasks(r, peers[r]))
                      ELSE detached
    /\ silence' = [silence EXCEPT ![r] = 0]

\* resetTasks: peers[remote] (a default Peer is inserted when r was erased
\* since handleMessage counted it), reset the ping task or schedule a new
\* one, and reset the comm-lost task only if it is still alive.
ResetTasks(r) ==
    LET p == IF r \in DOMAIN peers THEN peers[r] ELSE NoPeer
    IN  /\ peers' = [x \in DOMAIN peers \cup {r} |->
                        IF x = r
                           THEN [ping |-> PingArmed,
                                 lost |-> IF Alive(p.lost) THEN LostArmed ELSE NoTask]
                           ELSE peers[x]]
        /\ silence' = [silence EXCEPT ![r] = 0]
        /\ UNCHANGED detached

-----------------------------------------------------------------------------
(* Initial state: after establishSocket, i.e. connect(config.remotes).    *)

Init ==
    /\ peers = [r \in ConfigRemotes |-> [ping |-> PingArmed, lost |-> LostArmed]]
    /\ detached = <<>>
    /\ inbox = <<>>
    /\ npc = "idle"
    /\ nremote = CHOOSE r \in Remotes : TRUE
    /\ tpc = "idle"
    /\ tremote = CHOOSE r \in Remotes : TRUE
    /\ silence = [r \in Remotes |-> 0]

-----------------------------------------------------------------------------
(* Network thread: SocketUdp::handleMessage.                               *)

\* recvfrom and the RemoteIPSocket made from its source address, then:
\* quit_msg -> handleGracefulShutdown -> remove;
\* keep_alive_msg -> send keep_alive_ack_msg (no state); then
\* peers.count(remote) chooses resetTasks or handleCommUp.
Receive ==
    /\ npc = "idle"
    /\ inbox # <<>>
    /\ LET d == Head(inbox)
           r == IP!FromStorage(d.from)
       IN  /\ nremote' = r
           /\ npc' = IF d.kind = "quit" THEN "disable"
                     ELSE IF r \in DOMAIN peers THEN "reset"
                     ELSE "commup"
    /\ inbox' = Tail(inbox)
    /\ UNCHANGED <<peers, detached, tpc, tremote, silence>>

NetResetTasks ==
    /\ npc = "reset"
    /\ ResetTasks(nremote)
    /\ npc' = "idle"
    /\ UNCHANGED <<inbox, nremote, tpc, tremote>>

NetCommUp ==
    /\ npc = "commup"
    /\ HandleCommUp(nremote, detached)
    /\ npc' = "idle"
    /\ UNCHANGED <<inbox, nremote, tpc, tremote>>

NetDisable ==
    /\ npc = "disable"
    /\ DisableTasks(nremote)
    /\ npc' = "erase"
    /\ UNCHANGED <<inbox, nremote, tpc, tremote, silence>>

NetErase ==
    /\ npc = "erase"
    /\ Erase(nremote)
    /\ npc' = "idle"
    /\ UNCHANGED <<inbox, nremote, tpc, tremote>>

-----------------------------------------------------------------------------
(* Scheduler thread: the callbacks SocketUdp schedules.                    *)

\* The ping callback of peer r's own ping task sends keep_alive_msg.
FirePeerPing(r) ==
    /\ tpc = "idle"
    /\ r \in DOMAIN peers
    /\ Alive(peers[r].ping)
    /\ peers[r].ping.due = 0
    /\ LET st == peers[r].ping
       IN  peers' = [peers EXCEPT ![r].ping =
                        IF st.left = 1 THEN NoTask ELSE [due |-> 1, left |-> st.left - 1]]
    /\ UNCHANGED <<detached, inbox, npc, nremote, tpc, tremote, silence>>

\* Mutant: handleCommLost does not schedule the reestablishment.
FirePeerLostNoReest(r) ==
    /\ tpc = "idle"
    /\ r \in DOMAIN peers
    /\ Alive(peers[r].lost)
    /\ peers[r].lost.due = 0
    /\ peers' = [peers EXCEPT ![r].lost = NoTask]
    /\ tpc' = "disable"
    /\ tremote' = r
    /\ UNCHANGED <<detached, inbox, npc, nremote, silence>>

\* The comm-lost callback of peer r's own task: handleCommLost =
\* scheduleReestablishment, then remove (disableTasks, erase) next.
FirePeerLost(r) ==
    /\ tpc = "idle"
    /\ r \in DOMAIN peers
    /\ Alive(peers[r].lost)
    /\ peers[r].lost.due = 0
    /\ peers' = [peers EXCEPT ![r].lost = NoTask]
    /\ detached' = BagAdd(detached, ReestTask(r))
    /\ tpc' = "disable"
    /\ tremote' = r
    /\ UNCHANGED <<inbox, npc, nremote, silence>>

\* A detached task fires: a reestablishment (connect({remote}) ->
\* handleCommUp), or a ping or comm-lost timer no peer points to.
FireDetached(t) ==
    /\ tpc = "idle"
    /\ t.due = 0
    /\ LET rest == BagRemove(detached, t)
       IN  CASE t.kind = "reest" ->
                  /\ HandleCommUp(t.remote, rest)
                  /\ UNCHANGED <<tpc, tremote>>
             [] t.kind = "ping" ->
                  /\ detached' = IF t.left = 1 THEN rest
                                 ELSE BagAdd(rest, [t EXCEPT !.due = 1, !.left = @ - 1])
                  /\ UNCHANGED <<peers, silence, tpc, tremote>>
             [] t.kind = "lost" ->
                  /\ detached' = BagAdd(rest, ReestTask(t.remote))
                  /\ tpc' = "disable"
                  /\ tremote' = t.remote
                  /\ UNCHANGED <<peers, silence>>
    /\ UNCHANGED <<inbox, npc, nremote>>

TimerDisable ==
    /\ tpc = "disable"
    /\ DisableTasks(tremote)
    /\ tpc' = "erase"
    /\ UNCHANGED <<inbox, npc, nremote, tremote, silence>>

TimerErase ==
    /\ tpc = "erase"
    /\ Erase(tremote)
    /\ tpc' = "idle"
    /\ UNCHANGED <<inbox, npc, nremote, tremote>>

-----------------------------------------------------------------------------
(* Environment and time.                                                   *)

\* A remote sends a datagram.  UDP may lose, reorder or duplicate, so any
\* remote may send any kind at any time.
RemoteSend(n, k) ==
    /\ Len(inbox) < InboxCap
    /\ inbox' = Append(inbox, [from |-> n, kind |-> k])
    /\ UNCHANGED <<peers, detached, npc, nremote, tpc, tremote, silence>>

\* The due time of a task state one period later.
Older(st) == IF st = NoTask THEN NoTask ELSE [st EXCEPT !.due = @ - 1]

\* One keep-alive period passes.
Tick ==
    /\ npc = "idle" /\ tpc = "idle" /\ inbox = <<>>
    /\ \A r \in DOMAIN peers : \A k \in {"ping", "lost"} :
          Alive(peers[r][k]) => peers[r][k].due > 0
    /\ \A t \in DOMAIN detached : t.due > 0
    /\ peers' = [r \in DOMAIN peers |->
                   [ping |-> Older(peers[r].ping), lost |-> Older(peers[r].lost)]]
    /\ detached' = [t \in {Older(u) : u \in DOMAIN detached} |->
                      detached[[t EXCEPT !.due = @ + 1]]]
    /\ silence' = [r \in Remotes |->
                     IF r \in DOMAIN peers THEN Min({silence[r] + 1, LossDelay + 1})
                                           ELSE silence[r]]
    /\ UNCHANGED <<inbox, npc, nremote, tpc, tremote>>

Next ==
    \/ Receive \/ NetResetTasks \/ NetCommUp \/ NetDisable \/ NetErase
    \/ \E r \in DOMAIN peers : FirePeerPing(r) \/ FirePeerLost(r)
    \/ \E t \in DOMAIN detached : FireDetached(t)
    \/ TimerDisable \/ TimerErase
    \/ \E n \in Senders, k \in SentKinds : RemoteSend(n, k)
    \/ Tick

Spec == Init /\ [][Next]_vars

-----------------------------------------------------------------------------
(* Properties.                                                             *)

\* r is being removed by one of the two threads (disableTasks or erase is
\* its next step).
Removing(r) ==
    \/ npc \in {"disable", "erase"} /\ nremote = r
    \/ tpc \in {"disable", "erase"} /\ tremote = r

\* Every known peer can still be declared lost: outside its removal it
\* holds a live comm-lost timer, or a comm-lost or reestablishment task for
\* it is still scheduled.  resetTasks re-inserting a peer the scheduler
\* erased after handleMessage counted it leaves it without a comm-lost
\* timer (SocketUdp.cpp:115); only the reestablishment handleCommLost
\* scheduled before the erase (:91) brings one back, through handleCommUp
\* on the known peer (:79).
KnownPeerCanBeLost ==
    \A r \in DOMAIN peers :
        ~Removing(r) =>
            \/ Alive(peers[r].lost)
            \/ \E t \in DOMAIN detached : t.remote = r /\ t.kind \in {"lost", "reest"}

\* Spec section 8, "Datagram liveness reset": a peer whose traffic keeps
\* resetting its timers is never declared lost.  Every comm-lost callback
\* that fires against a known peer does so only after LossDelay silent
\* periods.  Checks handleCommUp from a reestablishment that finds the peer
\* already back (its two new timers are left to fire on their own).
LiveTrafficNeverLost ==
    [][\A r \in Remotes :
         (tpc = "idle" /\ tpc' = "disable" /\ tremote' = r /\ r \in DOMAIN peers)
            => silence[r] >= LossDelay]_vars

\* Spec section 8: silence for (repetitions+1) periods declares the peer
\* lost, so no known peer stays silent for longer.  Checks resetTasks
\* running after the scheduler thread erased the peer it counted.
SilentPeerDeclaredLost ==
    \A r \in DOMAIN peers : silence[r] <= LossDelay

\* Spec section 3: a datagram peer is keyed by its AddressRecord, and two
\* records are equal by (address, port, family), whether built from a
\* literal or decoded from a native address.  So SocketUdp::peers holds at
\* most one entry per remote: send() gives each remote a line once, and
\* the datagrams of a configured remote reset the timers connect armed for
\* it.  Checks the RemoteIPSocket handleMessage builds from recvfrom's
\* source against the literal connect(config.remotes) stored.
OnePeerPerAddress ==
    \A k1, k2 \in DOMAIN peers : IP!SameRemote(k1, k2) => k1 = k2

=============================================================================

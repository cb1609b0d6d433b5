-------------------------- MODULE SocketUnixForked --------------------------
(***************************************************************************)
(* The forked transport (src/src/SocketUnixForked.cpp) over several runs  *)
(* of the program.  Its constructor creates named POSIX objects (two      *)
(* message queues, /shm, /sem, the fifo /tmp/named_pipe) and a SysV       *)
(* segment, then forks.  The parent keeps the write ends of the pipe and  *)
(* the fifo, the child the read ends; the socket pair is shared.  Only    *)
(* the parent has the io thread, so only the parent sends chat lines; the *)
(* child's chat slot is a copy taken at fork.                              *)
(*                                                                         *)
(* Named objects and SysV segments outlive the processes: they are the   *)
(* state a later run starts from.  A run ends by the parent's destructor  *)
(* (quit, or an exception out of its loop), or by an interrupt from the   *)
(* terminal that kills parent and child with no destructor.  The child    *)
(* ends when the forking thread ends (PR_SET_PDEATHSIG -> SIGTERM ->      *)
(* parentDied throws): the exception either unwinds through its           *)
(* destructor or, thrown from a signal handler, ends in std::terminate.   *)
(*                                                                         *)
(* Data is abstracted to counts: what each channel holds, not the text.   *)
(***************************************************************************)
EXTENDS Naturals

CONSTANTS
    MaxRuns,     \* program starts
    MaxLines,    \* chat lines the parent sends per run
    MqMax,       \* mq_maxmsg of the queues (default attributes: 10)
    Interrupts   \* whether the terminal may kill the processes (SIGINT)

ASSUME /\ MaxRuns \in Nat \ {0}
       /\ MaxLines \in Nat
       /\ MqMax \in Nat \ {0}
       /\ Interrupts \in BOOLEAN

\* sendOnMessageQueue: one mq_send per index of shuffledIndexes(5).
Prios == 5

\* "/parent", "/child", shm_name, sem_name, pipe_name
Names == {"mq_parent", "mq_child", "shm", "sem", "fifo"}

VARIABLES
    names,    \* named objects that exist in the system
    sysv,     \* SysV segments that exist (shmget IPC_PRIVATE)
    runs,     \* program starts so far
    ppc,      \* the parent's network task: down/loop/failed/ended
    garbage,  \* isChild() in the parent: the uninitialised member parent
    child,    \* the current run's child: none/loop
    orphans,  \* runs whose child outlives its parent, not yet dead
    lines,    \* lines the parent sent this run
    sp,       \* datagrams on the socket pair towards the child
    pp,       \* packets in the pipe (O_DIRECT)
    fifo,     \* writes in the fifo not yet read
    mq,       \* messages in "/child"
    semN,     \* sem_named's value
    semU      \* sem_unnamed's value

chan == <<lines, sp, pp, fifo, mq, semN, semU>>
vars == <<names, sysv, runs, ppc, garbage, child, orphans, chan>>

TypeOK ==
    /\ names \subseteq Names
    /\ sysv \in 0 .. MaxRuns
    /\ runs \in 0 .. MaxRuns
    /\ ppc \in {"down", "loop", "failed", "ended"}
    /\ garbage \in BOOLEAN
    /\ child \in {"none", "loop"}
    /\ orphans \subseteq 1 .. MaxRuns
    /\ lines \in 0 .. MaxLines
    /\ {sp, pp, fifo, semN, semU} \subseteq 0 .. MaxLines
    /\ mq \in 0 .. MqMax

\* The channels of a run just forked hold nothing.
ChannelsEmpty ==
    lines = 0 /\ sp = 0 /\ pp = 0 /\ fifo = 0 /\ mq = 0 /\ semN = 0 /\ semU = 0

\* A system with none of the names, before the first run.
Init ==
    /\ names = {}
    /\ sysv = 0
    /\ runs = 0
    /\ ppc = "down"
    /\ garbage = FALSE
    /\ child = "none"
    /\ orphans = {}
    /\ ChannelsEmpty

-----------------------------------------------------------------------------
(* Constructor.                                                             *)

\* createMessageQueues: mq_unlink both names, then mq_open O_CREAT|O_EXCL.
MessageQueuesCreated(n) == n \cup {"mq_parent", "mq_child"}

\* createPosixSharedMemory: shm_open(shm_name, O_CREAT|O_EXCL) fails when
\* the name exists.
ShmCreatable(n) == "shm" \notin n

\* createNamedSemaphore: sem_open(sem_name, O_CREAT|O_EXCL) likewise.
SemCreatable(n) == "sem" \notin n

\* createNamedPipe: remove(pipe_name), mkfifo, open both ends.  checkRemove
\* is taken to accept a missing file; otherwise no first start could
\* succeed.
NamedPipeCreated(n) == n \cup {"fifo"}

\* fork: the parent keeps the write ends (forkParent), the child the read
\* ends and swaps its queues (forkChild); only the child sets the member
\* parent, so isChild() in the parent reads an uninitialised value.
Fork ==
    /\ ppc' = "loop"
    /\ child' = "loop"
    /\ garbage' \in BOOLEAN

\* The constructor in order: queues, POSIX shm, SysV shm (always new),
\* named semaphore, unnamed semaphore, socket pair, pipe, named pipe, fork.
\* A check that throws ends the network task before fork; the objects
\* created so far keep their names (no destructor for a partly constructed
\* object).  After fork the child's chat slot is a copy, and isChild() in
\* the parent reads the member parent, which nothing initialised.
Start ==
    /\ ppc = "down"
    /\ runs < MaxRuns
    /\ runs' = runs + 1
    /\ LET n1 == MessageQueuesCreated(names)
       IN  \/ /\ ~ShmCreatable(n1)
              /\ names' = n1
              /\ ppc' = "failed"
              /\ UNCHANGED <<sysv, garbage, child>>
           \/ /\ ShmCreatable(n1)
              /\ ~SemCreatable(n1 \cup {"shm"})
              /\ names' = n1 \cup {"shm"}
              /\ sysv' = sysv + 1
              /\ ppc' = "failed"
              /\ UNCHANGED <<garbage, child>>
           \/ /\ ShmCreatable(n1)
              /\ SemCreatable(n1 \cup {"shm"})
              /\ names' = NamedPipeCreated(n1 \cup {"shm", "sem"})
              /\ sysv' = sysv + 1
              /\ Fork
    /\ lines' = 0 /\ sp' = 0 /\ pp' = 0 /\ fifo' = 0 /\ mq' = 0
    /\ semN' = 0 /\ semU' = 0
    /\ UNCHANGED orphans

-----------------------------------------------------------------------------
(* Parent.                                                                  *)

\* cleanUpMessageQueues, cleanUpSemaphores, cleanUpSharedMemory: the
\* queues, /sem and /shm are unlinked; the fifo is not removed and the
\* SysV segment is only detached (shmdt, no IPC_RMID).
CleanedUp(n) == n \ {"mq_parent", "mq_child", "sem", "shm"}

\* ~SocketUnixForked: cleanUpMessageQueues, cleanUpSemaphores,
\* cleanUpSharedMemory (shm_unlink; the SysV segment is only detached),
\* then kill(parent, SIGCHLD) when isChild().  The forking thread then
\* ends, and the child gets SIGTERM.
ParentDestructor ==
    /\ names' = CleanedUp(names)
    /\ ppc' = "ended"
    /\ child' = "none"
    /\ orphans' = IF child = "loop" THEN orphans \cup {runs} ELSE orphans

\* sendOnMessageQueue: mq_send with O_NONBLOCK fails (EAGAIN) when the
\* queue holds mq_maxmsg messages, and checkMqSend throws.
MqAccepts(m) == m + Prios <= MqMax

\* chatOrQuit -> send(msg): socket pair, pipe, fifo, five mq_sends, then
\* the two shared integers and semaphore posts.  A full queue throws out
\* of send after the first three channels and after the queue filled;
\* the exception leaves the loop and the destructor runs.
Send ==
    /\ ppc = "loop"
    /\ lines < MaxLines
    /\ lines' = lines + 1
    /\ sp' = sp + 1
    /\ pp' = pp + 1
    /\ fifo' = fifo + 1
    /\ IF MqAccepts(mq)
       THEN /\ mq' = mq + Prios
            /\ semN' = semN + 1
            /\ semU' = semU + 1
            /\ UNCHANGED <<names, ppc, child, orphans>>
       ELSE /\ mq' = MqMax
            /\ UNCHANGED <<semN, semU>>
            /\ ParentDestructor
    /\ UNCHANGED <<sysv, runs, garbage>>

\* chatOrQuit with quit_msg: the loop ends and the destructor runs.
Quit ==
    /\ ppc = "loop"
    /\ ParentDestructor
    /\ UNCHANGED <<sysv, runs, garbage, chan>>

\* sem_trywait succeeds on a positive value.
TryWait(v) == IF v > 0 THEN v - 1 ELSE v

\* receive() in the parent: Socket::receive (the child never writes the
\* socket pair), readPosixSharedMemory and readSysVSharedMemory, which
\* take the parent's own posts, then, if isChild(), a read of the pipe's
\* write end, which fails (EBADF) and throws out of the loop; otherwise
\* mq_receive on "/parent", which nobody writes.
ParentReceive ==
    /\ ppc = "loop"
    /\ semN' = TryWait(semN)
    /\ semU' = TryWait(semU)
    /\ IF garbage
       THEN ParentDestructor
       ELSE UNCHANGED <<names, ppc, child, orphans>>
    /\ UNCHANGED <<sysv, runs, garbage, lines, sp, pp, fifo, mq>>

\* The process exits: main's join returns once the io task reads quit.
Exit ==
    /\ ppc \in {"failed", "ended"}
    /\ ppc' = "down"
    /\ UNCHANGED <<names, sysv, runs, garbage, child, orphans, chan>>

-----------------------------------------------------------------------------
(* Child.                                                                   *)

\* A read of one datagram, packet or message when there is one; the
\* descriptors are non-blocking, and an empty one returns EAGAIN.
ReadOne(n) == IF n > 0 THEN n - 1 ELSE 0

\* receive() in the child: one datagram from the socket pair (never
\* quit_msg, which the parent does not send), both semaphores, one pipe
\* packet, everything in the fifo (a byte stream), and one mq message.
ChildReceive ==
    /\ child = "loop"
    /\ sp' = ReadOne(sp)
    /\ semN' = TryWait(semN)
    /\ semU' = TryWait(semU)
    /\ pp' = ReadOne(pp)
    /\ fifo' = 0
    /\ mq' = ReadOne(mq)
    /\ UNCHANGED <<names, sysv, runs, ppc, garbage, child, orphans, lines>>

\* SIGTERM after the forking thread ended: parentDied's exception unwinds
\* through ~SocketUnixForked (the same cleanup, then SIGCHLD to a parent
\* that is gone) ...
OrphanUnwinds(r) ==
    /\ r \in orphans
    /\ orphans' = orphans \ {r}
    /\ names' = CleanedUp(names)
    /\ UNCHANGED <<sysv, runs, ppc, garbage, child, chan>>

\* ... or, thrown from the signal handler, reaches std::terminate.
OrphanTerminates(r) ==
    /\ r \in orphans
    /\ orphans' = orphans \ {r}
    /\ UNCHANGED <<names, sysv, runs, ppc, garbage, child, chan>>

-----------------------------------------------------------------------------
(* Environment.                                                             *)

\* SIGINT from the terminal kills the foreground job, parent and child,
\* with no handler and no destructor.
Interrupt ==
    /\ Interrupts
    /\ ppc # "down"
    /\ ppc' = "down"
    /\ child' = "none"
    /\ UNCHANGED <<names, sysv, runs, garbage, orphans, chan>>

Next ==
    \/ Start \/ Send \/ Quit \/ ParentReceive \/ Exit
    \/ ChildReceive
    \/ \E r \in orphans : OrphanUnwinds(r) \/ OrphanTerminates(r)
    \/ Interrupt

Spec == Init /\ [][Next]_vars

-----------------------------------------------------------------------------
(* Properties.                                                             *)

\* A start does not depend on how the previous run ended: the constructor
\* removes what a previous run may have left (createMessageQueues unlinks
\* both queues, createNamedPipe removes the fifo) before creating it.
\* Every start constructs the transport and forks.  Checks the O_EXCL
\* opens of /shm and /sem against names left by a run that was
\* interrupted, or whose child ended in std::terminate.
StartSucceeds == ppc # "failed"

=============================================================================

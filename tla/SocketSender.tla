---------------------------- MODULE SocketSender ----------------------------
(***************************************************************************)
(* What the two Linux senders have in common: LinuxTelemetrySender         *)
(* (linux_ipc.cpp) and LinuxTtyTelemetrySender (ffi.cpp).                  *)
(*                                                                         *)
(* Three kinds of threads touch the atomics running_, connected_ and       *)
(* socket_fd_:                                                             *)
(*   - producers call SendEvent and hold send_mutex_ while they write;     *)
(*   - the connection thread runs ConnectionLoop;                          *)
(*   - the control thread calls Start and Stop (never two at once: the     *)
(*     callers hold g_ffi_mutex).  Stop does not take send_mutex_.         *)
(* A step performs at most one access to an atomic or one system call.     *)
(* Locking is merged with the load that follows it and unlocking with the  *)
(* access before it, which hides no interleaving.                          *)
(*                                                                         *)
(* Descriptors are numbers of one table, reused after close(2), and other  *)
(* threads of the process open and close files in the same table.          *)
(***************************************************************************)
EXTENDS Naturals, Sequences, FiniteSets

CONSTANTS
    Producers,  \* threads that call SendEvent
    Fd,         \* descriptor numbers
    Conn,       \* connections the agent accepts, one per successful connect
    Event,      \* events handed to SendEvent, each once
    NoFd,       \* the descriptor -1
    NoThread,   \* send_mutex_ is free
    NoEvent     \* no event in hand

VARIABLES
    running_, connected_, socket_fd_,   \* the atomics of the object
    send_mutex_,                        \* its owner
    pc, fd, ev,                         \* producers: step, local fd, argument
    unsent,                             \* events no producer has sent yet
    loopPc, loopFd,                     \* connection thread: step, local fd
    ctlPc, ctlFd,                       \* control thread: step, local fd
    files,                              \* descriptor table of the process
    peer,                               \* agent's end of every connection
    stream                              \* what each connection has carried

atomics == <<running_, connected_, socket_fd_>>
producers == <<send_mutex_, pc, fd, ev, unsent>>
loop == <<loopPc, loopFd>>
control == <<ctlPc, ctlFd>>
world == <<files, peer, stream>>

(* A descriptor is closed, an unconnected socket, a file or socket of      *)
(* another part of the process, or one of the sender's connections.        *)
FileKind == {"closed", "socket", "foreign"}

ASSUME SenderAssumption ==
    /\ NoFd \notin Fd
    /\ NoThread \notin Producers
    /\ NoEvent \notin Event
    /\ Conn \cap FileKind = {}
    /\ Event \cap {"token", "partial"} = {}

ProducerStep ==
    {"idle", "lock", "write", "failClear", "failClose", "failReset"}
LoopStep ==
    {"none", "checkRunning", "checkConnected", "socket", "connect", "stat",
     "sendToken", "readReply", "publishFd", "publishConnected", "done"}
ControlStep == {"idle", "clearConnected", "exchange", "close", "join"}

StreamTypeOK == stream \in [Conn -> Seq(Event \cup {"token", "partial"})]

SenderTypeOK ==
    /\ running_ \in BOOLEAN /\ connected_ \in BOOLEAN
    /\ socket_fd_ \in Fd \cup {NoFd}
    /\ send_mutex_ \in Producers \cup {NoThread}
    /\ pc \in [Producers -> ProducerStep]
    /\ fd \in [Producers -> Fd \cup {NoFd}]
    /\ ev \in [Producers -> Event \cup {NoEvent}]
    /\ unsent \subseteq Event
    /\ loopPc \in LoopStep /\ loopFd \in Fd \cup {NoFd}
    /\ ctlPc \in ControlStep /\ ctlFd \in Fd \cup {NoFd}
    /\ files \in [Fd -> FileKind \cup Conn]
    /\ peer \in [Conn -> {"unused", "up", "gone"}]
    /\ StreamTypeOK

SenderInit ==
    /\ running_ = FALSE /\ connected_ = FALSE /\ socket_fd_ = NoFd
    /\ send_mutex_ = NoThread
    /\ pc = [p \in Producers |-> "idle"]
    /\ fd = [p \in Producers |-> NoFd]
    /\ ev = [p \in Producers |-> NoEvent]
    /\ unsent = Event
    /\ loopPc = "none" /\ loopFd = NoFd
    /\ ctlPc = "idle" /\ ctlFd = NoFd
    /\ files \in [Fd -> {"closed", "foreign"}]
    /\ peer = [c \in Conn |-> "unused"]
    /\ stream = [c \in Conn |-> <<>>]

ProducersIdle == \A p \in Producers : pc[p] = "idle"

(* The connection behind descriptor f, when there is one with a live peer. *)
IsUp(f) == files[f] \in Conn /\ peer[files[f]] = "up"

-----------------------------------------------------------------------------
(* Start: returns false while running_, else spawns ConnectionLoop. *)
Start ==
    /\ ctlPc = "idle" /\ ~running_
    /\ running_' = TRUE
    /\ loopPc' = "checkRunning"
    /\ UNCHANGED <<connected_, socket_fd_, producers, loopFd, control, world>>

(* Stop, one access at a time: running_, connected_, exchange, close, join. *)
StopClearRunning ==
    /\ ctlPc = "idle"
    /\ running_' = FALSE
    /\ ctlPc' = "clearConnected"
    /\ UNCHANGED <<connected_, socket_fd_, producers, loop, ctlFd, world>>

StopClearConnected ==
    /\ ctlPc = "clearConnected"
    /\ connected_' = FALSE
    /\ ctlPc' = "exchange"
    /\ UNCHANGED <<running_, socket_fd_, producers, loop, ctlFd, world>>

StopExchange ==
    /\ ctlPc = "exchange"
    /\ ctlFd' = socket_fd_
    /\ socket_fd_' = NoFd
    /\ ctlPc' = IF socket_fd_ = NoFd THEN "join" ELSE "close"
    /\ UNCHANGED <<running_, connected_, producers, loop, world>>

StopClose ==
    /\ ctlPc = "close"
    /\ files' = [files EXCEPT ![ctlFd] = "closed"]
    /\ ctlFd' = NoFd
    /\ ctlPc' = "join"
    /\ UNCHANGED <<atomics, producers, loop, peer, stream>>

StopJoin ==
    /\ ctlPc = "join"
    /\ loopPc \in {"none", "done"}
    /\ loopPc' = "none"
    /\ ctlPc' = "idle"
    /\ UNCHANGED <<atomics, producers, loopFd, ctlFd, world>>

StopRest == StopClearConnected \/ StopExchange \/ StopClose \/ StopJoin
-----------------------------------------------------------------------------
(* SendEvent: connected_ is read before the lock is taken. *)
Return(p) ==
    /\ pc' = [pc EXCEPT ![p] = "idle"]
    /\ fd' = [fd EXCEPT ![p] = NoFd]
    /\ ev' = [ev EXCEPT ![p] = NoEvent]

SendCheck(p) ==
    /\ pc[p] = "idle"
    /\ \E e \in unsent :
          /\ unsent' = unsent \ {e}
          /\ IF connected_
             THEN /\ pc' = [pc EXCEPT ![p] = "lock"]
                  /\ ev' = [ev EXCEPT ![p] = e]
             ELSE UNCHANGED <<pc, ev>>
    /\ UNCHANGED <<atomics, send_mutex_, fd, loop, control, world>>

(* Fault: SendEvent does not take send_mutex_. *)
SendLockNoMutex(p) ==
    /\ pc[p] = "lock"
    /\ IF socket_fd_ = NoFd
       THEN Return(p) /\ UNCHANGED send_mutex_
       ELSE /\ send_mutex_' = p
            /\ fd' = [fd EXCEPT ![p] = socket_fd_]
            /\ pc' = [pc EXCEPT ![p] = "write"]
            /\ UNCHANGED ev
    /\ UNCHANGED <<atomics, unsent, loop, control, world>>

SendLock(p) ==
    /\ pc[p] = "lock" /\ send_mutex_ = NoThread
    /\ IF socket_fd_ = NoFd
       THEN Return(p) /\ UNCHANGED send_mutex_
       ELSE /\ send_mutex_' = p
            /\ fd' = [fd EXCEPT ![p] = socket_fd_]
            /\ pc' = [pc EXCEPT ![p] = "write"]
            /\ UNCHANGED ev
    /\ UNCHANGED <<atomics, unsent, loop, control, world>>

(* write(2) takes the whole event: the connection or a foreign file gets it. *)
WriteWhole(p) ==
    /\ pc[p] = "write"
    /\ IsUp(fd[p]) \/ files[fd[p]] = "foreign"
    /\ stream' = IF IsUp(fd[p])
                 THEN [stream EXCEPT ![files[fd[p]]] = Append(@, ev[p])]
                 ELSE stream
    /\ send_mutex_' = NoThread
    /\ Return(p)
    /\ UNCHANGED <<atomics, unsent, loop, control, files, peer>>

(* Fault: only a negative result of write counts as a failure. *)
WriteShortAccepted(p) ==
    /\ pc[p] = "write" /\ IsUp(fd[p])
    /\ stream' = [stream EXCEPT ![files[fd[p]]] = Append(@, "partial")]
    /\ send_mutex_' = NoThread
    /\ Return(p)
    /\ UNCHANGED <<atomics, unsent, loop, control, files, peer>>

(* Fault: after a short write SendEvent starts over with the same event. *)
WriteRetried(p) ==
    /\ pc[p] = "write"
    /\ \/ IsUp(fd[p]) /\ stream' = [stream EXCEPT ![files[fd[p]]] = Append(@, "partial")]
       \/ UNCHANGED stream
    /\ pc' = [pc EXCEPT ![p] = "lock"] /\ send_mutex_' = NoThread
    /\ UNCHANGED <<atomics, fd, ev, unsent, loop, control, files, peer>>

(* write(2) takes a part of it, or fails: EPIPE, ENOTCONN, EBADF... *)
WriteFails(p) ==
    /\ pc[p] = "write"
    /\ \/ IsUp(fd[p]) /\ stream' = [stream EXCEPT ![files[fd[p]]] = Append(@, "partial")]
       \/ UNCHANGED stream
    /\ pc' = [pc EXCEPT ![p] = "failClear"]
    /\ UNCHANGED <<atomics, send_mutex_, fd, ev, unsent, loop, control, files, peer>>

FailClear(p) ==
    /\ pc[p] = "failClear"
    /\ connected_' = FALSE
    /\ pc' = [pc EXCEPT ![p] = "failClose"]
    /\ UNCHANGED <<running_, socket_fd_, send_mutex_, fd, ev, unsent, loop, control, world>>

(* Fault: SendEvent gives up the descriptor without closing it. *)
FailCloseSkipped(p) ==
    /\ pc[p] = "failClose"
    /\ pc' = [pc EXCEPT ![p] = "failReset"]
    /\ UNCHANGED <<atomics, send_mutex_, fd, ev, unsent, loop, control, world>>

FailClose(p) ==
    /\ pc[p] = "failClose"
    /\ files' = [files EXCEPT ![fd[p]] = "closed"]
    /\ pc' = [pc EXCEPT ![p] = "failReset"]
    /\ UNCHANGED <<atomics, send_mutex_, fd, ev, unsent, loop, control, peer, stream>>

(* Fault: socket_fd_ is reset to 0 instead of -1. *)
FailResetZero(p) ==
    /\ pc[p] = "failReset"
    /\ socket_fd_' = 0
    /\ send_mutex_' = NoThread
    /\ Return(p)
    /\ UNCHANGED <<running_, connected_, unsent, loop, control, world>>

(* Fault: socket_fd_ is not reset. *)
FailKeepsFd(p) ==
    /\ pc[p] = "failReset"
    /\ send_mutex_' = NoThread
    /\ Return(p)
    /\ UNCHANGED <<atomics, unsent, loop, control, world>>

FailReset(p) ==
    /\ pc[p] = "failReset"
    /\ socket_fd_' = NoFd
    /\ send_mutex_' = NoThread
    /\ Return(p)
    /\ UNCHANGED <<running_, connected_, unsent, loop, control, world>>

SendRest(p) == \/ SendLock(p) \/ WriteWhole(p) \/ WriteFails(p)
               \/ FailClear(p) \/ FailClose(p) \/ FailReset(p)
-----------------------------------------------------------------------------
(* Fault: ConnectionLoop does not look at running_. *)
LoopRunsForever ==
    /\ loopPc = "checkRunning"
    /\ loopPc' = "checkConnected"
    /\ UNCHANGED <<atomics, producers, loopFd, control, world>>

(* ConnectionLoop up to the connected socket, and from there to the atomics. *)
LoopRunning ==
    /\ loopPc = "checkRunning"
    /\ loopPc' = IF running_ THEN "checkConnected" ELSE "done"
    /\ UNCHANGED <<atomics, producers, loopFd, control, world>>

LoopConnected ==
    /\ loopPc = "checkConnected"
    /\ loopPc' = IF connected_ THEN "checkRunning" ELSE "socket"
    /\ UNCHANGED <<atomics, producers, loopFd, control, world>>

LoopSocket ==
    /\ loopPc = "socket"
    /\ \E f \in Fd :
          /\ files[f] = "closed"
          /\ files' = [files EXCEPT ![f] = "socket"]
          /\ loopFd' = f
    /\ loopPc' = "connect"
    /\ UNCHANGED <<atomics, producers, control, peer, stream>>

(* socket(2) fails: the thread sleeps and starts over. *)
LoopNoSocket ==
    /\ loopPc = "socket"
    /\ loopPc' = "checkRunning"
    /\ UNCHANGED <<atomics, producers, loopFd, control, world>>

LoopConnect(next) ==
    /\ loopPc = "connect" /\ files[loopFd] = "socket"
    /\ \E c \in Conn :
          /\ peer[c] = "unused"
          /\ peer' = [peer EXCEPT ![c] = "up"]
          /\ files' = [files EXCEPT ![loopFd] = c]
    /\ loopPc' = next
    /\ UNCHANGED <<atomics, producers, loopFd, control, stream>>

(* Fault: the continue after a failed connect is missing. *)
LoopGoesOn(step) ==
    /\ loopPc = step
    /\ files' = [files EXCEPT ![loopFd] = "closed"]
    /\ loopPc' = "publishFd"
    /\ UNCHANGED <<atomics, producers, loopFd, control, peer, stream>>

(* A failed attempt closes its descriptor, sleeps and starts over. *)
LoopGiveUp(step) ==
    /\ loopPc = step
    /\ files' = [files EXCEPT ![loopFd] = "closed"]
    /\ loopFd' = NoFd
    /\ loopPc' = "checkRunning"
    /\ UNCHANGED <<atomics, producers, control, peer, stream>>

LoopPublishFd ==
    /\ loopPc = "publishFd"
    /\ socket_fd_' = loopFd
    /\ loopFd' = NoFd
    /\ loopPc' = "publishConnected"
    /\ UNCHANGED <<running_, connected_, producers, control, world>>

LoopPublishConnected ==
    /\ loopPc = "publishConnected"
    /\ connected_' = TRUE
    /\ loopPc' = "checkRunning"
    /\ UNCHANGED <<running_, socket_fd_, producers, loopFd, control, world>>

LoopShared == \/ LoopRunning \/ LoopConnected \/ LoopSocket \/ LoopNoSocket
              \/ LoopGiveUp("connect") \/ LoopPublishFd \/ LoopPublishConnected
-----------------------------------------------------------------------------
(* The agent drops a connection; other threads open and close files. *)
AgentClose(c) ==
    /\ peer[c] = "up"
    /\ peer' = [peer EXCEPT ![c] = "gone"]
    /\ UNCHANGED <<atomics, producers, loop, control, files, stream>>

OtherOpen(f) ==
    /\ files[f] = "closed"
    /\ files' = [files EXCEPT ![f] = "foreign"]
    /\ UNCHANGED <<atomics, producers, loop, control, peer, stream>>

OtherClose(f) ==
    /\ files[f] = "foreign"
    /\ files' = [files EXCEPT ![f] = "closed"]
    /\ UNCHANGED <<atomics, producers, loop, control, peer, stream>>

SharedEnvironment == \/ \E c \in Conn : AgentClose(c)
                     \/ \E f \in Fd : OtherOpen(f) \/ OtherClose(f)
=============================================================================

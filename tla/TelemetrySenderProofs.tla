----------------------- MODULE TelemetrySenderProofs -----------------------
(***************************************************************************)
(* Proofs about TelemetrySender for any number of producers, descriptors,  *)
(* connections and events: TypeOK, DescriptorsOwned and StreamsWellFormed  *)
(* are invariants, and the sender implements DeliveryChannel.              *)
(***************************************************************************)
EXTENDS TelemetrySender, SocketSenderProofs, SequenceTheorems, TLAPS

(* Most leaves are first-order; those with arithmetic cite SMT. *)
USE Zenon

LoopHolding == {"connect", "stat", "sendToken", "readReply", "publishFd"}

(* A producer in its critical section is the holder of send_mutex_. *)
MutexInv ==
    \A p \in Producers : pc[p] \in Critical <=> send_mutex_ = p

(* No SendEvent is in progress while Stop runs. *)
ControlInv ==
    ctlPc # "idle" => ProducersIdle

ProducerInv ==
    \A p \in Producers :
        /\ pc[p] # "idle" => ev[p] \in Event
        /\ pc[p] \in Holding => fd[p] \in Fd /\ OnAgent(fd[p])

SocketInv ==
    socket_fd_ # NoFd => OnAgent(socket_fd_) \/ Resetting

StopInv ==
    ctlPc = "close" =>
        ctlFd \in Fd /\ OnAgent(ctlFd) /\ socket_fd_ # ctlFd

LoopInv ==
    loopPc \in LoopHolding =>
        /\ loopFd \in Fd
        /\ loopFd # socket_fd_ \/ Resetting
        /\ ctlPc = "close" => loopFd # ctlFd
        /\ \A p \in Producers : pc[p] \in Holding => fd[p] # loopFd
        /\ loopPc = "connect" => files[loopFd] = "socket"
        /\ loopPc \in {"stat", "sendToken", "readReply"} => files[loopFd] \in Conn
        /\ loopPc = "publishFd" => OnAgent(loopFd)

OwnerInv == /\ MutexInv /\ ControlInv /\ ProducerInv
            /\ SocketInv /\ StopInv /\ LoopInv

IInv == TypeOK /\ OwnerInv

(* The part of TypeOK that the arguments about ownership rest on. *)
OwnerTypes ==
    /\ socket_fd_ \in Fd \cup {NoFd}
    /\ pc \in [Producers -> ProducerStep]
    /\ fd \in [Producers -> Fd \cup {NoFd}]
    /\ ev \in [Producers -> Event \cup {NoEvent}]
    /\ unsent \subseteq Event
    /\ files \in [Fd -> FileKind \cup Conn]
    /\ reply \in [Conn -> {"none", "accepted", "rejected"}]
-----------------------------------------------------------------------------
(* The initial state of the sender satisfies the inductive invariant. *)
LEMMA InitIInv == Init => IInv
<1> SUFFICES ASSUME Init PROVE IInv
  OBVIOUS
<1> USE SenderAssumption DEF Init, SenderInit
<1>1. TypeOK
  <2>1. \A c \in Conn : stream[c] \in Seq(Event \cup {"token", "partial"})
    BY SMT
  <2>2. StreamTypeOK
    BY <2>1 DEF StreamTypeOK
  <2>3. QED
    BY <2>2 DEF TypeOK, SenderTypeOK, ProducerStep, LoopStep, ControlStep, FileKind
<1>2. QED
  BY <1>1 DEF IInv, OwnerInv, MutexInv, ControlInv, ProducerInv, SocketInv, StopInv,
     LoopInv, Critical, Holding, LoopHolding, ProducersIdle

(* A step that writes to a connection, and the item it writes. *)
LEMMA StreamSteps ==
    ASSUME [Next]_vars, stream' # stream
    PROVE  \/ LoopSendToken
           \/ \E p \in Producers : (WriteWhole(p) \/ WriteFails(p)) /\ UNCHANGED reply
  BY DEF Next, vars, StartBegin, Start, StopBegin,
     StopClearRunning, StopStep, StopRest, StopClearConnected, StopExchange,
     StopClose, StopJoin, SendBegin, SendCheck, SendStep, SendRest, SendLock,
     FailClear, FailClose, FailReset, ConnectionLoop, LoopStepShared, LoopShared,
     LoopRunning, LoopConnected, LoopSocket, LoopNoSocket, LoopGiveUp,
     LoopPublishFd, LoopPublishConnected, LoopConnectStep, LoopConnect,
     LoopStatOk, LoopInsecure, LoopTokenFails, LoopAccepted, LoopRefused,
     AgentReply, Environment, SharedEnvironment, AgentClose, OtherOpen,
     OtherClose, world

(* What is written to a connection is the token, an event or a part of one. *)
LEMMA NextStreamTypeOK ==
    ASSUME TypeOK, IInv, [Next]_vars
    PROVE  StreamTypeOK'
<1> DEFINE I == Event \cup {"token", "partial"}
<1>1. \A s \in Seq(I), x \in I : Append(s, x) \in Seq(I)
  BY SMT
<1>2. stream \in [Conn -> Seq(I)]
  BY DEF TypeOK, SenderTypeOK, StreamTypeOK
<1>3. ASSUME NEW x \in I, NEW c, stream' = [stream EXCEPT ![c] = Append(@, x)]
      PROVE  stream' \in [Conn -> Seq(I)]
  <2>1. CASE c \in Conn
    <3>1. Append(stream[c], x) \in Seq(I)
      BY <1>1, <1>2, <2>1
    <3> HIDE DEF I
    <3>2. QED
      BY <3>1, <1>2, <1>3
  <2>2. CASE c \notin Conn
    <3> HIDE DEF I
    <3>1. QED
      BY <2>2, <1>2, <1>3
  <2>3. QED
    BY <2>1, <2>2
<1>4. CASE UNCHANGED stream
  BY <1>4, <1>2 DEF StreamTypeOK
<1>5. CASE LoopSendToken
  <2>1. "token" \in I
    OBVIOUS
  <2>2. stream' = [stream EXCEPT ![files[loopFd]] = Append(@, "token")]
    BY <1>5 DEF LoopSendToken
  <2>3. QED
    BY <2>1, <2>2, <1>3 DEF StreamTypeOK
<1>6. ASSUME NEW p \in Producers, WriteWhole(p) \/ WriteFails(p), stream' # stream
      PROVE  StreamTypeOK'
  <2>1. "partial" \in I /\ ev[p] \in I
    BY <1>6 DEF WriteWhole, WriteFails, IInv, OwnerInv, ProducerInv
  <2>2. \/ stream' = [stream EXCEPT ![files[fd[p]]] = Append(@, "partial")]
        \/ stream' = [stream EXCEPT ![files[fd[p]]] = Append(@, ev[p])]
    BY <1>6 DEF WriteWhole, WriteFails
  <2>3. QED
    BY <2>1, <2>2, <1>3 DEF StreamTypeOK
<1>7. QED
  BY <1>4, <1>5, <1>6, StreamSteps

(* The steps of the sender are well typed. *)
LEMMA NextTypeOK == TypeOK /\ IInv /\ [Next]_vars => TypeOK'
<1> SUFFICES ASSUME TypeOK, IInv, [Next]_vars PROVE TypeOK'
  OBVIOUS
<1>0. StreamTypeOK'
  BY NextStreamTypeOK
<1> USE SenderAssumption, <1>0 DEF TypeOK, SenderTypeOK, ProducerStep, LoopStep,
        ControlStep, FileKind
<1>1. CASE StartBegin \/ StopBegin \/ StopStep
  BY <1>1 DEF StartBegin, Start, StopBegin, StopClearRunning, StopStep,
     StopRest, StopClearConnected, StopExchange, StopClose, StopJoin,
     atomics, producers, loop, control, world
<1>2. ASSUME NEW p \in Producers, SendBegin(p) PROVE TypeOK'
  BY SMT, <1>2 DEF SendBegin, SendCheck, atomics, producers, loop, control, world
<1>3. ASSUME NEW p \in Producers, SendStep(p) PROVE TypeOK'
  <2> USE DEF atomics, producers, loop, control, world, Return
  <2>1. CASE SendLock(p)
    BY SMT, <2>1, <1>3 DEF SendStep, SendLock
  <2>2. CASE WriteWhole(p)
    BY SMT, <2>2, <1>3 DEF SendStep, WriteWhole
  <2>3. CASE WriteFails(p)
    BY SMT, <2>3, <1>3 DEF SendStep, WriteFails
  <2>4. CASE FailClear(p) \/ FailClose(p) \/ FailReset(p)
    BY ZenonT(30), <2>4, <1>3 DEF SendStep, FailClear, FailClose, FailReset
  <2>5. QED
    BY <1>3, <2>1, <2>2, <2>3, <2>4 DEF SendStep, SendRest
<1>4. CASE ConnectionLoop
  <2> USE DEF atomics, producers, loop, control, world
  <2>1. CASE LoopStepShared
    BY <2>1 DEF LoopStepShared, LoopShared, LoopRunning, LoopConnected,
       LoopSocket, LoopNoSocket, LoopGiveUp, LoopPublishFd, LoopPublishConnected
  <2>2. CASE LoopConnectStep
    <3>1. PICK c \in Conn : /\ peer' = [peer EXCEPT ![c] = "up"]
                           /\ files' = [files EXCEPT ![loopFd] = c]
      BY <2>2 DEF LoopConnectStep, LoopConnect
    <3>2. files' \in [Fd -> FileKind \cup Conn] /\ peer' \in [Conn -> {"unused", "up", "gone"}]
      BY <3>1
    <3>3. QED
      BY <2>2, <3>2 DEF LoopConnectStep, LoopConnect
  <2>3. CASE LoopStatOk \/ LoopAccepted
    BY SMT, <2>3 DEF LoopStatOk, LoopAccepted
  <2>4. CASE LoopInsecure \/ LoopTokenFails \/ LoopRefused
    BY <2>4 DEF LoopInsecure, LoopTokenFails, LoopRefused, LoopGiveUp
  <2>5. CASE LoopSendToken
    BY <2>5 DEF LoopSendToken, IsUp
  <2>6. QED
    BY <1>4, <2>1, <2>2, <2>3, <2>4, <2>5 DEF ConnectionLoop
<1>5. ASSUME NEW c \in Conn, AgentReply(c) PROVE TypeOK'
  BY SMT, <1>5 DEF AgentReply, atomics, producers, loop, control, world
<1>6. CASE Environment
  BY SMT, <1>6 DEF Environment, SharedEnvironment, AgentClose, OtherOpen, OtherClose,
     atomics, producers, loop, control, world
<1>7. CASE UNCHANGED vars
  BY SMT, <1>7 DEF vars, atomics, producers, loop, control, world
<1>8. QED
  BY <1>1, <1>2, <1>3, <1>4, <1>5, <1>6, <1>7 DEF Next

(* Every step of the sender preserves the inductive invariant. *)
LEMMA NextIInv == IInv /\ [Next]_vars => IInv'
<1> SUFFICES ASSUME OwnerTypes, OwnerInv, [Next]_vars PROVE OwnerInv'
  BY NextTypeOK DEF IInv, TypeOK, SenderTypeOK, OwnerTypes
<1> USE SenderAssumption DEF OwnerTypes, FileKind, OwnerInv, MutexInv,
        ControlInv, ProducerInv, SocketInv, StopInv, LoopInv, Critical, Holding,
        LoopHolding, Resetting, ProducersIdle, OnAgent, Authenticated
<1>1. CASE StartBegin \/ StopBegin
  BY <1>1 DEF StartBegin, Start, StopBegin, StopClearRunning,
     atomics, producers, loop, control, world
<1>2. CASE StopStep
  <2> USE DEF StopStep, atomics, producers, loop, control, world
  <2>1. CASE StopClearConnected
    BY <1>2, <2>1 DEF StopClearConnected
  <2>2. CASE StopExchange
    BY <1>2, <2>2 DEF StopExchange
  <2>3. CASE StopClose
    BY <1>2, <2>3 DEF StopClose
  <2>4. CASE StopJoin
    BY <1>2, <2>4 DEF StopJoin
  <2>5. QED
    BY <1>2, <2>1, <2>2, <2>3, <2>4 DEF StopRest
<1>3. ASSUME NEW p \in Producers, SendBegin(p) PROVE OwnerInv'
  <2>1. /\ pc[p] = "idle" /\ ctlPc = "idle"
        /\ UNCHANGED <<atomics, send_mutex_, fd, loop, control, world, reply>>
    BY <1>3 DEF SendBegin, SendCheck
  <2>2. CASE UNCHANGED <<pc, ev>>
    BY <2>1, <2>2 DEF atomics, loop, control, world
  <2>3. ASSUME NEW e \in Event, pc' = [pc EXCEPT ![p] = "lock"],
               ev' = [ev EXCEPT ![p] = e]
        PROVE  OwnerInv'
    <3>1. \A q \in Producers : q # p => pc'[q] = pc[q] /\ ev'[q] = ev[q]
      BY <2>3
    <3>2. pc'[p] = "lock" /\ ev'[p] = e
      BY <2>3
    <3>3. MutexInv' /\ ControlInv' /\ ProducerInv'
      BY SMT, <2>1, <3>1, <3>2 DEF atomics, loop, control, world
    <3>4. SocketInv' /\ StopInv' /\ LoopInv'
      BY SMT, <2>1, <3>1, <3>2 DEF atomics, loop, control, world
    <3>5. QED
      BY <3>3, <3>4
  <2>4. \/ UNCHANGED <<pc, ev>>
        \/ \E e \in Event : /\ pc' = [pc EXCEPT ![p] = "lock"]
                            /\ ev' = [ev EXCEPT ![p] = e]
    BY <1>3 DEF SendBegin, SendCheck
  <2>5. QED
    BY <2>2, <2>3, <2>4
<1>4. ASSUME NEW p \in Producers, SendStep(p) PROVE OwnerInv'
  <2> USE DEF SendStep, atomics, producers, loop, control, world, Return
  <2>1. CASE SendLock(p)
    <3>1. CASE socket_fd_ = NoFd
      BY SMT, <3>1, <2>1, <1>4 DEF SendLock
    <3>2. CASE socket_fd_ # NoFd
      <4>1. ~Resetting /\ OnAgent(socket_fd_) /\ socket_fd_ \in Fd
        BY <3>2, <2>1 DEF SendLock
      <4>2. MutexInv' /\ ControlInv'
        BY SMT, <3>2, <2>1, <1>4 DEF SendLock
      <4>3. ProducerInv'
        BY SMT, <4>1, <3>2, <2>1, <1>4 DEF SendLock
      <4>4. SocketInv' /\ StopInv' /\ LoopInv'
        BY SMT, <4>1, <3>2, <2>1, <1>4 DEF SendLock
      <4>5. QED
        BY <4>2, <4>3, <4>4
    <3>3. QED
      BY <3>1, <3>2
  <2>2. CASE WriteWhole(p)
    BY SMT, <2>2, <1>4 DEF WriteWhole
  <2>3. CASE WriteFails(p)
    BY SMT, <2>3, <1>4 DEF WriteFails
  <2>4. CASE FailClear(p)
    BY SMT, <2>4, <1>4 DEF FailClear
  <2>5. CASE FailClose(p)
    BY SMT, <2>5, <1>4 DEF FailClose
  <2>6. CASE FailReset(p)
    BY SMT, <2>6, <1>4 DEF FailReset
  <2>7. QED
    BY <1>4, <2>1, <2>2, <2>3, <2>4, <2>5, <2>6 DEF SendRest
<1>5. CASE ConnectionLoop
  <2> USE DEF atomics, producers, loop, control, world
  <2>1. CASE LoopStepShared /\ (LoopRunning \/ LoopConnected \/ LoopNoSocket)
    BY SMT, <2>1 DEF LoopStepShared, LoopRunning, LoopConnected, LoopNoSocket
  <2>2. CASE LoopStepShared /\ LoopSocket
    BY SMT, <2>2 DEF LoopStepShared, LoopSocket
  <2>3. CASE LoopStepShared /\ (LoopPublishFd \/ LoopPublishConnected)
    BY SMT, <2>3 DEF LoopStepShared, LoopPublishFd, LoopPublishConnected
  <2>4. ASSUME NEW step \in LoopHolding, LoopGiveUp(step), UNCHANGED reply
        PROVE  OwnerInv'
    BY <2>4 DEF LoopGiveUp
  <2>5. CASE LoopConnectStep
    BY SMT, <2>5 DEF LoopConnectStep, LoopConnect
  <2>6. CASE LoopStatOk
    BY <2>6 DEF LoopStatOk
  <2>7. CASE LoopSendToken
    BY <2>7 DEF LoopSendToken
  <2>8. CASE LoopAccepted
    BY <2>8 DEF LoopAccepted
  <2>9. QED
    BY <1>5, <2>1, <2>2, <2>3, <2>4, <2>5, <2>6, <2>7, <2>8
       DEF ConnectionLoop, LoopStepShared, LoopShared, LoopInsecure,
           LoopTokenFails, LoopRefused
<1>6. ASSUME NEW c \in Conn, AgentReply(c) PROVE OwnerInv'
  BY SMT, <1>6 DEF AgentReply, atomics, producers, loop, control, world
<1>7. CASE Environment
  <2> USE DEF Environment, atomics, producers, loop, control, world
  <2>1. ASSUME NEW c \in Conn, AgentClose(c) PROVE OwnerInv'
    BY <1>7, <2>1 DEF AgentClose
  <2>2. ASSUME NEW f \in Fd, OtherOpen(f) PROVE OwnerInv'
    BY SMT, <1>7, <2>2 DEF OtherOpen
  <2>3. ASSUME NEW f \in Fd, OtherClose(f) PROVE OwnerInv'
    BY SMT, <1>7, <2>3 DEF OtherClose
  <2>4. QED
    BY <1>7, <2>1, <2>2, <2>3 DEF SharedEnvironment
<1>8. CASE UNCHANGED vars
  BY <1>8 DEF vars, atomics, producers, loop, control, world
<1>9. QED
  BY <1>1, <1>2, <1>3, <1>4, <1>5, <1>6, <1>7, <1>8 DEF Next
-----------------------------------------------------------------------------
(* The variables of the sender, its threads and its connections always     *)
(* have the types TypeOK gives them.                                       *)
THEOREM TypeCorrect == Spec => []TypeOK
<1>1. IInv => TypeOK
  BY DEF IInv, OwnerInv
<1>2. QED
  BY <1>1, InitIInv, NextIInv, PTL DEF Spec

(* SendEvent, Stop and ConnectionLoop only ever write to and close their   *)
(* own descriptors, however many threads send and files are opened, since  *)
(* ffi.cpp joins the producers before it calls Stop.                       *)
THEOREM DescriptorsAlwaysOwned == Spec => []DescriptorsOwned
<1>1. IInv => DescriptorsOwned
  BY DEF IInv, OwnerInv, ProducerInv, StopInv, LoopInv, Holding, LoopHolding,
     DescriptorsOwned
<1>2. QED
  BY <1>1, InitIInv, NextIInv, PTL DEF Spec
-----------------------------------------------------------------------------
(* The token is what a connection carries first, the reply comes after it. *)
TokenInv ==
    /\ loopPc \in {"sendToken", "readReply"} => AuthToken
    /\ loopPc \in {"stat", "sendToken"} => stream[files[loopFd]] = <<>>
    /\ \A c \in Conn : reply[c] # "none" => stream[c] # <<>>

(* The inductive invariant behind StreamsWellFormed. *)
StreamInv == IInv /\ ConnInv /\ TokenInv /\ TruncatedInv /\ StreamsWellFormed

(* Before the first connection no stream carries anything. *)
LEMMA InitStreamInv == Init => StreamInv
<1> SUFFICES ASSUME Init PROVE StreamInv
  OBVIOUS
<1>1. \A c \in Conn : stream[c] = <<>> /\ Len(stream[c]) = 0
  BY DEF Init, SenderInit
<1>2. StreamsWellFormed
  BY SMT, <1>1 DEF StreamsWellFormed
<1>3. ConnInv /\ TokenInv /\ TruncatedInv
  BY <1>1, SenderAssumption DEF Init, SenderInit, ConnInv, TokenInv,
     TruncatedInv, Truncated, FileKind
<1>4. QED
  BY <1>2, <1>3, InitIInv DEF StreamInv

(* The agent's acceptance of a connection is final. *)
LEMMA ReplyStable ==
    ASSUME TypeOK, [Next]_vars, NEW c \in Conn, Authenticated(c)
    PROVE  Authenticated(c)'
<1>1. CASE UNCHANGED reply
  BY <1>1 DEF Authenticated
<1>2. ASSUME NEW d \in Conn, AgentReply(d) PROVE Authenticated(c)'
  BY <1>2 DEF AgentReply, TypeOK, Authenticated
<1>3. QED
  BY <1>1, <1>2 DEF Next, vars, StartBegin, StopBegin, StopStep, SendBegin,
     SendStep, ConnectionLoop, LoopStepShared, LoopConnectStep, LoopStatOk,
     LoopInsecure, LoopSendToken, LoopTokenFails, LoopAccepted, LoopRefused,
     Environment

(* Steps that write nothing to a connection. *)
LEMMA SilentStreamInv ==
    ASSUME StreamInv, IInv', [Next]_vars, UNCHANGED stream
    PROVE  StreamInv'
<1> DEFINE Goal == ConnInv' /\ TokenInv' /\ TruncatedInv'
<1>a. Truncated' = Truncated /\ Truncated \subseteq Conn
  BY DEF Truncated
<1>b. TypeOK /\ OwnerTypes /\ LoopInv /\ ProducerInv /\ StopInv
  BY DEF StreamInv, IInv, OwnerInv, TypeOK, SenderTypeOK, OwnerTypes
<1>e. loopFd \in Fd \cup {NoFd} /\ peer \in [Conn -> {"unused", "up", "gone"}]
  BY <1>b DEF TypeOK, SenderTypeOK
<1>c. ConnInv /\ TokenInv /\ TruncatedInv
  BY DEF StreamInv
<1>d. StreamsWellFormed'
  BY <1>b, ReplyStable DEF StreamInv, StreamsWellFormed
<1> SUFFICES Goal
  BY <1>d DEF StreamInv
<1> USE SenderAssumption, <1>a, <1>b, <1>c, <1>e DEF OwnerTypes, FileKind,
        ConnInv, TokenInv, TruncatedInv, LoopInv, LoopHolding,
        atomics, producers, loop, control, world
<1>1. CASE StartBegin \/ StopBegin
  BY SMT, <1>1 DEF StartBegin, Start, StopBegin, StopClearRunning
<1>2. CASE StopStep
  <2>1. CASE StopClose
    BY SMT, <1>2, <2>1 DEF StopStep, StopClose, StopInv
  <2>2. CASE StopClearConnected \/ StopExchange \/ StopJoin
    BY SMT, <1>2, <2>2 DEF StopStep, StopClearConnected, StopExchange, StopJoin
  <2>3. QED
    BY <1>2, <2>1, <2>2 DEF StopStep, StopRest
<1>3. ASSUME NEW p \in Producers, SendBegin(p) PROVE Goal
  BY SMT, <1>3 DEF SendBegin, SendCheck
<1>4. ASSUME NEW p \in Producers, SendStep(p) PROVE Goal
  <2> USE DEF SendStep, Return
  <2>1. CASE SendLock(p)
    BY SMT, <2>1, <1>4 DEF SendLock
  <2>2. CASE WriteWhole(p) \/ FailReset(p)
    <3>1. /\ pc[p] \in {"write", "failReset"}
          /\ pc' = [pc EXCEPT ![p] = "idle"] /\ fd' = [fd EXCEPT ![p] = NoFd]
          /\ UNCHANGED <<loop, files, peer, reply>>
      BY <2>2, <1>4 DEF WriteWhole, FailReset
    <3>2. ASSUME NEW q \in Producers, pc[q] \in {"failClear", "failClose"}
          PROVE  pc'[q] = pc[q] /\ fd'[q] = fd[q]
      BY SMT, <3>1, <3>2
    <3>3. TruncatedInv'
      BY <3>1, <3>2
    <3>4. QED
      BY SMT, <3>1, <3>3
  <2>3. CASE FailClear(p)
    BY SMT, <2>3, <1>4 DEF FailClear
  <2>4. CASE FailClose(p)
    BY SMT, <2>4, <1>4 DEF FailClose, ProducerInv, Holding
  <2>5. CASE WriteFails(p)
    <3>1. /\ pc[p] = "write" /\ pc' = [pc EXCEPT ![p] = "failClear"]
          /\ UNCHANGED <<fd, loop, files, peer, reply>>
      BY <2>5, <1>4 DEF WriteFails
    <3>2. QED
      BY <3>1
  <2>6. QED
    BY ZenonT(30), <1>4, <2>1, <2>2, <2>3, <2>4, <2>5 DEF SendRest
<1>5. CASE ConnectionLoop
  <2>1. CASE LoopStepShared /\ (LoopRunning \/ LoopConnected \/ LoopNoSocket)
    BY SMT, <2>1 DEF LoopStepShared, LoopRunning, LoopConnected, LoopNoSocket
  <2>2. CASE LoopStepShared /\ LoopSocket
    BY SMT, <2>2 DEF LoopStepShared, LoopSocket
  <2>3. CASE LoopStepShared /\ (LoopPublishFd \/ LoopPublishConnected)
    BY SMT, <2>3 DEF LoopStepShared, LoopPublishFd, LoopPublishConnected
  <2>4. ASSUME NEW step \in LoopHolding, LoopGiveUp(step), UNCHANGED reply
        PROVE  Goal
    BY SMT, <2>4 DEF LoopGiveUp
  <2>5. CASE LoopConnectStep
    <3>1. PICK c \in Conn : /\ peer[c] = "unused"
                           /\ peer' = [peer EXCEPT ![c] = "up"]
                           /\ files' = [files EXCEPT ![loopFd] = c]
      BY <2>5 DEF LoopConnectStep, LoopConnect
    <3>2. stream[c] = <<>> /\ c \notin Truncated /\ \A f \in Fd : files[f] # c
      BY SMT, <3>1 DEF Truncated
    <3>3. loopPc = "connect" /\ loopPc' = "stat"
          /\ UNCHANGED <<pc, fd, loopFd, reply>>
      BY <2>5 DEF LoopConnectStep, LoopConnect
    <3>4. ConnInv'
      BY SMT, <3>1, <3>2, <3>3
    <3>5. TokenInv' /\ TruncatedInv'
      BY SMT, <3>1, <3>2, <3>3
    <3>6. QED
      BY <3>4, <3>5
  <2>6. CASE LoopStatOk
    BY <2>6 DEF LoopStatOk
  <2>7. CASE LoopSendToken
    BY SMT, <2>7 DEF LoopSendToken, IsUp
  <2>8. CASE LoopAccepted
    BY SMT, <2>8 DEF LoopAccepted
  <2>9. QED
    BY ZenonT(30), <1>5, <2>1, <2>2, <2>3, <2>4, <2>5, <2>6, <2>7, <2>8
       DEF ConnectionLoop, LoopStepShared, LoopShared, LoopInsecure,
           LoopTokenFails, LoopRefused
<1>6. ASSUME NEW c \in Conn, AgentReply(c) PROVE Goal
  BY SMT, <1>6 DEF AgentReply
<1>7. CASE Environment
  <2> USE DEF Environment
  <2>1. ASSUME NEW c \in Conn, AgentClose(c) PROVE Goal
    BY SMT, <1>7, <2>1 DEF AgentClose
  <2>2. ASSUME NEW f \in Fd, OtherOpen(f) PROVE Goal
    BY SMT, <1>7, <2>2 DEF OtherOpen
  <2>3. ASSUME NEW f \in Fd, OtherClose(f) PROVE Goal
    BY SMT, <1>7, <2>3 DEF OtherClose
  <2>4. QED
    BY ZenonT(30), <1>7, <2>1, <2>2, <2>3 DEF SharedEnvironment
<1>8. CASE UNCHANGED vars
  BY SMT, <1>8 DEF vars
<1>9. QED
  BY <1>1, <1>2, <1>3, <1>4, <1>5, <1>6, <1>7, <1>8 DEF Next

(* One item written to a connection that is not truncated. *)
LEMMA WriteItem ==
    ASSUME TypeOK, StreamsWellFormed, UNCHANGED reply,
           NEW c \in Conn, c \notin Truncated, NEW x \in Item,
           stream' = [stream EXCEPT ![c] = Append(@, x)],
           x = "token" => AuthToken /\ stream[c] = <<>>,
           x # "token" => Authenticated(c) /\ (AuthToken => stream[c] # <<>>)
    PROVE  /\ StreamsWellFormed'
           /\ Truncated' = Truncated \cup (IF x = "partial" THEN {c} ELSE {})
<1>1. stream \in [Conn -> Seq(Item)]
  BY DEF TypeOK, SenderTypeOK, StreamTypeOK, Item
<1>2. /\ stream'[c] = Append(stream[c], x)
      /\ \A d \in Conn \ {c} : stream'[d] = stream[d]
  BY <1>1
<1>3. /\ Len(stream[c]) \in Nat /\ Len(stream'[c]) = Len(stream[c]) + 1
      /\ \A i \in 1..Len(stream[c]) : stream'[c][i] = stream[c][i]
      /\ stream'[c][Len(stream[c]) + 1] = x
  BY SMT, <1>1, <1>2, AppendItem
<1>4. stream[c] = <<>> <=> Len(stream[c]) = 0
  BY SMT, <1>1
<1>5. \A d \in Conn : Authenticated(d)' <=> Authenticated(d)
  BY DEF Authenticated
<1>6. ASSUME NEW i \in 1..Len(stream'[c])
      PROVE  /\ stream'[c][i] = "token" <=> (AuthToken /\ i = 1)
             /\ stream'[c][i] = "partial" => i = Len(stream'[c])
             /\ stream'[c][i] # "token" => Authenticated(c)
  <2>1. CASE i \in 1..Len(stream[c])
    <3>1. stream[c][i] # "partial"
      BY <2>1 DEF Truncated
    <3>2. QED
      BY SMT, <2>1, <3>1, <1>3, <1>4 DEF StreamsWellFormed
  <2>2. CASE i = Len(stream[c]) + 1
    BY SMT, <2>2, <1>3, <1>4
  <2>3. QED
    BY SMT, <1>3, <2>1, <2>2
<1>7. StreamsWellFormed'
  BY SMT, <1>2, <1>5, <1>6 DEF StreamsWellFormed
<1>8. ASSUME NEW d \in Conn
      PROVE  d \in Truncated' <=> d \in Truncated \/ (d = c /\ x = "partial")
  <2>1. CASE d = c
    BY SMT, <2>1, <1>3 DEF Truncated
  <2>2. CASE d # c
    BY <2>2, <1>2 DEF Truncated
  <2>3. QED
    BY <2>1, <2>2
<1>9. Truncated \subseteq Conn /\ Truncated' \subseteq Conn
  BY DEF Truncated
<1>10. QED
  BY <1>7, <1>8, <1>9

(* Every step preserves the invariant on the streams. *)
LEMMA NextStreamInv == StreamInv /\ [Next]_vars => StreamInv'
<1> SUFFICES ASSUME StreamInv, [Next]_vars PROVE StreamInv'
  OBVIOUS
<1>a. IInv /\ IInv' /\ TypeOK /\ MutexInv /\ ProducerInv /\ LoopInv
  BY NextIInv DEF StreamInv, IInv, OwnerInv
<1>b. ConnInv /\ TokenInv /\ TruncatedInv /\ StreamsWellFormed
  BY DEF StreamInv
<1>1. CASE UNCHANGED stream
  BY <1>1, <1>a, SilentStreamInv
<1>2. CASE LoopSendToken
  <2>1. /\ loopPc = "sendToken" /\ loopPc' = "readReply" /\ AuthToken
        /\ loopFd \in Fd /\ files[loopFd] \in Conn
        /\ stream[files[loopFd]] = <<>>
        /\ peer[files[loopFd]] # "unused"
        /\ stream' = [stream EXCEPT ![files[loopFd]] = Append(@, "token")]
        /\ UNCHANGED <<pc, fd, loopFd, files, peer, reply>>
    BY <1>2, <1>a, <1>b DEF LoopSendToken, IsUp, LoopInv, LoopHolding, TokenInv,
       producers, ConnInv
  <2>2. files[loopFd] \notin Truncated
    BY SMT, <2>1 DEF Truncated
  <2>3. StreamsWellFormed' /\ Truncated' = Truncated
    <3> DEFINE x == "token"
    <3>1. x \in Item /\ (x = "token" => AuthToken /\ stream[files[loopFd]] = <<>>)
          /\ stream' = [stream EXCEPT ![files[loopFd]] = Append(@, x)]
      BY <2>1 DEF Item
    <3>2. x = "token" /\ x # "partial"
      OBVIOUS
    <3> HIDE DEF x
    <3>3. /\ StreamsWellFormed'
          /\ Truncated' = Truncated \cup (IF x = "partial" THEN {files[loopFd]} ELSE {})
      BY <3>1, <3>2, <2>1, <2>2, <1>a, <1>b, WriteItem
    <3>4. QED
      BY <3>2, <3>3
  <2>4. TruncatedInv'
    BY <2>1, <2>3, <1>b DEF TruncatedInv
  <2>5. \A c \in Conn : stream[c] # <<>> => stream'[c] # <<>>
    BY <2>1, <1>a, AppendItem DEF TypeOK, SenderTypeOK, StreamTypeOK, Item
  <2>6. \A c \in Conn : c # files[loopFd] => stream'[c] = stream[c]
    BY <2>1, <1>a DEF TypeOK, SenderTypeOK, StreamTypeOK
  <2>7. ConnInv' /\ TokenInv'
    BY <2>1, <2>5, <2>6, <1>b DEF ConnInv, TokenInv
  <2>8. QED
    BY <2>3, <2>4, <2>7, <1>a DEF StreamInv
<1>3. ASSUME NEW p \in Producers, WriteWhole(p) \/ WriteFails(p), UNCHANGED reply,
             stream' # stream
      PROVE  StreamInv'
  <2> DEFINE c == files[fd[p]]
  <2>1. PICK x \in Item :
           /\ stream' = [stream EXCEPT ![c] = Append(@, x)]
           /\ x # "token" /\ IsUp(fd[p])
           /\ x = "partial" => pc' = [pc EXCEPT ![p] = "failClear"] /\ UNCHANGED fd
           /\ x # "partial" => pc' = [pc EXCEPT ![p] = "idle"]
                               /\ fd' = [fd EXCEPT ![p] = NoFd]
    BY ZenonT(30), <1>3, <1>a, SenderAssumption
       DEF WriteWhole, WriteFails, Return, ProducerInv, Holding, Item
  <2>2. /\ pc[p] = "write" /\ fd[p] \in Fd /\ c \in Conn /\ Authenticated(c)
        /\ peer[c] = "up" /\ UNCHANGED <<loopPc, loopFd, files, peer>>
    BY <1>3, <2>1, <1>a DEF WriteWhole, WriteFails, ProducerInv, Holding, OnAgent,
       IsUp, loop
  <2>3. c \notin Truncated
    <3>1. SUFFICES ASSUME c \in Truncated PROVE FALSE
      OBVIOUS
    <3>2. PICK q \in Producers : pc[q] \in {"failClear", "failClose"}
      BY <3>1, <2>2, <1>b DEF TruncatedInv
    <3>3. QED
      BY <3>2, <2>2, <1>a DEF MutexInv, Critical
  <2>4. AuthToken => stream[c] # <<>>
    BY <2>2, <1>b DEF Authenticated, TokenInv
  <2>5. /\ StreamsWellFormed'
        /\ Truncated' = Truncated \cup (IF x = "partial" THEN {c} ELSE {})
    BY ZenonT(30), <2>1, <2>2, <2>3, <2>4, <1>3, <1>a, <1>b, WriteItem
  <2>6. /\ stream'[c] # <<>>
        /\ \A d \in Conn : d # c => stream'[d] = stream[d]
    BY ZenonT(30), <2>1, <2>2, <1>a, AppendItem DEF TypeOK, SenderTypeOK, StreamTypeOK, Item
  <2>7. loopPc \in {"stat", "sendToken"} => files[loopFd] # c
    BY <2>2, <1>a, <1>b DEF ConnInv, LoopInv, LoopHolding, Holding
  <2>8. ConnInv' /\ TokenInv'
    BY SMT, <2>2, <2>6, <2>7, <1>3, <1>a, <1>b DEF ConnInv, TokenInv, LoopInv, LoopHolding
  <2>9. TruncatedInv'
    <3>1. SUFFICES ASSUME NEW f \in Fd, files[f] \in Truncated'
                   PROVE  \E q \in Producers :
                             pc'[q] \in {"failClear", "failClose"} /\ fd'[q] = f
      BY <2>2 DEF TruncatedInv
    <3>2. CASE files[f] = c /\ x = "partial"
      <4>1. f = fd[p]
        BY <3>2, <2>2, <1>b DEF ConnInv
      <4>2. pc'[p] = "failClear" /\ fd'[p] = f
        BY <3>2, <4>1, <2>1, <1>a DEF TypeOK, SenderTypeOK
      <4>3. QED
        BY <4>2
    <3>3. CASE files[f] \in Truncated
      <4>1. PICK q \in Producers : pc[q] \in {"failClear", "failClose"}
        BY <3>3, <1>b DEF TruncatedInv
      <4>2. QED
        BY <4>1, <2>2, <1>a DEF MutexInv, Critical
    <3>4. QED
      BY <3>1, <3>2, <3>3, <2>5
  <2>10. QED
    BY <2>5, <2>8, <2>9, <1>a DEF StreamInv
<1>4. QED
  BY <1>1, <1>2, <1>3, StreamSteps

(* On every connection the agent reads the token, then, once it has        *)
(* accepted, whole events, and at most one truncated event at the end: the *)
(* interleavings of SendEvent, the reconnecting ConnectionLoop and Stop    *)
(* never produce another stream.                                           *)
THEOREM StreamsAlwaysWellFormed == Spec => []StreamsWellFormed
<1>1. StreamInv => StreamsWellFormed
  BY DEF StreamInv
<1>2. QED
  BY <1>1, InitStreamInv, NextStreamInv, PTL DEF Spec
-----------------------------------------------------------------------------
(* The connections whose agent has accepted, as the channel sees them. *)
Accepted == {c \in Conn : peer[c] # "unused" /\ Authenticated(c)}

ChannelInv == StreamInv /\ HeldInv

(* The steps of the sender in terms of the channel's variables. *)
LEMMA AsStutter ==
    ASSUME unsent' = unsent, Held' = Held, Accepted' = Accepted, stream' = stream
    PROVE  UNCHANGED Channel!vars
BY DEF Channel!vars, Held, InHand, Accepted

(* The agent's answer is an Accept of the channel. *)
LEMMA AsAccept ==
    ASSUME NEW c \in Conn, unsent' = unsent, Held' = Held, stream' = stream,
           Accepted' = Accepted \cup {c}
    PROVE  Channel!Next
BY DEF Channel!Accept, Channel!Next, Held, InHand, Accepted

(* Writing the token is a Greet. *)
LEMMA AsGreet ==
    ASSUME NEW c \in Conn, unsent' = unsent, Held' = Held, Accepted' = Accepted,
           c \notin Accepted, stream[c] = <<>>,
           stream' = [stream EXCEPT ![c] = <<"token">>]
    PROVE  Channel!Next
<1>1. Channel!Greet(c)
  BY DEF Channel!Greet, Held, InHand, Accepted
<1> QED
  BY <1>1 DEF Channel!Next

(* Entering SendEvent is an Offer. *)
LEMMA AsOffer ==
    ASSUME NEW e \in Event, e \in unsent, unsent' = unsent \ {e},
           Held' = Held \cup {e} \/ Held' = Held,
           Accepted' = Accepted, stream' = stream
    PROVE  Channel!Next
<1>1. Channel!Offer(e)
  BY DEF Channel!Offer, Held, InHand, Accepted
<1> QED
  BY <1>1 DEF Channel!Next

(* Leaving it without a write is a Drop. *)
LEMMA AsDrop ==
    ASSUME NEW e \in Event, e \in Held, unsent' = unsent, Held' = Held \ {e},
           Accepted' = Accepted, stream' = stream
    PROVE  Channel!Next
<1>1. Channel!Drop(e)
  BY DEF Channel!Drop, Held, InHand, Accepted
<1> QED
  BY <1>1 DEF Channel!Next

(* A write, whole or in part, is a Deliver. *)
LEMMA AsDeliver ==
    ASSUME NEW e \in Event, e \in Held, NEW c \in Accepted, NEW item \in {e, "partial"},
           unsent' = unsent, Held' = Held \ {e}, ~Channel!Truncated(c),
           stream' = [stream EXCEPT ![c] = Append(@, item)], Accepted' = Accepted
    PROVE  Channel!Next
<1>1. Channel!Deliver(e, c) /\ c \in Conn
  BY DEF Channel!Deliver, Held, InHand, Accepted
<1> QED
  BY <1>1 DEF Channel!Next

(* The channel starts with nothing held or carried. *)
LEMMA InitChannel == Init => HeldInv /\ Channel!Init
BY DEF Init, SenderInit, HeldInv, InHand, Channel!Init

(* A connection that a producer is about to write to is not truncated: the *)
(* producer that truncated it still holds send_mutex_.                     *)
LEMMA WriterNotTruncated ==
    ASSUME StreamInv, NEW p \in Producers, pc[p] = "write"
    PROVE  ~Channel!Truncated(files[fd[p]])
<1>1. /\ MutexInv /\ TruncatedInv /\ stream \in [Conn -> Seq(Item)]
      /\ fd[p] \in Fd /\ files[fd[p]] \in Conn
  BY DEF StreamInv, IInv, OwnerInv, ProducerInv, Holding, OnAgent, TypeOK, SenderTypeOK,
     StreamTypeOK, Item
<1>2. files[fd[p]] \notin Truncated
  BY <1>1 DEF TruncatedInv, MutexInv, Critical
<1>3. \A s \in Seq(Item) : s # <<>> => Len(s) \in 1..Len(s)
  BY SMT
<1> QED
  BY <1>1, <1>2, <1>3 DEF Truncated, Channel!Truncated

(* SendEvent seen through the channel. *)
LEMMA SendChannel ==
    ASSUME ChannelInv, NEW p \in Producers, SendBegin(p) \/ SendStep(p)
    PROVE  HeldInv' /\ (Channel!Next \/ UNCHANGED Channel!vars)
<1>1. HeldTypes /\ HeldInv
  BY DEF ChannelInv, StreamInv, IInv, TypeOK, SenderTypeOK, HeldTypes
<1>2. Accepted' = Accepted
  BY DEF SendBegin, SendCheck, SendStep, SendRest, SendLock, WriteWhole, WriteFails,
     FailClear, FailClose, FailReset, world, Accepted, Authenticated
<1>3. CASE SendBegin(p)
  <2>1. SendCheck(p) /\ stream' = stream
    BY <1>3 DEF SendBegin, SendCheck, world
  <2>2. HeldInv' /\ \E e \in unsent : /\ unsent' = unsent \ {e}
                                      /\ Held' = Held \cup {e} \/ Held' = Held
    BY <1>1, <2>1, SendCheckHeld
  <2> QED
    BY <1>1, <1>2, <2>1, <2>2, AsOffer DEF HeldTypes
<1>4. CASE SendLock(p)
  <2>1. stream' = stream
    BY <1>4 DEF SendLock, world
  <2>2. /\ HeldInv' /\ UNCHANGED unsent
        /\ Held' = Held \/ (ev[p] \in Held /\ ev[p] \in Event /\ Held' = Held \ {ev[p]})
    BY <1>1, <1>4, SendLockHeld
  <2> QED
    BY <1>2, <2>1, <2>2, AsStutter, AsDrop
<1>5. CASE WriteWhole(p) \/ WriteFails(p)
  <2>1. /\ HeldInv' /\ UNCHANGED unsent
        /\ ev[p] \in Held /\ ev[p] \in Event /\ Held' = Held \ {ev[p]}
    BY <1>1, <1>5, WriteHeld
  <2>2. pc[p] = "write" /\ OnAgent(fd[p])
    BY <1>5 DEF WriteWhole, WriteFails, ChannelInv, StreamInv, IInv, OwnerInv,
       ProducerInv, Holding
  <2>3. CASE stream' = stream
    BY <1>2, <2>1, <2>3, AsDrop
  <2>4. CASE stream' # stream
    <3>1. PICK item \in {ev[p], "partial"} :
             /\ IsUp(fd[p])
             /\ stream' = [stream EXCEPT ![files[fd[p]]] = Append(@, item)]
      BY <1>5, <2>4 DEF WriteWhole, WriteFails
    <3>2. files[fd[p]] \in Accepted
      BY <2>2, <3>1 DEF IsUp, OnAgent, Accepted
    <3>3. ~Channel!Truncated(files[fd[p]])
      BY <2>2, WriterNotTruncated DEF ChannelInv
    <3> QED
      BY <1>2, <2>1, <3>1, <3>2, <3>3, AsDeliver
  <2> QED
    BY <2>3, <2>4
<1>6. CASE FailClear(p) \/ FailClose(p) \/ FailReset(p)
  <2>1. stream' = stream
    BY <1>6 DEF FailClear, FailClose, FailReset, world
  <2>2. HeldInv' /\ UNCHANGED unsent /\ Held' = Held
    BY <1>1, <1>6, FailHeld
  <2> QED
    BY <1>2, <2>1, <2>2, AsStutter
<1> QED
  BY <1>3, <1>4, <1>5, <1>6 DEF SendStep, SendRest

(* Everything else: only the handshake, a connect and the agent's answer   *)
(* show in the channel.                                                    *)
LEMMA OtherChannel ==
    ASSUME ChannelInv,
           \/ StartBegin \/ StopBegin \/ StopStep \/ ConnectionLoop
           \/ (\E c \in Conn : AgentReply(c)) \/ Environment
    PROVE  HeldInv' /\ (Channel!Next \/ UNCHANGED Channel!vars)
<1>1. UNCHANGED <<pc, ev, unsent>>
  BY DEF StartBegin, Start, StopBegin, StopClearRunning, StopStep, StopRest,
     StopClearConnected, StopExchange, StopClose, StopJoin, ConnectionLoop,
     LoopStepShared, LoopShared, LoopRunning, LoopConnected, LoopSocket, LoopNoSocket,
     LoopGiveUp, LoopPublishFd, LoopPublishConnected, LoopConnectStep, LoopConnect,
     LoopStatOk, LoopInsecure, LoopSendToken, LoopTokenFails, LoopAccepted, LoopRefused,
     AgentReply, Environment, SharedEnvironment, AgentClose, OtherOpen, OtherClose,
     producers
<1>2. HeldInv' /\ unsent' = unsent /\ Held' = Held
  <2>1. InHand' = InHand /\ \A q \in InHand : ev'[q] = ev[q]
    BY <1>1 DEF InHand
  <2> QED
    BY <1>1, <2>1, SameHeld DEF ChannelInv
<1>t. /\ peer \in [Conn -> {"unused", "up", "gone"}]
      /\ reply \in [Conn -> {"none", "accepted", "rejected"}]
  BY DEF ChannelInv, StreamInv, IInv, TypeOK, SenderTypeOK
<1>3. CASE LoopSendToken
  <2> DEFINE c == files[loopFd]
  <2>1. /\ loopPc = "sendToken" /\ AuthToken /\ c \in Conn /\ stream[c] = <<>>
        /\ stream' = [stream EXCEPT ![c] = Append(@, "token")]
        /\ UNCHANGED <<peer, reply>>
    BY <1>3 DEF LoopSendToken, ChannelInv, StreamInv, TokenInv, IInv, OwnerInv, LoopInv,
       LoopHolding, IsUp
  <2>2. stream' = [stream EXCEPT ![c] = <<"token">>]
    <3>1. Append(stream[c], "token") = <<"token">>
      BY SMT, <2>1
    <3> QED
      BY <2>1, <3>1
  <2>3. c \notin Accepted /\ Accepted' = Accepted
    BY <2>1 DEF Accepted, Authenticated, ChannelInv, StreamInv, TokenInv
  <2> QED
    BY <1>2, <2>1, <2>2, <2>3, AsGreet
<1>4. CASE LoopConnectStep
  <2>1. PICK c \in Conn : peer' = [peer EXCEPT ![c] = "up"]
    BY <1>4 DEF LoopConnectStep, LoopConnect
  <2>2. stream' = stream /\ reply' = reply
    BY <1>4 DEF LoopConnectStep, LoopConnect
  <2>3. Accepted' = Accepted \/ Accepted' = Accepted \cup {c}
    BY <1>t, <2>1, <2>2 DEF Accepted, Authenticated
  <2> QED
    BY <1>2, <2>2, <2>3, AsStutter, AsAccept
<1>5. ASSUME NEW c \in Conn, AgentReply(c) PROVE Channel!Next \/ UNCHANGED Channel!vars
  <2>1. PICK r \in {"accepted", "rejected"} : reply' = [reply EXCEPT ![c] = r]
    BY <1>5 DEF AgentReply
  <2>2. stream' = stream /\ peer' = peer /\ reply[c] = "none" /\ AuthToken
    BY <1>5 DEF AgentReply, world
  <2>3. Accepted' = Accepted \/ Accepted' = Accepted \cup {c}
    BY <1>t, <2>1, <2>2 DEF Accepted, Authenticated
  <2> QED
    BY <1>2, <2>2, <2>3, AsStutter, AsAccept
<1>6. ASSUME NEW c \in Conn, AgentClose(c), UNCHANGED reply
      PROVE  Channel!Next \/ UNCHANGED Channel!vars
  <2>1. stream' = stream /\ Accepted' = Accepted
    BY <1>t, <1>6 DEF AgentClose, Accepted, Authenticated
  <2> QED
    BY <1>2, <2>1, AsStutter
<1>7. ASSUME UNCHANGED <<stream, peer, reply>>
      PROVE  Channel!Next \/ UNCHANGED Channel!vars
  <2>1. Accepted' = Accepted
    BY <1>7 DEF Accepted, Authenticated
  <2> QED
    BY <1>2, <1>7, <2>1, AsStutter
<1>8. \/ LoopSendToken \/ LoopConnectStep \/ (\E c \in Conn : AgentReply(c))
      \/ (\E c \in Conn : AgentClose(c) /\ UNCHANGED reply)
      \/ UNCHANGED <<stream, peer, reply>>
  BY DEF StartBegin, Start, StopBegin, StopClearRunning, StopStep, StopRest,
     StopClearConnected, StopExchange, StopClose, StopJoin, ConnectionLoop,
     LoopStepShared, LoopShared, LoopRunning, LoopConnected, LoopSocket, LoopNoSocket,
     LoopGiveUp, LoopPublishFd, LoopPublishConnected,
     LoopStatOk, LoopInsecure, LoopTokenFails, LoopAccepted, LoopRefused,
     Environment, SharedEnvironment, OtherOpen, OtherClose, world
<1> QED
  BY <1>2, <1>3, <1>4, <1>5, <1>6, <1>7, <1>8

(* Every step of the sender is a step of the channel, or none. *)
LEMMA NextChannel == ChannelInv /\ [Next]_vars => ChannelInv' /\ [Channel!Next]_(Channel!vars)
<1> SUFFICES ASSUME ChannelInv, [Next]_vars
             PROVE  ChannelInv' /\ [Channel!Next]_(Channel!vars)
  OBVIOUS
<1>1. StreamInv'
  BY NextStreamInv DEF ChannelInv
<1>2. CASE Next
  <2>1. HeldInv' /\ (Channel!Next \/ UNCHANGED Channel!vars)
    BY <1>2, SendChannel, OtherChannel DEF Next
  <2> QED
    BY <1>1, <2>1 DEF ChannelInv
<1>3. CASE UNCHANGED vars
  <2>1. UNCHANGED <<pc, ev, unsent, peer, reply, stream>>
    BY <1>3 DEF vars, producers, world
  <2>2. InHand' = InHand /\ Accepted' = Accepted
    BY <2>1 DEF InHand, Accepted, Authenticated
  <2>3. HeldInv' /\ Held' = Held
    BY <2>1, <2>2, SameHeld DEF ChannelInv
  <2> QED
    BY <1>1, <2>1, <2>2, <2>3, AsStutter DEF ChannelInv
<1> QED
  BY <1>2, <1>3

(* LinuxTelemetrySender implements DeliveryChannel: whatever the threads,  *)
(* reconnects and stops, an event is written at most once, whole or as the *)
(* last thing on its connection, to an agent that has accepted, and is     *)
(* never kept for a later connection.                                      *)
THEOREM SenderImplementsChannel == Spec => ImplementsChannel
<1>1. Init => ChannelInv /\ Channel!Init
  BY InitStreamInv, InitChannel DEF ChannelInv
<1> QED
  BY <1>1, NextChannel, PTL DEF Spec, ImplementsChannel, Channel!Spec
=============================================================================

-------------------------- MODULE TtySenderProofs --------------------------
(***************************************************************************)
(* Proofs about TtySender, for any number of producers, descriptors,       *)
(* connections and events, with Stop overlapping SendTtyEvent: what holds  *)
(* until Stop is first called (OwnerInv), and what Stop cannot break       *)
(* either (StreamInv).                                                     *)
(***************************************************************************)
EXTENDS TtySender, SocketSenderProofs, SequenceTheorems, TLAPS

(* Most leaves are first-order; those with arithmetic cite SMT. *)
USE Zenon

LoopHolding == {"connect", "publishFd"}

Types ==
    /\ socket_fd_ \in Fd \cup {NoFd}
    /\ pc \in [Producers -> ProducerStep]
    /\ fd \in [Producers -> Fd \cup {NoFd}]
    /\ ev \in [Producers -> Event \cup {NoEvent}]
    /\ unsent \subseteq Event
    /\ loopFd \in Fd \cup {NoFd} /\ ctlFd \in Fd \cup {NoFd}
    /\ files \in [Fd -> FileKind \cup Conn]
    /\ peer \in [Conn -> {"unused", "up", "gone"}]

(* A producer in its critical section is the holder of send_mutex_, and    *)
(* has a descriptor number.                                                *)
MutexInv ==
    \A p \in Producers : /\ pc[p] \in Critical <=> send_mutex_ = p
                         /\ pc[p] \in Holding => fd[p] \in Fd

(* Until Stop is called every descriptor held names what it named when it  *)
(* was stored, except socket_fd_ while a failing SendTtyEvent resets it.   *)
OwnerInv ==
    ~stopped =>
        /\ ctlPc = "idle"
        /\ \A p \in Producers : pc[p] \in Holding => files[fd[p]] \in Conn
        /\ socket_fd_ # NoFd => files[socket_fd_] \in Conn \/ Resetting
        /\ loopPc \in LoopHolding =>
              /\ loopFd \in Fd
              /\ loopFd # socket_fd_ \/ Resetting
              /\ \A p \in Producers : pc[p] \in Holding => fd[p] # loopFd
              /\ loopPc = "connect" => files[loopFd] = "socket"
              /\ loopPc = "publishFd" => files[loopFd] \in Conn

(* What holds of the streams, whatever Stop does. *)
StreamInv == StreamTypeOK /\ ConnInv /\ TruncatedInv /\ TruncatedEventIsLast

IInv == Types /\ MutexInv /\ OwnerInv /\ StreamInv /\ HeldInv
-----------------------------------------------------------------------------
(* No descriptor is open yet. *)
LEMMA InitOwner == Init => Types /\ MutexInv /\ OwnerInv
BY SMT, SenderAssumption DEF Init, SenderInit, Types, MutexInv, OwnerInv, Critical, Holding,
   LoopHolding, ProducerStep, FileKind

(* Every step keeps the descriptors in their owners' hands until Stop is   *)
(* called.                                                                 *)
LEMMA NextOwner ==
    ASSUME Types, MutexInv, OwnerInv, [Next]_vars
    PROVE  Types' /\ MutexInv' /\ OwnerInv'
<1> DEFINE Goal == Types' /\ MutexInv' /\ OwnerInv'
<1> USE SenderAssumption DEF Types, FileKind, ProducerStep, MutexInv, OwnerInv, Critical,
        Holding, LoopHolding, Resetting, atomics, producers, loop, control, world
<1>1. CASE TtyStart
  BY <1>1 DEF TtyStart, Start
<1>2. CASE TtyStopBegin
  BY <1>2 DEF TtyStopBegin, StopClearRunning
<1>3. CASE TtyStopRest
  <2>1. ctlPc # "idle" /\ stopped /\ stopped'
    BY <1>3 DEF TtyStopRest, StopRest, StopClearConnected, StopExchange, StopClose, StopJoin
  <2>2. UNCHANGED <<pc, fd, ev, unsent, send_mutex_, peer, loopFd>>
    BY <1>3 DEF TtyStopRest, StopRest, StopClearConnected, StopExchange, StopClose, StopJoin
  <2>3. /\ socket_fd_' \in {socket_fd_, NoFd} /\ ctlFd' \in {ctlFd, socket_fd_, NoFd}
        /\ files' = files \/ files' = [files EXCEPT ![ctlFd] = "closed"]
    BY <1>3 DEF TtyStopRest, StopRest, StopClearConnected, StopExchange, StopClose, StopJoin
  <2> QED
    BY <2>1, <2>2, <2>3
<1>4. ASSUME NEW p \in Producers, SendTtyEventBegin(p) PROVE Goal
  <2>1. PICK e \in unsent : /\ unsent' = unsent \ {e}
                           /\ \/ UNCHANGED <<pc, ev>>
                              \/ /\ pc' = [pc EXCEPT ![p] = "lock"]
                                 /\ ev' = [ev EXCEPT ![p] = e]
    BY <1>4 DEF SendTtyEventBegin, SendCheck
  <2>2. pc[p] = "idle" /\ UNCHANGED <<atomics, send_mutex_, fd, loop, control, world, stopped>>
    BY <1>4 DEF SendTtyEventBegin, SendCheck
  <2>3. \A q \in Producers : pc'[q] = pc[q] \/ (pc[q] = "idle" /\ pc'[q] = "lock")
    BY <2>1, <2>2
  <2>4. Types' /\ MutexInv'
    BY SMT, <2>1, <2>2, <2>3
  <2> QED
    BY <2>2, <2>3, <2>4
<1>5. ASSUME NEW p \in Producers, SendTtyEvent(p) PROVE Goal
  <2> USE DEF SendTtyEvent, Return
  <2>1. CASE SendLock(p)
    <3>1. CASE socket_fd_ = NoFd
      BY SMT, <3>1, <2>1, <1>5 DEF SendLock
    <3>2. CASE socket_fd_ # NoFd
      <4>1. ~Resetting /\ socket_fd_ \in Fd
        BY <3>2, <2>1 DEF SendLock
      <4>2. Types' /\ MutexInv'
        BY SMT, <4>1, <3>2, <2>1, <1>5 DEF SendLock
      <4>3. OwnerInv'
        BY SMT, <4>1, <3>2, <2>1, <1>5 DEF SendLock
      <4> QED
        BY <4>2, <4>3
    <3> QED
      BY <3>1, <3>2
  <2>2. CASE WriteWhole(p)
    BY SMT, <2>2, <1>5 DEF WriteWhole
  <2>3. CASE WriteFails(p)
    BY <2>3, <1>5 DEF WriteFails
  <2>4. CASE FailClear(p)
    BY SMT, <2>4, <1>5 DEF FailClear
  <2>5. CASE FailClose(p)
    BY <2>5, <1>5 DEF FailClose
  <2>6. CASE FailReset(p)
    BY SMT, <2>6, <1>5 DEF FailReset
  <2> QED
    BY <1>5, <2>1, <2>2, <2>3, <2>4, <2>5, <2>6 DEF SendRest
<1>6. CASE TtyConnectionLoop
  <2> USE DEF TtyConnectionLoop
  <2>1. CASE LoopRunning \/ LoopConnected \/ LoopNoSocket
    BY <1>6, <2>1 DEF LoopRunning, LoopConnected, LoopNoSocket
  <2>2. CASE LoopSocket
    BY SMT, <1>6, <2>2 DEF LoopSocket
  <2>3. CASE LoopPublishFd \/ LoopPublishConnected
    BY <1>6, <2>3 DEF LoopPublishFd, LoopPublishConnected
  <2>4. CASE LoopGiveUp("connect")
    BY <1>6, <2>4 DEF LoopGiveUp
  <2>5. CASE LoopConnect("publishFd")
    <3>1. PICK c \in Conn : /\ peer' = [peer EXCEPT ![c] = "up"]
                           /\ files' = [files EXCEPT ![loopFd] = c]
      BY <2>5 DEF LoopConnect
    <3>2. /\ loopPc = "connect" /\ loopPc' = "publishFd"
          /\ UNCHANGED <<atomics, producers, loopFd, control, stopped>>
      BY <1>6, <2>5 DEF LoopConnect
    <3>3. \A f \in Fd : files'[f] = files[f] \/ (f = loopFd /\ files'[f] = c)
      BY <3>1
    <3>4. Types' /\ MutexInv'
      BY <3>1, <3>2
    <3> QED
      BY SMT, <3>1, <3>2, <3>3, <3>4
  <2> QED
    BY <1>6, <2>1, <2>2, <2>3, <2>4, <2>5 DEF LoopShared
<1>7. CASE TtyEnvironment
  <2> USE DEF TtyEnvironment
  <2>1. ASSUME NEW c \in Conn, AgentClose(c) PROVE Goal
    BY <1>7, <2>1 DEF AgentClose
  <2>2. ASSUME NEW f \in Fd, OtherOpen(f) PROVE Goal
    BY <1>7, <2>2 DEF OtherOpen
  <2>3. ASSUME NEW f \in Fd, OtherClose(f) PROVE Goal
    BY <1>7, <2>3 DEF OtherClose
  <2> QED
    BY <1>7, <2>1, <2>2, <2>3 DEF SharedEnvironment
<1>8. CASE UNCHANGED vars
  BY <1>8 DEF vars
<1> QED
  BY <1>1, <1>2, <1>3, <1>4, <1>5, <1>6, <1>7, <1>8 DEF Next
-----------------------------------------------------------------------------
(* Nothing has been carried yet. *)
LEMMA InitStream == Init => StreamInv /\ HeldInv
<1> SUFFICES ASSUME Init PROVE StreamInv /\ HeldInv
  OBVIOUS
<1>1. \A c \in Conn : stream[c] = <<>> /\ Len(stream[c]) = 0
  BY DEF Init, SenderInit
<1>2. StreamTypeOK
  <2>1. <<>> \in Seq(Event \cup {"token", "partial"})
    BY SMT
  <2>2. stream = [c \in Conn |-> <<>>]
    BY DEF Init, SenderInit
  <2> QED
    BY <2>1, <2>2 DEF StreamTypeOK
<1>3. ConnInv /\ TruncatedInv /\ TruncatedEventIsLast
  BY SMT, <1>1, SenderAssumption DEF Init, SenderInit, ConnInv, TruncatedInv, Truncated,
     TruncatedEventIsLast, FileKind
<1>4. HeldInv
  BY DEF Init, SenderInit, HeldInv, InHand
<1> QED
  BY <1>2, <1>3, <1>4 DEF StreamInv

(* A step that writes to a connection. *)
LEMMA StreamSteps ==
    ASSUME [Next]_vars, stream' # stream
    PROVE  \E p \in Producers : (WriteWhole(p) \/ WriteFails(p)) /\ UNCHANGED stopped
BY DEF Next, vars, TtyStart, Start, TtyStopBegin, StopClearRunning, TtyStopRest,
   StopRest, StopClearConnected, StopExchange, StopClose, StopJoin, SendTtyEventBegin,
   SendCheck, SendTtyEvent, SendRest, SendLock, FailClear, FailClose, FailReset,
   TtyConnectionLoop, LoopShared, LoopRunning, LoopConnected, LoopSocket, LoopNoSocket,
   LoopGiveUp, LoopPublishFd, LoopPublishConnected, LoopConnect, TtyEnvironment,
   SharedEnvironment, AgentClose, OtherOpen, OtherClose, world

(* Steps that write nothing to a connection. *)
LEMMA SilentStream ==
    ASSUME Types, MutexInv, StreamInv, [Next]_vars, UNCHANGED stream
    PROVE  StreamInv'
<1> DEFINE Goal == ConnInv' /\ TruncatedInv'
<1>a. Truncated' = Truncated /\ Truncated \subseteq Conn
  BY DEF Truncated
<1>b. ConnInv /\ TruncatedInv
  BY DEF StreamInv
<1> SUFFICES Goal
  BY DEF StreamInv, StreamTypeOK, TruncatedEventIsLast
<1> USE SenderAssumption, <1>a, <1>b DEF Types, FileKind, ConnInv, TruncatedInv,
        atomics, producers, loop, control, world
<1>1. CASE TtyStart \/ TtyStopBegin
  BY SMT, <1>1 DEF TtyStart, Start, TtyStopBegin, StopClearRunning
<1>2. CASE TtyStopRest
  <2>1. /\ UNCHANGED <<pc, fd, peer>>
        /\ files' = files \/ files' = [files EXCEPT ![ctlFd] = "closed"]
    BY <1>2 DEF TtyStopRest, StopRest, StopClearConnected, StopExchange, StopClose, StopJoin
  <2> QED
    BY SMT, <2>1
<1>3. ASSUME NEW p \in Producers, SendTtyEventBegin(p) PROVE Goal
  BY SMT, <1>3 DEF SendTtyEventBegin, SendCheck
<1>4. ASSUME NEW p \in Producers, SendTtyEvent(p) PROVE Goal
  <2> USE DEF SendTtyEvent, Return
  <2>1. CASE SendLock(p)
    BY SMT, <2>1, <1>4 DEF SendLock
  <2>2. CASE WriteWhole(p) \/ FailReset(p)
    <3>1. /\ pc[p] \in {"write", "failReset"}
          /\ pc' = [pc EXCEPT ![p] = "idle"] /\ fd' = [fd EXCEPT ![p] = NoFd]
          /\ UNCHANGED <<files, peer>>
      BY <2>2, <1>4 DEF WriteWhole, FailReset
    <3>2. ASSUME NEW q \in Producers, pc[q] \in {"failClear", "failClose"}
          PROVE  pc'[q] = pc[q] /\ fd'[q] = fd[q]
      BY SMT, <3>1, <3>2
    <3> QED
      BY <3>1, <3>2
  <2>3. CASE FailClear(p)
    BY <2>3, <1>4 DEF FailClear
  <2>4. CASE FailClose(p)
    BY SMT, <2>4, <1>4 DEF FailClose, MutexInv, Critical, Holding
  <2>5. CASE WriteFails(p)
    <3>1. /\ pc[p] = "write" /\ pc' = [pc EXCEPT ![p] = "failClear"]
          /\ UNCHANGED <<fd, files, peer>>
      BY <2>5, <1>4 DEF WriteFails
    <3> QED
      BY <3>1
  <2> QED
    BY ZenonT(30), <1>4, <2>1, <2>2, <2>3, <2>4, <2>5 DEF SendRest
<1>5. CASE TtyConnectionLoop
  <2> USE DEF TtyConnectionLoop
  <2>1. CASE LoopRunning \/ LoopConnected \/ LoopNoSocket
    BY SMT, <1>5, <2>1 DEF LoopRunning, LoopConnected, LoopNoSocket
  <2>2. CASE LoopSocket
    BY SMT, <1>5, <2>2 DEF LoopSocket
  <2>3. CASE LoopPublishFd \/ LoopPublishConnected
    BY SMT, <1>5, <2>3 DEF LoopPublishFd, LoopPublishConnected
  <2>4. CASE LoopGiveUp("connect")
    BY SMT, <1>5, <2>4 DEF LoopGiveUp
  <2>5. CASE LoopConnect("publishFd")
    <3>1. PICK c \in Conn : /\ peer[c] = "unused"
                           /\ peer' = [peer EXCEPT ![c] = "up"]
                           /\ files' = [files EXCEPT ![loopFd] = c]
      BY <2>5 DEF LoopConnect
    <3>2. stream[c] = <<>> /\ c \notin Truncated /\ \A f \in Fd : files[f] # c
      BY SMT, <3>1 DEF Truncated
    <3>3. UNCHANGED <<pc, fd>>
      BY <2>5 DEF LoopConnect
    <3>4. ConnInv'
      BY SMT, <3>1, <3>2, <3>3
    <3>5. TruncatedInv'
      BY SMT, <3>1, <3>2, <3>3
    <3> QED
      BY <3>4, <3>5
  <2> QED
    BY ZenonT(30), <1>5, <2>1, <2>2, <2>3, <2>4, <2>5 DEF LoopShared
<1>6. CASE TtyEnvironment
  <2> USE DEF TtyEnvironment
  <2>1. ASSUME NEW c \in Conn, AgentClose(c) PROVE Goal
    BY SMT, <1>6, <2>1 DEF AgentClose
  <2>2. ASSUME NEW f \in Fd, OtherOpen(f) PROVE Goal
    BY SMT, <1>6, <2>2 DEF OtherOpen
  <2>3. ASSUME NEW f \in Fd, OtherClose(f) PROVE Goal
    BY SMT, <1>6, <2>3 DEF OtherClose
  <2> QED
    BY ZenonT(30), <1>6, <2>1, <2>2, <2>3 DEF SharedEnvironment
<1>7. CASE UNCHANGED vars
  BY <1>7 DEF vars
<1> QED
  BY <1>1, <1>2, <1>3, <1>4, <1>5, <1>6, <1>7 DEF Next

(* A connection that a producer is about to write to is not truncated: the *)
(* producer that truncated it still holds send_mutex_ and its descriptor.  *)
LEMMA WriterNotTruncated ==
    ASSUME MutexInv, StreamInv, NEW p \in Producers, pc[p] = "write"
    PROVE  fd[p] \in Fd /\ files[fd[p]] \notin Truncated
<1>1. fd[p] \in Fd /\ TruncatedInv
  BY DEF MutexInv, Holding, StreamInv
<1> QED
  BY <1>1 DEF TruncatedInv, MutexInv, Critical

(* One item written to a connection that is not truncated. *)
LEMMA WriteItem ==
    ASSUME StreamTypeOK, TruncatedEventIsLast, NEW c \in Conn, c \notin Truncated,
           NEW x \in Item, stream' = [stream EXCEPT ![c] = Append(@, x)]
    PROVE  /\ StreamTypeOK' /\ TruncatedEventIsLast'
           /\ Truncated' = Truncated \cup (IF x = "partial" THEN {c} ELSE {})
           /\ \A d \in Conn \ {c} : stream'[d] = stream[d]
<1>1. stream \in [Conn -> Seq(Item)]
  BY DEF StreamTypeOK, Item
<1>2. /\ stream'[c] = Append(stream[c], x)
      /\ \A d \in Conn \ {c} : stream'[d] = stream[d]
  BY <1>1
<1>3. /\ Len(stream[c]) \in Nat /\ Len(stream'[c]) = Len(stream[c]) + 1
      /\ \A i \in 1..Len(stream[c]) : stream'[c][i] = stream[c][i]
      /\ stream'[c][Len(stream[c]) + 1] = x
  BY SMT, <1>1, <1>2, AppendItem
<1>4. StreamTypeOK'
  <2>1. \A s \in Seq(Item) : Append(s, x) \in Seq(Item)
    BY SMT
  <2>2. Append(stream[c], x) \in Seq(Item)
    BY <1>1, <2>1
  <2>3. stream' \in [Conn -> Seq(Item)]
    BY <1>1, <2>2
  <2> QED
    BY <2>3 DEF StreamTypeOK, Item
<1>5. \A i \in 1..Len(stream[c]) : stream[c][i] # "partial"
  BY DEF Truncated
<1>6. TruncatedEventIsLast'
  BY SMT, <1>2, <1>3, <1>5 DEF TruncatedEventIsLast
<1>7. ASSUME NEW d \in Conn
      PROVE  d \in Truncated' <=> d \in Truncated \/ (d = c /\ x = "partial")
  <2>1. CASE d = c
    BY SMT, <2>1, <1>3 DEF Truncated
  <2>2. CASE d # c
    BY <2>2, <1>2 DEF Truncated
  <2> QED
    BY <2>1, <2>2
<1>8. Truncated \subseteq Conn /\ Truncated' \subseteq Conn
  BY DEF Truncated
<1> QED
  BY <1>2, <1>4, <1>6, <1>7, <1>8

(* A write: only the descriptor of the writer can name what it truncates. *)
LEMMA WriteStream ==
    ASSUME Types, MutexInv, StreamInv, HeldInv, NEW p \in Producers,
           WriteWhole(p) \/ WriteFails(p), stream' # stream
    PROVE  StreamInv'
<1> DEFINE c == files[fd[p]]
<1>1. PICK x \in {ev[p], "partial"} :
         /\ stream' = [stream EXCEPT ![c] = Append(@, x)] /\ IsUp(fd[p])
         /\ x = "partial" => pc' = [pc EXCEPT ![p] = "failClear"] /\ UNCHANGED fd
  <2>1. CASE WriteWhole(p)
    <3>1. ev[p] # "partial"
      BY <2>1, SenderAssumption DEF WriteWhole, HeldInv, InHand
    <3> QED
      BY <2>1, <3>1 DEF WriteWhole
  <2>2. CASE WriteFails(p)
    BY <2>2 DEF WriteFails
  <2> QED
    BY <2>1, <2>2
<1>2. /\ pc[p] = "write" /\ UNCHANGED <<files, peer>> /\ c \in Conn /\ peer[c] = "up"
  BY <1>1 DEF WriteWhole, WriteFails, IsUp
<1>3. x \in Item
  BY <1>2 DEF HeldInv, InHand, Item
<1>4. fd[p] \in Fd /\ c \notin Truncated
  BY <1>2, WriterNotTruncated
<1> HIDE DEF c
<1>5. /\ StreamTypeOK' /\ TruncatedEventIsLast'
      /\ Truncated' = Truncated \cup (IF x = "partial" THEN {c} ELSE {})
      /\ \A d \in Conn \ {c} : stream'[d] = stream[d]
  BY <1>1, <1>2, <1>3, <1>4, WriteItem DEF StreamInv
<1>6. ConnInv'
  BY <1>2, <1>5 DEF StreamInv, ConnInv
<1>7. TruncatedInv'
  <2>1. SUFFICES ASSUME NEW f \in Fd, files[f] \in Truncated'
                 PROVE  \E q \in Producers :
                           pc'[q] \in {"failClear", "failClose"} /\ fd'[q] = f
    BY <1>2 DEF TruncatedInv
  <2>2. files[f] \notin Truncated
    BY <1>2 DEF StreamInv, TruncatedInv, MutexInv, Critical
  <2>3. files[f] = c /\ x = "partial"
    BY <1>5, <2>1, <2>2
  <2>4. f = fd[p]
    BY <1>2, <1>4, <2>3 DEF StreamInv, ConnInv, c
  <2>5. pc'[p] = "failClear" /\ fd'[p] = f
    BY <1>1, <2>3, <2>4 DEF Types
  <2> QED
    BY <2>5
<1> QED
  BY <1>5, <1>6, <1>7 DEF StreamInv
-----------------------------------------------------------------------------
(* Every connection counts as accepted. *)
Accepted == {c \in Conn : peer[c] # "unused"}

(* The steps of the sender in terms of the channel's variables. *)
LEMMA AsStutter ==
    ASSUME unsent' = unsent, Held' = Held, Accepted' = Accepted, stream' = stream
    PROVE  UNCHANGED Channel!vars
BY DEF Channel!vars, Held, InHand, Accepted

(* The agent's answer is an Accept of the channel. *)
LEMMA AsAccept ==
    ASSUME NEW c \in Conn, unsent' = unsent, Held' = Held, stream' = stream,
           Accepted' = Accepted \cup {c}
    PROVE  Channel!Next
BY DEF Channel!Accept, Channel!Next, Held, InHand, Accepted

(* Entering SendEvent is an Offer. *)
LEMMA AsOffer ==
    ASSUME NEW e \in Event, e \in unsent, unsent' = unsent \ {e},
           Held' = Held \cup {e} \/ Held' = Held,
           Accepted' = Accepted, stream' = stream
    PROVE  Channel!Next
<1>1. Channel!Offer(e)
  BY DEF Channel!Offer, Held, InHand, Accepted
<1> QED
  BY <1>1 DEF Channel!Next

(* Leaving it without a write is a Drop. *)
LEMMA AsDrop ==
    ASSUME NEW e \in Event, e \in Held, unsent' = unsent, Held' = Held \ {e},
           Accepted' = Accepted, stream' = stream
    PROVE  Channel!Next
<1>1. Channel!Drop(e)
  BY DEF Channel!Drop, Held, InHand, Accepted
<1> QED
  BY <1>1 DEF Channel!Next

(* A write, whole or in part, is a Deliver. *)
LEMMA AsDeliver ==
    ASSUME NEW e \in Event, e \in Held, NEW c \in Accepted, NEW item \in {e, "partial"},
           unsent' = unsent, Held' = Held \ {e}, ~Channel!Truncated(c),
           stream' = [stream EXCEPT ![c] = Append(@, item)], Accepted' = Accepted
    PROVE  Channel!Next
<1>1. Channel!Deliver(e, c) /\ c \in Conn
  BY DEF Channel!Deliver, Held, InHand, Accepted
<1> QED
  BY <1>1 DEF Channel!Next

(* The channel starts with nothing held or carried. *)
LEMMA InitChannel == Init => Channel!Init
BY DEF Init, SenderInit, Channel!Init

(* SendTtyEvent seen through the channel.  A write that finds a reused     *)
(* number drops the event, as far as the reader of the socket can tell.    *)
LEMMA SendChannel ==
    ASSUME IInv, NEW p \in Producers, SendTtyEventBegin(p) \/ SendTtyEvent(p)
    PROVE  HeldInv' /\ (Channel!Next \/ UNCHANGED Channel!vars)
<1>1. HeldTypes /\ HeldInv
  BY DEF IInv, Types, HeldTypes
<1>2. Accepted' = Accepted
  BY DEF SendTtyEventBegin, SendCheck, SendTtyEvent, SendRest, SendLock, WriteWhole,
     WriteFails, FailClear, FailClose, FailReset, world, Accepted
<1>3. CASE SendTtyEventBegin(p)
  <2>1. SendCheck(p) /\ stream' = stream
    BY <1>3 DEF SendTtyEventBegin, SendCheck, world
  <2>2. HeldInv' /\ \E e \in unsent : /\ unsent' = unsent \ {e}
                                      /\ Held' = Held \cup {e} \/ Held' = Held
    BY <1>1, <2>1, SendCheckHeld
  <2> QED
    BY <1>1, <1>2, <2>1, <2>2, AsOffer DEF HeldTypes
<1>4. CASE SendLock(p)
  <2>1. stream' = stream
    BY <1>4 DEF SendLock, world
  <2>2. /\ HeldInv' /\ UNCHANGED unsent
        /\ Held' = Held \/ (ev[p] \in Held /\ ev[p] \in Event /\ Held' = Held \ {ev[p]})
    BY <1>1, <1>4, SendLockHeld
  <2> QED
    BY <1>2, <2>1, <2>2, AsStutter, AsDrop
<1>5. CASE WriteWhole(p) \/ WriteFails(p)
  <2>1. /\ HeldInv' /\ UNCHANGED unsent
        /\ ev[p] \in Held /\ ev[p] \in Event /\ Held' = Held \ {ev[p]}
    BY <1>1, <1>5, WriteHeld
  <2>2. CASE stream' = stream
    BY <1>2, <2>1, <2>2, AsDrop
  <2>3. CASE stream' # stream
    <3>1. PICK item \in {ev[p], "partial"} :
             /\ IsUp(fd[p])
             /\ stream' = [stream EXCEPT ![files[fd[p]]] = Append(@, item)]
      BY <1>5, <2>3 DEF WriteWhole, WriteFails
    <3>2. files[fd[p]] \in Accepted
      BY <3>1 DEF IsUp, Accepted
    <3>3. ~Channel!Truncated(files[fd[p]])
      <4>1. files[fd[p]] \in Conn \ Truncated /\ stream \in [Conn -> Seq(Item)]
        BY <1>5, <3>1, WriterNotTruncated DEF WriteWhole, WriteFails, IsUp, IInv,
           StreamInv, StreamTypeOK, Item
      <4>2. \A s \in Seq(Item) : s # <<>> => Len(s) \in 1..Len(s)
        BY SMT
      <4> QED
        BY <4>1, <4>2 DEF Truncated, Channel!Truncated
    <3> QED
      BY <1>2, <2>1, <3>1, <3>2, <3>3, AsDeliver
  <2> QED
    BY <2>2, <2>3
<1>6. CASE FailClear(p) \/ FailClose(p) \/ FailReset(p)
  <2>1. stream' = stream
    BY <1>6 DEF FailClear, FailClose, FailReset, world
  <2>2. HeldInv' /\ UNCHANGED unsent /\ Held' = Held
    BY <1>1, <1>6, FailHeld
  <2> QED
    BY <1>2, <2>1, <2>2, AsStutter
<1> QED
  BY <1>3, <1>4, <1>5, <1>6 DEF SendTtyEvent, SendRest

(* Of everything else only a connect shows in the channel. *)
LEMMA OtherChannel ==
    ASSUME IInv,
           \/ TtyStart \/ TtyStopBegin \/ TtyStopRest \/ TtyConnectionLoop
           \/ TtyEnvironment \/ UNCHANGED vars
    PROVE  HeldInv' /\ (Channel!Next \/ UNCHANGED Channel!vars)
<1>1. UNCHANGED <<pc, ev, unsent, stream>>
  BY DEF TtyStart, Start, TtyStopBegin, StopClearRunning, TtyStopRest, StopRest,
     StopClearConnected, StopExchange, StopClose, StopJoin, TtyConnectionLoop,
     LoopShared, LoopRunning, LoopConnected, LoopSocket, LoopNoSocket, LoopGiveUp,
     LoopPublishFd, LoopPublishConnected, LoopConnect, TtyEnvironment,
     SharedEnvironment, AgentClose, OtherOpen, OtherClose, producers, world, vars
<1>2. HeldInv' /\ Held' = Held
  <2>1. InHand' = InHand /\ \A q \in InHand : ev'[q] = ev[q]
    BY <1>1 DEF InHand
  <2> QED
    BY <1>1, <2>1, SameHeld DEF IInv
<1>3. peer \in [Conn -> {"unused", "up", "gone"}]
  BY DEF IInv, Types
<1>4. \/ \E c \in Conn : peer' = [peer EXCEPT ![c] = "up"]
      \/ \E c \in Conn : peer[c] = "up" /\ peer' = [peer EXCEPT ![c] = "gone"]
      \/ peer' = peer
  BY DEF TtyStart, Start, TtyStopBegin, StopClearRunning, TtyStopRest, StopRest,
     StopClearConnected, StopExchange, StopClose, StopJoin, TtyConnectionLoop,
     LoopShared, LoopRunning, LoopConnected, LoopSocket, LoopNoSocket, LoopGiveUp,
     LoopPublishFd, LoopPublishConnected, LoopConnect, TtyEnvironment,
     SharedEnvironment, AgentClose, OtherOpen, OtherClose, world, vars
<1>5. Accepted' = Accepted \/ \E c \in Conn : Accepted' = Accepted \cup {c}
  <2>1. ASSUME NEW c \in Conn, peer' = [peer EXCEPT ![c] = "up"]
        PROVE  Accepted' = Accepted \cup {c}
    BY <1>3, <2>1 DEF Accepted
  <2>2. ASSUME NEW c \in Conn, peer[c] = "up", peer' = [peer EXCEPT ![c] = "gone"]
        PROVE  Accepted' = Accepted
    BY <1>3, <2>2 DEF Accepted
  <2>3. ASSUME peer' = peer PROVE Accepted' = Accepted
    BY <2>3 DEF Accepted
  <2> QED
    BY <1>4, <2>1, <2>2, <2>3
<1> QED
  BY <1>1, <1>2, <1>5, AsStutter, AsAccept

(* The parts of the invariant hold at first. *)
LEMMA InitIInv == Init => IInv
BY InitOwner, InitStream DEF IInv

(* Every step keeps the invariant and is a step of the channel, or none. *)
LEMMA NextIInv == IInv /\ [Next]_vars => IInv' /\ [Channel!Next]_(Channel!vars)
<1> SUFFICES ASSUME IInv, [Next]_vars PROVE IInv' /\ [Channel!Next]_(Channel!vars)
  OBVIOUS
<1>1. Types' /\ MutexInv' /\ OwnerInv'
  BY NextOwner DEF IInv
<1>2. StreamInv'
  BY StreamSteps, SilentStream, WriteStream DEF IInv
<1>3. HeldInv' /\ (Channel!Next \/ UNCHANGED Channel!vars)
  BY SendChannel, OtherChannel DEF Next
<1> QED
  BY <1>1, <1>2, <1>3 DEF IInv
-----------------------------------------------------------------------------
(* Until Stop is called, SendTtyEvent writes to and closes nothing but     *)
(* connections of the TTY socket, and ConnectionLoop its own socket.       *)
THEOREM OnlyStopEverStrands == Spec => []OnlyStopStrandsDescriptors
<1>1. IInv => OnlyStopStrandsDescriptors
  BY DEF IInv, OwnerInv, Holding, LoopHolding, OnlyStopStrandsDescriptors
<1> QED
  BY <1>1, InitIInv, NextIInv, PTL DEF Spec

(* Nothing follows a truncated event on its connection, even when Stop     *)
(* takes the descriptor away from the SendTtyEvent that is handling it.    *)
THEOREM TruncatedEventAlwaysLast == Spec => []TruncatedEventIsLast
<1>1. IInv => TruncatedEventIsLast
  BY DEF IInv, StreamInv
<1> QED
  BY <1>1, InitIInv, NextIInv, PTL DEF Spec

(* LinuxTtyTelemetrySender implements DeliveryChannel although its Stop    *)
(* does not take send_mutex_: no event twice, none after a truncated one,  *)
(* none kept for the next connection.                                      *)
THEOREM TtySenderImplementsChannel == Spec => TtyImplementsChannel
BY InitIInv, InitChannel, NextIInv, PTL DEF Spec, TtyImplementsChannel, Channel!Spec
=============================================================================

-------------------------- MODULE TelemetrySender --------------------------
(***************************************************************************)
(* LinuxTelemetrySender (linux_ipc.cpp) as the engine drives it: the       *)
(* permission check and the token handshake of ConnectionLoop, and the     *)
(* order in which ffi.cpp starts and stops things.  start_telemetry_engine *)
(* creates the threads that call SendEvent after g_sender->Start and       *)
(* stop_telemetry_engine joins them before g_sender->Stop, so no SendEvent *)
(* is in progress while Start or Stop run.  Module Engine shows that       *)
(* ffi.cpp keeps to this.                                                  *)
(***************************************************************************)
EXTENDS SocketSender

CONSTANT AuthToken  \* config_.auth_token is not empty

VARIABLE reply      \* the agent's status byte on every connection

vars == <<atomics, producers, loop, control, world, reply>>

ASSUME AuthAssumption == AuthToken \in BOOLEAN

TypeOK == SenderTypeOK /\ reply \in [Conn -> {"none", "accepted", "rejected"}]

Init == SenderInit /\ reply = [c \in Conn |-> "none"]
-----------------------------------------------------------------------------
(* A socket file that group or others can write or execute is refused; one *)
(* that cannot be examined is not.                                         *)
LoopStatOk ==
    /\ loopPc = "stat"
    /\ loopPc' = IF AuthToken THEN "sendToken" ELSE "publishFd"
    /\ UNCHANGED <<atomics, producers, loopFd, control, world, reply>>

(* PerformHandshake: length and token, then the agent's byte.  There is no *)
(* timeout: with a silent agent the thread stays in readReply.             *)
LoopSendToken ==
    /\ loopPc = "sendToken"
    /\ IsUp(loopFd)
    /\ stream' = [stream EXCEPT ![files[loopFd]] = Append(@, "token")]
    /\ loopPc' = "readReply"
    /\ UNCHANGED <<atomics, producers, loopFd, control, files, peer, reply>>

LoopAccepted ==
    /\ loopPc = "readReply"
    /\ reply[files[loopFd]] = "accepted"
    /\ loopPc' = "publishFd"
    /\ UNCHANGED <<atomics, producers, loopFd, control, world, reply>>

LoopRefused ==
    /\ loopPc = "readReply"
    /\ \/ reply[files[loopFd]] = "rejected"
       \/ reply[files[loopFd]] = "none" /\ peer[files[loopFd]] = "gone"
    /\ LoopGiveUp("readReply")
    /\ UNCHANGED reply

(* The agent reads the token and answers it once. *)
AgentReply(c) ==
    /\ peer[c] = "up" /\ reply[c] = "none" /\ stream[c] # <<>> /\ AuthToken
    /\ \E r \in {"accepted", "rejected"} : reply' = [reply EXCEPT ![c] = r]
    /\ UNCHANGED <<atomics, producers, loop, control, world>>
-----------------------------------------------------------------------------
StopBegin == ProducersIdle /\ StopClearRunning /\ UNCHANGED reply
StartBegin == ProducersIdle /\ Start /\ UNCHANGED reply
StopStep == StopRest /\ UNCHANGED reply

SendBegin(p) == running_ /\ ctlPc = "idle" /\ SendCheck(p) /\ UNCHANGED reply
SendStep(p) == SendRest(p) /\ UNCHANGED reply

LoopStepShared == LoopShared /\ UNCHANGED reply
LoopConnectStep == LoopConnect("stat") /\ UNCHANGED reply
LoopInsecure == LoopGiveUp("stat") /\ UNCHANGED reply
LoopTokenFails == LoopGiveUp("sendToken") /\ UNCHANGED reply
ConnectionLoop == \/ LoopStepShared \/ LoopConnectStep \/ LoopStatOk
                  \/ LoopInsecure \/ LoopSendToken \/ LoopTokenFails
                  \/ LoopAccepted \/ LoopRefused

Environment == SharedEnvironment /\ UNCHANGED reply

Next ==
    \/ StartBegin \/ StopBegin \/ StopStep
    \/ \E p \in Producers : SendBegin(p) \/ SendStep(p)
    \/ ConnectionLoop
    \/ \E c \in Conn : AgentReply(c)
    \/ Environment

Spec == Init /\ [][Next]_vars

(* Fairness: threads that can run do run, and the agent answers a token it *)
(* has received unless it drops the connection.  Nothing makes the agent   *)
(* accept, keep a connection or read, so a write of SendEvent may block,   *)
(* and nothing makes the host send events or call Stop.                    *)
Fairness ==
    /\ WF_vars(StopStep)
    /\ WF_vars(ConnectionLoop)
    /\ \A p \in Producers : WF_vars(pc[p] # "write" /\ SendStep(p))
    /\ \A c \in Conn : WF_vars(AgentReply(c))

FairSpec == Spec /\ Fairness

(* The engine is started and never stopped. *)
UnstoppedSpec == Init /\ [][Next /\ ctlPc' = "idle"]_vars /\ Fairness
-----------------------------------------------------------------------------
Authenticated(c) == AuthToken => reply[c] = "accepted"
OnAgent(f) == files[f] \in Conn /\ Authenticated(files[f])

(* Every descriptor number a thread still holds names the file it named    *)
(* when the thread got it: SendEvent writes to, and closes, a connection   *)
(* of its own that passed PerformHandshake, never a reused number, and so  *)
(* do Stop and ConnectionLoop.                                             *)
DescriptorsOwned ==
    /\ \A p \in Producers :
          pc[p] \in {"write", "failClear", "failClose"} => OnAgent(fd[p])
    /\ ctlPc = "close" => OnAgent(ctlFd)
    /\ loopPc = "connect" => files[loopFd] = "socket"
    /\ loopPc \in {"stat", "sendToken", "readReply"} => files[loopFd] \in Conn
    /\ loopPc = "publishFd" => OnAgent(loopFd)

(* What the agent can parse: on every connection the token comes first and *)
(* only there, nothing but the token precedes the agent's acceptance, and  *)
(* a truncated event is the last thing sent.                               *)
StreamsWellFormed ==
    \A c \in Conn : \A i \in 1..Len(stream[c]) :
        /\ stream[c][i] = "token" <=> (AuthToken /\ i = 1)
        /\ stream[c][i] = "partial" => i = Len(stream[c])
        /\ stream[c][i] # "token" => Authenticated(c)

(* The sender implements DeliveryChannel.  An event is in the channel's    *)
(* hands from the check of connected_ until write(2) has been called.      *)
Channel == INSTANCE DeliveryChannel WITH
    fresh <- unsent,
    held <- {ev[p] : p \in {q \in Producers : pc[q] \in {"lock", "write"}}},
    accepted <- {c \in Conn : peer[c] # "unused" /\ Authenticated(c)},
    log <- stream

(* Whatever SendEvent, ConnectionLoop and Stop do, the agent sees a        *)
(* behaviour of the channel: no event twice, none kept for a reconnect,    *)
(* none before PerformHandshake has succeeded, nothing after a truncation. *)
ImplementsChannel == Channel!Spec

(* Stop returns, whatever connect, the handshake and the producers do, as  *)
(* long as the agent answers or drops the handshake Stop has to wait for.  *)
StopReturns == ctlPc # "idle" ~> ctlPc = "idle"

(* The agent learns that a truncated event ends the connection: the        *)
(* descriptor it was written to is closed.                                 *)
TruncatedStreamCloses ==
    \A c \in Conn : "partial" \in {stream[c][i] : i \in 1..Len(stream[c])}
                       ~> \A f \in Fd : files[f] # c

(* "Stop the telemetry engine (unloading hooks and disconnecting IPC)":    *)
(* once Stop has returned there is no connection left.                     *)
StopDisconnects ==
    ctlPc = "idle" /\ ~running_ => ~connected_ /\ socket_fd_ = NoFd

(* "Checks if the agent is connected and authenticated": IsConnected does  *)
(* not stay true without a socket behind it.                               *)
ConnectedIsUsable == []<>(connected_ => socket_fd_ # NoFd)
=============================================================================

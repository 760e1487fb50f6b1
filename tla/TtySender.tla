----------------------------- MODULE TtySender -----------------------------
(***************************************************************************)
(* LinuxTtyTelemetrySender (ffi.cpp): the same object without permission   *)
(* check and handshake.  stop_telemetry_engine stops it before it joins    *)
(* the ring buffer thread, so SendTtyEvent may overlap Stop; the next      *)
(* Start waits for the engine's mutex, which is released after that join.  *)
(***************************************************************************)
EXTENDS SocketSender

VARIABLE stopped    \* history: Stop has been called

vars == <<atomics, producers, loop, control, world, stopped>>

TypeOK == SenderTypeOK /\ stopped \in BOOLEAN

Init == SenderInit /\ stopped = FALSE
-----------------------------------------------------------------------------
TtyStart == ProducersIdle /\ Start /\ UNCHANGED stopped

TtyStopBegin == StopClearRunning /\ stopped' = TRUE
TtyStopRest == StopRest /\ UNCHANGED stopped

SendTtyEventBegin(p) == SendCheck(p) /\ UNCHANGED stopped
SendTtyEvent(p) == SendRest(p) /\ UNCHANGED stopped

TtyConnectionLoop == (LoopShared \/ LoopConnect("publishFd")) /\ UNCHANGED stopped

TtyEnvironment == SharedEnvironment /\ UNCHANGED stopped

Next ==
    \/ TtyStart \/ TtyStopBegin \/ TtyStopRest
    \/ \E p \in Producers : SendTtyEventBegin(p) \/ SendTtyEvent(p)
    \/ TtyConnectionLoop
    \/ TtyEnvironment

(* As in TelemetrySender: a write may block. *)
Fairness == /\ WF_vars(TtyStopRest)
            /\ WF_vars(TtyConnectionLoop)
            /\ \A p \in Producers : WF_vars(pc[p] # "write" /\ SendTtyEvent(p))

Spec == Init /\ [][Next]_vars
FairSpec == Spec /\ Fairness
-----------------------------------------------------------------------------
(* Stop is the only thing that can pull a descriptor from under another    *)
(* thread: until its first call SendTtyEvent writes to and closes nothing  *)
(* but a connection of the TTY socket.  After it, both can happen (Stop    *)
(* closes without send_mutex_ and the number is reused).                   *)
OnlyStopStrandsDescriptors ==
    ~stopped =>
        /\ \A p \in Producers :
              pc[p] \in {"write", "failClear", "failClose"} => files[fd[p]] \in Conn
        /\ loopPc = "connect" => files[loopFd] = "socket"
        /\ loopPc = "publishFd" => files[loopFd] \in Conn

(* The reader of the TTY socket never sees bytes after a truncated event,  *)
(* not even when Stop, a failing SendTtyEvent and a reconnect overlap.     *)
TruncatedEventIsLast ==
    \A c \in Conn : \A i \in 1..Len(stream[c]) :
        stream[c][i] = "partial" => i = Len(stream[c])

(* LinuxTtyTelemetrySender implements DeliveryChannel, without a handshake:*)
(* every connection counts as accepted.                                    *)
Channel == INSTANCE DeliveryChannel WITH
    fresh <- unsent,
    held <- {ev[p] : p \in {q \in Producers : pc[q] \in {"lock", "write"}}},
    accepted <- {c \in Conn : peer[c] # "unused"},
    log <- stream

(* Even when Stop takes the descriptor away from SendTtyEvent, the reader  *)
(* sees a behaviour of the channel: no event twice, none after a truncated *)
(* one, none kept for the next connection.                                 *)
TtyImplementsChannel == Channel!Spec

(* Stop returns without an answer from the agent, which need not even read *)
(* what SendTtyEvent writes.  Only connect(2) is taken to return.          *)
TtyStopReturns == ctlPc # "idle" ~> ctlPc = "idle"
=============================================================================

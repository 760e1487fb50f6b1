--------------------------- MODULE WindowsSender ---------------------------
(***************************************************************************)
(* WindowsTelemetrySender (windows_ipc.cpp).  It differs from the Linux    *)
(* senders in what protects what: ConnectionLoop publishes the pipe, and a *)
(* failing SendEvent takes it back, under send_mutex_, but Stop does not   *)
(* lock.  pipe_handle_ is no atomic: SendEvent may use the value it tested *)
(* or read the member again.                                               *)
(*                                                                         *)
(* Handles are numbers of one table, reused after CloseHandle; a closed    *)
(* one may be anybody's by the time it is used.  A step performs at most   *)
(* one access to a shared member or one system call.                       *)
(***************************************************************************)
EXTENDS Naturals

CONSTANTS
    Producers,  \* threads that call SendEvent
    Handle,     \* handle values
    Conn,       \* instances of the pipe that can be open at a time
    Invalid,    \* INVALID_HANDLE_VALUE
    Nobody      \* send_mutex_ is free

VARIABLES
    running_, connected_, pipe_handle_, send_mutex_,    \* the object
    pc, handle,             \* producers: step, the handle they tested
    loopPc, hPipe,          \* connection thread
    ctlPc, ctlHandle,       \* thread in Stop
    handles,                \* handle table of the process
    peer, reply,            \* the agent's end of an instance, its status byte
    stream                  \* what the agent can make of an instance

object == <<running_, connected_, pipe_handle_>>
producers == <<send_mutex_, pc, handle>>
loop == <<loopPc, hPipe>>
control == <<ctlPc, ctlHandle>>
world == <<handles, peer, reply, stream>>
senderVars == <<object, producers, loop, control, world>>

ASSUME PipeAssumption ==
    /\ Invalid \notin Handle /\ "closed" \notin Conn
    /\ Nobody \notin Producers /\ "loop" \notin Producers \cup {Nobody}

SenderTypeOK ==
    /\ running_ \in BOOLEAN /\ connected_ \in BOOLEAN
    /\ pipe_handle_ \in Handle \cup {Invalid}
    /\ send_mutex_ \in Producers \cup {Nobody, "loop"}
    /\ pc \in [Producers -> {"idle", "lock", "write", "close", "reset", "clear"}]
    /\ handle \in [Producers -> Handle \cup {Invalid}]
    /\ loopPc \in {"none", "checkRunning", "checkConnected", "create", "sendToken",
                   "readReply", "publishPipe", "publishConnected", "done"}
    /\ hPipe \in Handle \cup {Invalid}
    /\ ctlPc \in {"idle", "test", "close", "reset", "clear", "join"}
    /\ ctlHandle \in Handle \cup {Invalid}
    /\ handles \in [Handle -> {"closed"} \cup Conn]
    /\ peer \in [Conn -> {"up", "gone"}]
    /\ reply \in [Conn -> {"none", "accepted", "rejected"}]
    /\ stream \in [Conn -> {"empty", "ready", "partial", "broken"}]

SenderInit ==
    /\ running_ = FALSE /\ connected_ = FALSE /\ pipe_handle_ = Invalid
    /\ send_mutex_ = Nobody
    /\ pc = [p \in Producers |-> "idle"] /\ handle = [p \in Producers |-> Invalid]
    /\ loopPc = "none" /\ hPipe = Invalid
    /\ ctlPc = "idle" /\ ctlHandle = Invalid
    /\ handles = [h \in Handle |-> "closed"]
    /\ peer = [c \in Conn |-> "gone"] /\ reply = [c \in Conn |-> "none"]
    /\ stream = [c \in Conn |-> "empty"]

(* CloseHandle; of an invalid handle it fails, and nobody looks.  What a   *)
(* closed instance has carried is forgotten.                               *)
CloseHandle(h) ==
    IF h = Invalid \/ handles[h] = "closed" THEN UNCHANGED world
    ELSE LET c == handles[h] IN
         /\ handles' = [handles EXCEPT ![h] = "closed"]
         /\ peer' = [peer EXCEPT ![c] = "gone"] /\ reply' = [reply EXCEPT ![c] = "none"]
         /\ stream' = [stream EXCEPT ![c] = "empty"]

Open(c) == \E h \in Handle : handles[h] = c
IsUp(h) == h # Invalid /\ handles[h] \in Conn /\ peer[handles[h]] = "up"

(* WriteFile to the pipe behind the handle, if there is one.  The agent    *)
(* can follow the stream as long as the token comes first, and once, and   *)
(* nothing comes after a part of an event.                                 *)
Follows(last, item) == last = IF item = "token" THEN "empty" ELSE "ready"
Carry(h, item) ==
    stream' = IF ~IsUp(h) THEN stream
              ELSE [stream EXCEPT ![handles[h]] =
                      IF ~Follows(@, item) THEN "broken"
                      ELSE IF item = "partial" THEN "partial" ELSE "ready"]
-----------------------------------------------------------------------------
SenderStart ==
    /\ ctlPc = "idle" /\ ~running_
    /\ running_' = TRUE /\ loopPc' = "checkRunning"
    /\ UNCHANGED <<connected_, pipe_handle_, producers, hPipe, control, world>>

StopClearRunning ==
    /\ ctlPc = "idle" /\ ctlPc' = "test"
    /\ running_' = FALSE
    /\ UNCHANGED <<connected_, pipe_handle_, producers, loop, ctlHandle, world>>

StopTest ==
    /\ ctlPc = "test"
    /\ ctlHandle' = pipe_handle_
    /\ ctlPc' = IF pipe_handle_ = Invalid THEN "clear" ELSE "close"
    /\ UNCHANGED <<object, producers, loop, world>>

StopCloseHandle ==
    /\ ctlPc = "close" /\ ctlPc' = "reset"
    /\ CloseHandle(ctlHandle) /\ ctlHandle' = Invalid
    /\ UNCHANGED <<object, producers, loop>>

StopReset ==
    /\ ctlPc = "reset" /\ ctlPc' = "clear"
    /\ pipe_handle_' = Invalid
    /\ UNCHANGED <<running_, connected_, producers, loop, ctlHandle, world>>

StopClearConnected ==
    /\ ctlPc = "clear" /\ ctlPc' = "join"
    /\ connected_' = FALSE
    /\ UNCHANGED <<running_, pipe_handle_, producers, loop, ctlHandle, world>>

StopJoin ==
    /\ ctlPc = "join" /\ loopPc \in {"none", "done"}
    /\ ctlPc' = "idle" /\ loopPc' = "none"
    /\ UNCHANGED <<object, producers, hPipe, ctlHandle, world>>

StopRest == \/ StopTest \/ StopCloseHandle \/ StopReset
            \/ StopClearConnected \/ StopJoin
-----------------------------------------------------------------------------
Return(p) ==
    /\ pc' = [pc EXCEPT ![p] = "idle"] /\ handle' = [handle EXCEPT ![p] = Invalid]

(* SendEvent: connected_ is read before the lock is taken. *)
SendBegin(p) ==
    /\ pc[p] = "idle"
    /\ pc' = [pc EXCEPT ![p] = IF connected_ THEN "lock" ELSE "idle"]
    /\ UNCHANGED <<object, send_mutex_, handle, loop, control, world>>

SendLock(p) ==
    /\ pc[p] = "lock" /\ send_mutex_ = Nobody
    /\ IF pipe_handle_ = Invalid
       THEN Return(p) /\ UNCHANGED send_mutex_
       ELSE /\ send_mutex_' = p
            /\ handle' = [handle EXCEPT ![p] = pipe_handle_]
            /\ pc' = [pc EXCEPT ![p] = "write"]
    /\ UNCHANGED <<object, loop, control, world>>

(* WriteFile is synchronous: it returns when the agent has made room for   *)
(* the event, which may be never.                                          *)
SendWrite(p) ==
    /\ pc[p] = "write"
    /\ \E h \in {handle[p], pipe_handle_} : IsUp(h) /\ Carry(h, "event")
    /\ send_mutex_' = Nobody /\ Return(p)
    /\ UNCHANGED <<object, loop, control, handles, peer, reply>>

(* WriteFile fails; a part of the event may have got through. *)
SendWriteFails(p) ==
    /\ pc[p] = "write"
    /\ \E h \in {handle[p], pipe_handle_} : Carry(h, "partial") \/ UNCHANGED stream
    /\ pc' = [pc EXCEPT ![p] = "close"]
    /\ UNCHANGED <<object, send_mutex_, handle, loop, control, handles, peer, reply>>

(* Fault: SendEvent reports the failure and keeps the pipe. *)
SendKeepsPipe(p) ==
    /\ pc[p] = "close"
    /\ send_mutex_' = Nobody /\ Return(p)
    /\ UNCHANGED <<object, loop, control, world>>

SendClose(p) ==
    /\ pc[p] = "close" /\ pc' = [pc EXCEPT ![p] = "reset"]
    /\ CloseHandle(pipe_handle_)
    /\ UNCHANGED <<object, send_mutex_, handle, loop, control>>

SendReset(p) ==
    /\ pc[p] = "reset" /\ pc' = [pc EXCEPT ![p] = "clear"]
    /\ pipe_handle_' = Invalid
    /\ UNCHANGED <<running_, connected_, send_mutex_, handle, loop, control, world>>

(* Fault: the return after a failed write leaves the mutex locked. *)
SendKeepsMutex(p) ==
    /\ pc[p] = "clear"
    /\ connected_' = FALSE /\ Return(p)
    /\ UNCHANGED <<running_, pipe_handle_, send_mutex_, loop, control, world>>

SendClear(p) ==
    /\ pc[p] = "clear"
    /\ connected_' = FALSE /\ send_mutex_' = Nobody /\ Return(p)
    /\ UNCHANGED <<running_, pipe_handle_, loop, control, world>>

SendRest(p) == \/ SendLock(p) \/ SendWrite(p) \/ SendWriteFails(p)
               \/ SendClose(p) \/ SendReset(p) \/ SendClear(p)
-----------------------------------------------------------------------------
(* Fault: the loop never looks at running_. *)
LoopForever ==
    /\ loopPc = "checkRunning" /\ loopPc' = "checkConnected"
    /\ UNCHANGED <<object, producers, hPipe, control, world>>

LoopRunning ==
    /\ loopPc = "checkRunning"
    /\ loopPc' = IF running_ THEN "checkConnected" ELSE "done"
    /\ UNCHANGED <<object, producers, hPipe, control, world>>

LoopConnected ==
    /\ loopPc = "checkConnected"
    /\ loopPc' = IF connected_ THEN "checkRunning" ELSE "create"
    /\ UNCHANGED <<object, producers, hPipe, control, world>>

(* CreateFileA opens an instance of the pipe, under any free handle, or    *)
(* there is none to open.  Instances that are not open are all alike.      *)
LoopCreate ==
    /\ loopPc = "create" /\ \E c \in Conn : ~Open(c)
    /\ \E h \in {g \in Handle : handles[g] = "closed"} :
          LET c == CHOOSE c \in Conn : ~Open(c) IN
          /\ handles' = [handles EXCEPT ![h] = c] /\ hPipe' = h
          /\ peer' = [peer EXCEPT ![c] = "up"]
    /\ loopPc' = "sendToken"
    /\ UNCHANGED <<object, producers, control, reply, stream>>

LoopNoPipe ==
    /\ loopPc = "create" /\ loopPc' = "checkRunning"
    /\ UNCHANGED <<object, producers, hPipe, control, world>>

(* Length and token; the results of both writes are ignored. *)
LoopSendToken ==
    /\ loopPc = "sendToken" /\ loopPc' = "readReply"
    /\ Carry(hPipe, "token")
    /\ UNCHANGED <<object, producers, hPipe, control, handles, peer, reply>>

(* ReadFile of the status byte, without a timeout; whatever is behind the  *)
(* handle by now answers.                                                  *)
Status(h) == IF handles[h] \in Conn THEN reply[handles[h]] ELSE "rejected"

(* Fault: the status byte is not looked at. *)
LoopAcceptsAny ==
    /\ loopPc = "readReply" /\ send_mutex_ = Nobody
    /\ Status(hPipe) # "none"
    /\ loopPc' = "publishPipe" /\ send_mutex_' = "loop"
    /\ UNCHANGED <<object, pc, handle, hPipe, control, world>>

LoopAccepted ==
    /\ loopPc = "readReply" /\ send_mutex_ = Nobody
    /\ Status(hPipe) = "accepted"
    /\ loopPc' = "publishPipe" /\ send_mutex_' = "loop"
    /\ UNCHANGED <<object, pc, handle, hPipe, control, world>>

LoopRefused ==
    /\ loopPc = "readReply"
    /\ \/ Status(hPipe) = "rejected"
       \/ Status(hPipe) = "none" /\ peer[handles[hPipe]] = "gone"
    /\ CloseHandle(hPipe) /\ hPipe' = Invalid
    /\ loopPc' = "checkRunning"
    /\ UNCHANGED <<object, producers, control>>

LoopPublishPipe ==
    /\ loopPc = "publishPipe" /\ loopPc' = "publishConnected"
    /\ pipe_handle_' = hPipe /\ hPipe' = Invalid
    /\ UNCHANGED <<running_, connected_, producers, control, world>>

LoopPublishConnected ==
    /\ loopPc = "publishConnected" /\ loopPc' = "checkRunning"
    /\ connected_' = TRUE /\ send_mutex_' = Nobody
    /\ UNCHANGED <<running_, pipe_handle_, pc, handle, hPipe, control, world>>

ConnectionLoop == \/ LoopRunning \/ LoopConnected \/ LoopCreate \/ LoopNoPipe
                  \/ LoopSendToken \/ LoopAccepted \/ LoopRefused
                  \/ LoopPublishPipe \/ LoopPublishConnected
-----------------------------------------------------------------------------
(* The agent answers a token once and may go away, as long as that makes a *)
(* difference to the sender.                                               *)
AgentReply(c) ==
    /\ Open(c) /\ peer[c] = "up" /\ reply[c] = "none" /\ stream[c] # "empty"
    /\ \E r \in {"accepted", "rejected"} : reply' = [reply EXCEPT ![c] = r]
    /\ UNCHANGED <<object, producers, loop, control, handles, peer, stream>>

AgentClose(c) ==
    /\ Open(c) /\ peer[c] = "up" /\ reply[c] # "rejected"
    /\ peer' = [peer EXCEPT ![c] = "gone"]
    /\ UNCHANGED <<object, producers, loop, control, handles, reply, stream>>
=============================================================================

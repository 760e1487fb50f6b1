------------------------ MODULE WindowsEngineProofs ------------------------
(***************************************************************************)
(* Safety of the Windows engine for any number of threads, handles and     *)
(* pipes.  The argument has three layers.                                  *)
(*                                                                         *)
(* The consumer (EtwInv): the process has its session only from the one    *)
(* initialization to the first stop, and a thread can only begin to        *)
(* process while it has.                                                   *)
(*                                                                         *)
(* The calls (CallInv): as long as Stop has always waited for the consumer *)
(* successfully, nobody is in SendEvent while Stop of the sender runs.     *)
(*                                                                         *)
(* The sender (PipeInv): given that, send_mutex_ is enough to keep the     *)
(* pipe that is published, the one that is being opened and the one that   *)
(* Stop closes apart, although Stop does not lock.                         *)
(***************************************************************************)
EXTENDS WindowsEngine, TLAPS

(* Most leaves are first-order; those with arithmetic cite SMT. *)
USE Zenon

(* A thread of the consumer is in TraceThread. *)
Live(t) == tracePc[t] \in {"open", "process", "callback"}

(* Only while the engine runs is there a session and a thread, and then    *)
(* there is one thread; the stale session of another process goes with the *)
(* initialization, before there is any thread.                             *)
EtwInv ==
    /\ tracePc \in [Thread -> {"unborn", "open", "process", "callback", "done"}]
    /\ source \in [Thread -> {"none", "stale", "own"}]
    /\ session \in {"none", "stale", "own"}
    /\ session_handle_ \in BOOLEAN /\ (session_handle_ <=> session = "own")
    /\ g_initialized \in BOOLEAN /\ g_running \in BOOLEAN
    /\ IF g_initialized THEN session # "stale"
       ELSE /\ session # "own" /\ ~g_running /\ call = "idle"
            /\ \A t \in Thread : tracePc[t] = "unborn"
    /\ call = "startEtw" => ~g_running
    /\ call \in {"waitEtw", "stopSender", "joinSender"} /\ g_running => session # "own"
    /\ session = "own" /\ ~g_running => \A t \in Thread : tracePc[t] = "unborn"
    /\ session = "own" => \A t, u \in Thread :
           tracePc[t] # "unborn" /\ tracePc[u] # "unborn" => t = u

(* Who is in SendEvent, and when: trace threads from their callback, the   *)
(* host from its FFI call.  A thread that lives is the one that Stop will  *)
(* wait for, unless Stop once waited in vain.                              *)
CallInv ==
    /\ pc[Host] # "idle" => call = "send"
    /\ ctlPc # "idle" => call = "joinSender" /\ stops # 0
    /\ stops \in Nat /\ overran \in BOOLEAN
    /\ call = "waitEtw" => g_running
    /\ ~g_running \/ call \in {"startEtw", "stopSender", "joinSender"} =>
           thread_handle_ = NoThread
    /\ ~overran => \A t \in Thread :
           /\ Live(t) => t = thread_handle_
           /\ pc[t] # "idle" => tracePc[t] = "callback"

Idle == \A p \in Producers : pc[p] = "idle"

(* Stop of the sender has not been called, or never too early. *)
Calm == stops = 0 \/ ~overran
-----------------------------------------------------------------------------
Critical == {"write", "close", "reset", "clear"}

(* The mutex is held by whoever is in a part it protects; between Stop and *)
(* Start there is no connection thread.                                    *)
MutexInv ==
    /\ ctlPc = "idle" /\ ~running_ => loopPc = "none"
    /\ \A p \in Producers : pc[p] \in Critical <=> send_mutex_ = p
    /\ loopPc \in {"publishPipe", "publishConnected"} <=> send_mutex_ = "loop"

(* An instance is open under one handle; a closed one is as good as new;   *)
(* the agent answers a token.                                              *)
TableInv ==
    /\ \A g, h \in Handle : handles[g] # "closed" /\ handles[g] = handles[h] => g = h
    /\ \A c \in Conn : ~Open(c) => reply[c] = "none" /\ stream[c] = "empty"
    /\ \A c \in Conn : reply[c] # "none" => stream[c] # "empty"

(* The connection thread holds a pipe that is not published yet. *)
Opening == loopPc \in {"sendToken", "readReply", "publishPipe"}

OpeningInv ==
    /\ Opening => hPipe \in Handle /\ handles[hPipe] \in Conn
    /\ loopPc = "sendToken" => stream[handles[hPipe]] = "empty"
    /\ loopPc = "publishPipe" => Owned(hPipe)

(* CloseHandle has been called and pipe_handle_ not yet reset: in between  *)
(* the connection thread may get the same handle for a new pipe.           *)
Resetting == ctlPc = "reset" \/ \E p \in Producers : pc[p] = "reset"

(* The pipe that is published, and the one Stop is about to close, are     *)
(* accepted ones and not the one that is being opened.                     *)
OwnerInv ==
    /\ pipe_handle_ # Invalid /\ ~Resetting =>
           Owned(pipe_handle_) /\ (Opening => hPipe # pipe_handle_)
    /\ ctlPc = "close" => Owned(ctlHandle) /\ (Opening => hPipe # ctlHandle)
    /\ \A p \in Producers :
          /\ pc[p] \in {"write", "close"} => pipe_handle_ # Invalid
          /\ pc[p] = "write" => handle[p] = pipe_handle_

(* A part of an event is the last of a pipe that is about to be closed. *)
StreamInv ==
    \A c \in Conn :
       /\ stream[c] # "broken"
       /\ stream[c] = "partial" => /\ \E p \in Producers : pc[p] = "close"
                                   /\ handles[pipe_handle_] = c

PipeInv == MutexInv /\ TableInv /\ OpeningInv /\ OwnerInv /\ StreamInv

(* Without a Stop, publishing and taking back each do both halves. *)
ConnectedInv ==
    /\ connected_ => pipe_handle_ # Invalid \/ \E p \in Producers : pc[p] = "clear"
    /\ ~connected_ => pipe_handle_ = Invalid \/ loopPc = "publishConnected"
    /\ loopPc = "publishConnected" => pipe_handle_ # Invalid
    /\ \A p \in Producers : pc[p] = "clear" => pipe_handle_ = Invalid

IInv ==
    /\ EtwInv /\ TracesOwnSession /\ OneConsumer
    /\ CallInv /\ SenderTypeOK
    /\ Calm => PipeInv
    /\ stops = 0 => ConnectedInv
-----------------------------------------------------------------------------
(* The three things that the consumer's part of the proof keeps. *)
ConsumerInv == EtwInv /\ TracesOwnSession /\ OneConsumer

(* No thread has been created yet. *)
LEMMA InitConsumer == ASSUME Init PROVE ConsumerInv
BY DEF Init, EtwInit, ConsumerInv, EtwInv, TracesOwnSession, OneConsumer

(* A step that changes neither threads nor sessions. *)
LEMMA SameConsumer ==
    ASSUME ConsumerInv, UNCHANGED <<session, session_handle_, tracePc, source,
                                    g_initialized, g_running, call>>
    PROVE  ConsumerInv'
BY DEF ConsumerInv, EtwInv, TracesOwnSession, OneConsumer

(* The calls that begin or end. *)
LEMMA CallConsumer ==
    ASSUME ConsumerInv,
           \/ initialize_telemetry_engine \/ start_telemetry_engine
           \/ stop_telemetry_engine \/ send_telemetry_event
           \/ StartEtw \/ StopWaited \/ StopSender \/ StopReturns \/ SendReturns
    PROVE  ConsumerInv'
<1>1. CASE initialize_telemetry_engine
  <2>1. UNCHANGED <<tracePc, source, g_running, call>> /\ ~g_initialized
    BY <1>1 DEF initialize_telemetry_engine, EtwInitialize, EtwInitializeFails
  <2>2. CASE g_initialized' = TRUE /\ session' = "own" /\ session_handle_' = TRUE
    BY <2>1, <2>2 DEF ConsumerInv, EtwInv, TracesOwnSession, OneConsumer
  <2>3. CASE UNCHANGED <<g_initialized, session_handle_>> /\ session' = "none"
    BY <2>1, <2>3 DEF ConsumerInv, EtwInv, TracesOwnSession, OneConsumer
  <2> QED
    BY <1>1, <2>2, <2>3 DEF initialize_telemetry_engine, EtwInitialize, EtwInitializeFails
<1>2. CASE start_telemetry_engine
  BY <1>2 DEF start_telemetry_engine, etw, flags,
     ConsumerInv, EtwInv, TracesOwnSession, OneConsumer
<1>3. CASE stop_telemetry_engine
  BY <1>3 DEF stop_telemetry_engine, StopSession, flags,
     ConsumerInv, EtwInv, TracesOwnSession, OneConsumer
<1>4. CASE send_telemetry_event
  BY <1>4 DEF send_telemetry_event, etw, flags,
     ConsumerInv, EtwInv, TracesOwnSession, OneConsumer
<1>5. CASE StartEtw
  <2>1. CASE EtwStartFails /\ call' = "stopSender" /\ UNCHANGED g_running
    <3>1. UNCHANGED <<session, session_handle_, tracePc, source, g_initialized>>
      BY <1>5, <2>1 DEF StartEtw, EtwStartFails
    <3>2. call = "startEtw"
      BY <1>5 DEF StartEtw
    <3> QED
      BY <2>1, <3>1, <3>2 DEF ConsumerInv, EtwInv, TracesOwnSession, OneConsumer
  <2>2. CASE EtwStart /\ call' = "idle" /\ g_running' = TRUE
    <3>1. PICK t : tracePc' = [tracePc EXCEPT ![t] = "open"]
      BY <2>2 DEF EtwStart
    <3>2. UNCHANGED <<session, session_handle_, source, g_initialized>>
      BY <1>5, <2>2 DEF StartEtw, EtwStart
    <3>3. call = "startEtw"
      BY <1>5 DEF StartEtw
    <3>4. EtwInv'
      BY <2>2, <3>1, <3>2, <3>3 DEF ConsumerInv, EtwInv
    <3>5. \A u \in Thread : tracePc'[u] = tracePc[u] \/ tracePc'[u] = "open"
      BY <3>1 DEF ConsumerInv, EtwInv
    <3> QED
      BY SMT, <3>2, <3>4, <3>5 DEF ConsumerInv, TracesOwnSession, OneConsumer
  <2> QED
    BY <1>5, <2>1, <2>2 DEF StartEtw
<1>6. CASE StopWaited
  BY <1>6 DEF StopWaited, StopCloseThread, flags,
     ConsumerInv, EtwInv, TracesOwnSession, OneConsumer
<1>7. CASE StopSender
  BY <1>7 DEF StopSender, etw, flags, ConsumerInv, EtwInv, TracesOwnSession, OneConsumer
<1>8. CASE StopReturns
  BY <1>8 DEF StopReturns, etw, ConsumerInv, EtwInv, TracesOwnSession, OneConsumer
<1>9. CASE SendReturns
  BY <1>9 DEF SendReturns, etw, flags, ConsumerInv, EtwInv, TracesOwnSession, OneConsumer
<1> QED
  BY <1>1, <1>2, <1>3, <1>4, <1>5, <1>6, <1>7, <1>8, <1>9

(* Only OpenTrace makes a thread a consumer, and it needs the session. *)
LEMMA TraceConsumer ==
    ASSUME ConsumerInv, NEW t \in Thread, TraceThread(t)
    PROVE  ConsumerInv'
<1>1. UNCHANGED <<session, session_handle_, flags, call>>
  BY DEF TraceThread, TraceCallback, TraceReturns, ProcessEvent, CallbackReturns,
     OpenTrace, OpenTraceFails, ProcessEventSkips, ProcessTraceReturns, etw
<1>2. CASE UNCHANGED <<tracePc, source>>
  BY <1>1, <1>2, SameConsumer DEF flags
<1>3. ASSUME NEW next \in {"process", "callback", "done"}, tracePc[t] # "unborn",
             tracePc' = [tracePc EXCEPT ![t] = next],
             source' \in [Thread -> {"none", "stale", "own"}]
      PROVE  EtwInv'
  BY <1>1, <1>3 DEF flags, ConsumerInv, EtwInv
<1>4. CASE OpenTrace(t)
  <2>1. /\ tracePc[t] = "open" /\ session # "none"
        /\ tracePc' = [tracePc EXCEPT ![t] = "process"]
        /\ source' = [source EXCEPT ![t] = session]
    BY <1>4 DEF OpenTrace
  <2>2. EtwInv'
    BY <1>3, <2>1 DEF ConsumerInv, EtwInv
  <2>3. session = "own" /\ \A u \in Thread : tracePc[u] # "unborn" => u = t
    BY <2>1 DEF ConsumerInv, EtwInv
  <2>4. TracesOwnSession'
    BY <2>1, <2>3 DEF ConsumerInv, EtwInv, TracesOwnSession
  <2>5. \A u \in Thread : tracePc'[u] # "unborn" => u = t
    BY <2>1, <2>3 DEF ConsumerInv, EtwInv
  <2>6. OneConsumer'
    BY <2>5 DEF OneConsumer
  <2> QED
    BY <2>2, <2>4, <2>6 DEF ConsumerInv
<1>5. ASSUME NEW next \in {"process", "callback"}, tracePc[t] \in {"process", "callback"},
             tracePc' = [tracePc EXCEPT ![t] = next], UNCHANGED source
      PROVE  ConsumerInv'
  <2>1. EtwInv'
    BY <1>3, <1>5 DEF ConsumerInv, EtwInv
  <2>2. \A u \in Thread : tracePc'[u] \in {"process", "callback"} =>
                              tracePc[u] \in {"process", "callback"}
    BY <1>5 DEF ConsumerInv, EtwInv
  <2> QED
    BY SMT, <1>5, <2>1, <2>2 DEF ConsumerInv, TracesOwnSession, OneConsumer
<1>6. ASSUME tracePc[t] # "unborn", tracePc' = [tracePc EXCEPT ![t] = "done"],
             source' = source \/ source' = [source EXCEPT ![t] = "none"]
      PROVE  ConsumerInv'
  <2>1. EtwInv'
    BY <1>3, <1>6 DEF ConsumerInv, EtwInv
  <2>2. \A u \in Thread : tracePc'[u] \in {"process", "callback"} =>
            tracePc[u] \in {"process", "callback"} /\ source'[u] = source[u]
    BY <1>6 DEF ConsumerInv, EtwInv
  <2> QED
    BY SMT, <2>1, <2>2 DEF ConsumerInv, TracesOwnSession, OneConsumer
<1> QED
  BY <1>2, <1>4, <1>5, <1>6 DEF TraceThread, TraceCallback, TraceReturns, ProcessEvent,
     CallbackReturns, OpenTraceFails, ProcessEventSkips, ProcessTraceReturns, etw

(* Every step keeps sessions and threads in order. *)
LEMMA NextConsumer == ASSUME ConsumerInv, [Next]_vars PROVE ConsumerInv'
<1>1. CASE UNCHANGED <<etw, flags, call>>
  BY <1>1, SameConsumer DEF etw, flags
<1>2. CASE ProviderEvent /\ UNCHANGED <<senderVars, flags, call, history>>
  BY <1>2, SameConsumer DEF ProviderEvent, flags
<1> QED
  BY <1>1, <1>2, CallConsumer, TraceConsumer DEF Next, FfiThread, ConnectionThread,
     Environment, Agent, vars

(* In every behaviour a trace thread consumes the session this process     *)
(* started, never the one that a crashed process left under the same name. *)
THEOREM AlwaysTracesOwnSession == Spec => []TracesOwnSession
<1>1. Init => ConsumerInv
  BY InitConsumer
<1>2. ConsumerInv /\ [Next]_vars => ConsumerInv'
  BY NextConsumer
<1>3. ConsumerInv => TracesOwnSession
  BY DEF ConsumerInv
<1> QED
  BY <1>1, <1>2, <1>3, PTL DEF Spec

(* At most one thread at a time is in ProcessEvent, which numbers events   *)
(* without a lock, also across a restart that Stop's timeout made early.   *)
THEOREM AlwaysOneConsumer == Spec => []OneConsumer
<1>1. Init => ConsumerInv
  BY InitConsumer
<1>2. ConsumerInv /\ [Next]_vars => ConsumerInv'
  BY NextConsumer
<1>3. ConsumerInv => OneConsumer
  BY DEF ConsumerInv
<1> QED
  BY <1>1, <1>2, <1>3, PTL DEF Spec

(* Once initialized and without a session, as after the first stop, the    *)
(* process never has a session again: no call that can follow creates one. *)
THEOREM StoppedAlwaysDeaf == Spec => StoppedStaysDeaf
<1>1. ASSUME [Next]_vars, g_initialized, session = "none" PROVE session' = "none"
  <2>1. CASE UNCHANGED session
    BY <1>1, <2>1
  <2> QED
    BY <1>1, <2>1 DEF Next, initialize_telemetry_engine, start_telemetry_engine,
       stop_telemetry_engine, StopSession, send_telemetry_event, FfiThread, StartEtw,
       EtwStart, EtwStartFails, StopWaited, StopCloseThread, StopSender, StopReturns,
       SendReturns, ConnectionThread, Environment, Agent, ProviderEvent, TraceThread,
       TraceCallback, TraceReturns, ProcessEvent, CallbackReturns, OpenTrace,
       OpenTraceFails, ProcessEventSkips, ProcessTraceReturns, etw, vars
<1> QED
  BY <1>1, PTL DEF Spec, StoppedStaysDeaf
-----------------------------------------------------------------------------
(* What a step of the engine is to the sender. *)
SenderStep ==
    \/ SenderStart \/ StopClearRunning \/ StopRest
    \/ \E p \in Producers : SendBegin(p) \/ SendRest(p)
    \/ ConnectionLoop
    \/ \E c \in Conn : AgentReply(c) \/ AgentClose(c)
    \/ UNCHANGED senderVars

(* Every step of the engine is a step of the sender, or none. *)
LEMMA NextSenderStep == ASSUME [Next]_vars PROVE SenderStep
<1>1. Host \in Producers /\ Thread \subseteq Producers
  BY EngineAssumption
<1>2. CASE UNCHANGED senderVars
  BY <1>2 DEF SenderStep
<1>3. CASE start_telemetry_engine \/ StopSender
  BY <1>3 DEF start_telemetry_engine, StopSender, SenderStep
<1>4. CASE send_telemetry_event
  BY <1>1, <1>4 DEF send_telemetry_event, SenderStep
<1>5. CASE StopRest \/ SendRest(Host)
  BY <1>1, <1>5 DEF SenderStep
<1>6. ASSUME NEW t \in Thread, SendBegin(t) \/ SendRest(t) PROVE SenderStep
  BY <1>1, <1>6 DEF SenderStep
<1>7. CASE ConnectionThread
  BY <1>7 DEF ConnectionThread, SenderStep
<1>8. ASSUME NEW c \in Conn, Agent(c) PROVE SenderStep
  BY <1>8 DEF Agent, SenderStep
<1> QED
  BY <1>2, <1>3, <1>4, <1>5, <1>6, <1>7, <1>8 DEF Next, initialize_telemetry_engine,
     stop_telemetry_engine, FfiThread, StartEtw, StopWaited, StopReturns, SendReturns,
     Environment, TraceThread, TraceCallback, TraceReturns, vars

(* Closing a handle keeps the tables well-formed. *)
LEMMA CloseTypeOK ==
    ASSUME SenderTypeOK, NEW h \in Handle \cup {Invalid}, CloseHandle(h)
    PROVE  /\ handles' \in [Handle -> {"closed"} \cup Conn]
           /\ peer' \in [Conn -> {"up", "gone"}]
           /\ reply' \in [Conn -> {"none", "accepted", "rejected"}]
           /\ stream' \in [Conn -> {"empty", "ready", "partial", "broken"}]
BY DEF SenderTypeOK, CloseHandle, world

(* So does writing to a pipe. *)
LEMMA CarryTypeOK ==
    ASSUME SenderTypeOK, NEW h \in Handle \cup {Invalid}, NEW item, Carry(h, item)
    PROVE  stream' \in [Conn -> {"empty", "ready", "partial", "broken"}]
BY DEF SenderTypeOK, Carry, IsUp

(* Stop keeps the types of the sender. *)
LEMMA StopTypeOK == ASSUME SenderTypeOK, StopRest PROVE SenderTypeOK'
<1>1. CASE StopTest
  BY <1>1 DEF StopTest, SenderTypeOK, object, producers, loop, world
<1>2. CASE StopCloseHandle
  BY <1>2, CloseTypeOK DEF StopCloseHandle, SenderTypeOK, object, producers, loop
<1>3. CASE StopReset \/ StopClearConnected \/ StopJoin
  BY <1>3 DEF StopReset, StopClearConnected, StopJoin, SenderTypeOK, object,
              producers, loop, world
<1> QED
  BY <1>1, <1>2, <1>3 DEF StopRest

(* So does SendEvent. *)
LEMMA SendTypeOK ==
    ASSUME SenderTypeOK, NEW p \in Producers, SendBegin(p) \/ SendRest(p)
    PROVE  SenderTypeOK'
<1>1. CASE SendBegin(p)
  BY SMT, <1>1 DEF SendBegin, SenderTypeOK, object, loop, control, world
<1>2. CASE SendLock(p)
  BY SMT, <1>2 DEF SendLock, Return, SenderTypeOK, object, loop, control, world
<1>3. CASE SendWrite(p)
  <2>1. stream' \in [Conn -> {"empty", "ready", "partial", "broken"}]
    BY <1>3, CarryTypeOK DEF SendWrite, SenderTypeOK
  <2> QED
    BY SMT, <1>3, <2>1 DEF SendWrite, Return, SenderTypeOK, object, loop, control
<1>4. CASE SendWriteFails(p)
  <2>1. stream' \in [Conn -> {"empty", "ready", "partial", "broken"}]
    BY <1>4, CarryTypeOK DEF SendWriteFails, SenderTypeOK
  <2> QED
    BY SMT, <1>4, <2>1 DEF SendWriteFails, SenderTypeOK, object, loop, control
<1>5. CASE SendClose(p)
  <2>1. pipe_handle_ \in Handle \cup {Invalid}
    BY DEF SenderTypeOK
  <2> QED
    BY SMT, <1>5, <2>1, CloseTypeOK DEF SendClose, SenderTypeOK, object, loop, control
<1>6. CASE SendReset(p) \/ SendClear(p)
  BY ZenonT(30), <1>6 DEF SendReset, SendClear, Return, SenderTypeOK, loop, control, world
<1> QED
  BY <1>1, <1>2, <1>3, <1>4, <1>5, <1>6 DEF SendRest

(* So does ConnectionLoop. *)
LEMMA LoopTypeOK == ASSUME SenderTypeOK, ConnectionLoop PROVE SenderTypeOK'
<1>1. CASE LoopRunning \/ LoopConnected \/ LoopNoPipe \/ LoopAccepted
  BY <1>1 DEF LoopRunning, LoopConnected, LoopNoPipe, LoopAccepted, SenderTypeOK,
              object, producers, control, world
<1>2. CASE LoopCreate
  <2> DEFINE c == CHOOSE c \in Conn : ~Open(c)
  <2>1. c \in Conn
    BY <1>2 DEF LoopCreate
  <2>2. PICK h \in Handle : /\ handles' = [handles EXCEPT ![h] = c] /\ hPipe' = h
                            /\ peer' = [peer EXCEPT ![c] = "up"]
    BY <1>2 DEF LoopCreate
  <2> HIDE DEF c
  <2> QED
    BY <1>2, <2>1, <2>2 DEF LoopCreate, SenderTypeOK, object, producers, control
<1>3. CASE LoopSendToken
  <2>1. stream' \in [Conn -> {"empty", "ready", "partial", "broken"}]
    BY <1>3, CarryTypeOK DEF LoopSendToken, SenderTypeOK
  <2> QED
    BY <1>3, <2>1 DEF LoopSendToken, SenderTypeOK, object, producers, control
<1>4. CASE LoopRefused
  <2>1. hPipe \in Handle \cup {Invalid}
    BY DEF SenderTypeOK
  <2> QED
    BY <1>4, <2>1, CloseTypeOK DEF LoopRefused, SenderTypeOK, object, producers, control
<1>5. CASE LoopPublishPipe \/ LoopPublishConnected
  BY <1>5 DEF LoopPublishPipe, LoopPublishConnected, SenderTypeOK, producers, control, world
<1> QED
  BY <1>1, <1>2, <1>3, <1>4, <1>5 DEF ConnectionLoop

(* So does every step. *)
LEMMA StepTypeOK == ASSUME SenderTypeOK, SenderStep PROVE SenderTypeOK'
<1>1. CASE SenderStart \/ StopClearRunning
  BY <1>1 DEF SenderStart, StopClearRunning, SenderTypeOK, producers, loop, control, world
<1>2. ASSUME NEW c \in Conn, AgentReply(c) \/ AgentClose(c) PROVE SenderTypeOK'
  BY SMT, <1>2 DEF AgentReply, AgentClose, SenderTypeOK, object, producers, loop, control
<1>3. CASE UNCHANGED senderVars
  BY SMT, <1>3 DEF senderVars, SenderTypeOK, object, producers, loop, control, world
<1> QED
  BY <1>1, <1>2, <1>3, StopTypeOK, SendTypeOK, LoopTypeOK DEF SenderStep
-----------------------------------------------------------------------------
(* A step of SendEvent concerns the thread that takes it. *)
LEMMA SendFrame ==
    ASSUME SenderTypeOK, NEW p \in Producers, SendBegin(p) \/ SendRest(p)
    PROVE  /\ \A q \in Producers \ {p} : pc'[q] = pc[q]
           /\ UNCHANGED <<loopPc, hPipe, ctlPc, ctlHandle>>
           /\ SendRest(p) => pc[p] # "idle"
<1>1. pc \in [Producers -> {"idle", "lock", "write", "close", "reset", "clear"}]
  BY DEF SenderTypeOK
<1>2. \E v : pc' = [pc EXCEPT ![p] = v]
  BY DEF SendBegin, SendRest, SendLock, SendWrite, SendWriteFails, SendClose, SendReset,
         SendClear, Return
<1>3. UNCHANGED <<loop, control>>
  BY DEF SendBegin, SendRest, SendLock, SendWrite, SendWriteFails, SendClose, SendReset,
         SendClear
<1>4. SendRest(p) => pc[p] # "idle"
  BY DEF SendRest, SendLock, SendWrite, SendWriteFails, SendClose, SendReset, SendClear
<1> QED
  BY <1>1, <1>2, <1>3, <1>4 DEF loop, control

(* No call is in progress. *)
LEMMA InitCall == ASSUME Init PROVE CallInv
BY EngineAssumption DEF Init, SenderInit, EtwInit, CallInv, Live

(* A step that changes neither threads nor calls. *)
LEMMA SameCall ==
    ASSUME CallInv, UNCHANGED <<pc, ctlPc, tracePc, thread_handle_, g_running, call,
                                stops, overran>>
    PROVE  CallInv'
BY DEF CallInv, Live

(* Nobody is in SendEvent while no thread is to be waited for and the host *)
(* is in another call.                                                     *)
LEMMA NoSender ==
    ASSUME CallInv, ~overran, thread_handle_ = NoThread, call # "send"
    PROVE  Idle
BY EngineAssumption, EtwAssumption DEF CallInv, Live, Idle

(* The FFI calls, which g_ffi_mutex admits one at a time. *)
LEMMA CallCall ==
    ASSUME EtwInv, SenderTypeOK, CallInv,
           \/ initialize_telemetry_engine \/ start_telemetry_engine
           \/ stop_telemetry_engine \/ send_telemetry_event
           \/ StartEtw \/ StopWaited \/ StopSender \/ StopReturns \/ SendReturns
    PROVE  CallInv'
<1>1. CASE initialize_telemetry_engine
  <2>1. UNCHANGED <<pc, ctlPc, tracePc, thread_handle_, g_running, call, stops, overran>>
    BY <1>1 DEF initialize_telemetry_engine, EtwInitialize, EtwInitializeFails,
       senderVars, producers, control, history
  <2> QED
    BY <2>1, SameCall
<1>2. CASE start_telemetry_engine
  BY <1>2 DEF start_telemetry_engine, SenderStart, producers, control, etw, flags,
     CallInv, Live
<1>3. CASE stop_telemetry_engine
  BY <1>3 DEF stop_telemetry_engine, StopSession, senderVars, producers, control, flags,
     history, CallInv, Live
<1>4. CASE send_telemetry_event
  <2>1. /\ \A t \in Thread : pc'[t] = pc[t]
        /\ ctlPc' = ctlPc
    BY <1>4, SendFrame, EngineAssumption DEF send_telemetry_event
  <2>2. /\ UNCHANGED <<tracePc, thread_handle_, g_running, stops, overran>>
        /\ call = "idle" /\ call' = "send" /\ g_running
    BY <1>4 DEF send_telemetry_event, etw, flags, history
  <2> QED
    BY <2>1, <2>2 DEF CallInv, Live
<1>5. CASE StartEtw
  <2>1. UNCHANGED <<pc, ctlPc, stops, overran>> /\ call = "startEtw"
    BY <1>5 DEF StartEtw, senderVars, producers, control, history
  <2>2. CASE EtwStartFails /\ call' = "stopSender" /\ UNCHANGED g_running
    BY <2>1, <2>2 DEF EtwStartFails, CallInv, Live
  <2>3. CASE EtwStart /\ call' = "idle" /\ g_running' = TRUE
    <3>1. PICK t : tracePc' = [tracePc EXCEPT ![t] = "open"] /\ thread_handle_' = t
      BY <2>3 DEF EtwStart
    <3>2. \A u \in Thread : u = t \/ tracePc'[u] = tracePc[u]
      BY <3>1 DEF EtwInv
    <3>3. ~overran => \A u \in Thread : ~Live(u) /\ pc[u] = "idle"
      BY <2>1, EtwAssumption DEF CallInv, Live
    <3>4. ~overran' => \A u \in Thread : (Live(u))' => u = thread_handle_'
      BY <2>1, <3>1, <3>2, <3>3 DEF Live
    <3> QED
      BY <2>1, <2>3, <3>3, <3>4 DEF CallInv
  <2> QED
    BY <1>5, <2>2, <2>3 DEF StartEtw
<1>6. CASE StopWaited
  <2>1. /\ UNCHANGED <<pc, ctlPc, tracePc, g_running, stops>>
        /\ call = "waitEtw" /\ call' = "stopSender" /\ thread_handle_' = NoThread
        /\ overran' = (overran \/ ~Waited)
    BY <1>6 DEF StopWaited, StopCloseThread, senderVars, producers, control, flags
  <2>2. ~overran' => ~overran /\ \A t \in Thread : ~Live(t)
    BY <2>1, EtwAssumption DEF Waited, CallInv, Live
  <2>3. ~overran' => \A t \in Thread : ~(Live(t))' /\ pc'[t] = "idle"
    BY <2>1, <2>2 DEF CallInv, Live
  <2>4. overran' \in BOOLEAN
    BY <2>1
  <2> QED
    BY <2>1, <2>3, <2>4 DEF CallInv
<1>7. CASE StopSender
  <2>1. /\ UNCHANGED <<pc, tracePc, thread_handle_, g_running, overran>>
        /\ call = "stopSender" /\ call' = "joinSender" /\ stops' = stops + 1
    BY <1>7 DEF StopSender, StopClearRunning, producers, etw, flags
  <2>2. stops' \in Nat /\ stops' # 0
    BY SMT, <2>1 DEF CallInv
  <2> QED
    BY <2>1, <2>2 DEF CallInv, Live
<1>8. CASE StopReturns
  BY <1>8 DEF StopReturns, senderVars, producers, control, etw, history, CallInv, Live
<1>9. CASE SendReturns
  BY <1>9 DEF SendReturns, senderVars, producers, control, etw, flags, history, CallInv, Live
<1> QED
  BY <1>1, <1>2, <1>3, <1>4, <1>5, <1>6, <1>7, <1>8, <1>9

(* A thread calls SendEvent from its callback and returns from the callback *)
(* when SendEvent has returned.                                             *)
LEMMA TraceCall ==
    ASSUME EtwInv, SenderTypeOK, CallInv, NEW t \in Thread, TraceThread(t)
    PROVE  CallInv'
<1>1. t \in Producers /\ t # Host
  BY EngineAssumption
<1>2. UNCHANGED <<thread_handle_, g_running, call, stops, overran>>
  BY DEF TraceThread, TraceCallback, TraceReturns, ProcessEvent, CallbackReturns,
     OpenTrace, OpenTraceFails, ProcessEventSkips, ProcessTraceReturns, etw, flags, history
<1>3. /\ ctlPc' = ctlPc /\ \A q \in Producers \ {t} : pc'[q] = pc[q]
  <2>1. CASE SendBegin(t) \/ SendRest(t)
    BY <1>1, <2>1, SendFrame
  <2>2. CASE UNCHANGED senderVars
    BY <2>2 DEF senderVars, producers, control
  <2> QED
    BY <2>1, <2>2 DEF TraceThread, TraceCallback, TraceReturns
<1>4. \A u \in Thread \ {t} : tracePc'[u] = tracePc[u] /\ pc'[u] = pc[u]
  <2>1. tracePc' = tracePc \/ \E v : tracePc' = [tracePc EXCEPT ![t] = v]
    BY DEF TraceThread, TraceCallback, TraceReturns, ProcessEvent, CallbackReturns,
       OpenTrace, OpenTraceFails, ProcessEventSkips, ProcessTraceReturns, etw
  <2> QED
    BY <1>3, <2>1, EngineAssumption DEF EtwInv
<1>5. pc'[Host] = pc[Host]
  BY <1>1, <1>3, EngineAssumption
<1>6. ~overran => /\ (Live(t))' => Live(t)
                  /\ pc'[t] # "idle" => tracePc'[t] = "callback"
  <2>1. CASE TraceCallback(t)
    BY <2>1 DEF TraceCallback, ProcessEvent, EtwInv, Live
  <2>2. CASE TraceReturns(t)
    BY <2>2 DEF TraceReturns, CallbackReturns, senderVars, producers, EtwInv, Live
  <2>3. CASE /\ \/ OpenTrace(t) \/ OpenTraceFails(t) \/ ProcessTraceReturns(t)
             /\ UNCHANGED senderVars
    BY <2>3 DEF OpenTrace, OpenTraceFails, ProcessTraceReturns, senderVars, producers,
       EtwInv, CallInv, Live
  <2>4. CASE ProcessEventSkips(t) /\ UNCHANGED senderVars
    BY <2>4 DEF ProcessEventSkips, senderVars, producers, CallInv, Live
  <2>5. CASE SendRest(t) /\ UNCHANGED etw
    <3>1. pc[t] # "idle" /\ UNCHANGED tracePc
      BY <1>1, <2>5, SendFrame DEF etw
    <3> QED
      BY <3>1 DEF CallInv, Live
  <2> QED
    BY <2>1, <2>2, <2>3, <2>4, <2>5 DEF TraceThread
<1>7. ~overran' => \A u \in Thread : /\ (Live(u))' => u = thread_handle_'
                                     /\ pc'[u] # "idle" => tracePc'[u] = "callback"
  BY <1>2, <1>4, <1>6 DEF CallInv, Live
<1> QED
  BY <1>2, <1>3, <1>5, <1>7 DEF CallInv

(* Every step keeps to who may send when. *)
LEMMA NextCall == ASSUME EtwInv, SenderTypeOK, CallInv, [Next]_vars PROVE CallInv'
<1>1. CASE StopRest /\ UNCHANGED <<etw, flags, call, history>>
  BY <1>1 DEF StopRest, StopTest, StopCloseHandle, StopReset, StopClearConnected, StopJoin,
     producers, etw, flags, history, CallInv, Live
<1>2. CASE SendRest(Host) /\ UNCHANGED <<etw, flags, call, history>>
  <2>1. Host \in Producers /\ Host \notin Thread /\ Thread \subseteq Producers
    BY EngineAssumption
  <2>2. /\ \A t \in Thread : pc'[t] = pc[t]
        /\ ctlPc' = ctlPc /\ pc[Host] # "idle"
    BY <1>2, <2>1, SendFrame
  <2> QED
    BY <1>2, <2>2 DEF etw, flags, history, CallInv, Live
<1>3. CASE UNCHANGED <<pc, ctlPc, tracePc, thread_handle_, g_running, call, stops, overran>>
  BY <1>3, SameCall
<1>4. CASE ConnectionThread
  <2>1. UNCHANGED <<pc, ctlPc>>
    BY <1>4 DEF ConnectionThread, ConnectionLoop, LoopRunning, LoopConnected, LoopCreate,
       LoopNoPipe, LoopSendToken, LoopAccepted, LoopRefused, LoopPublishPipe,
       LoopPublishConnected, producers, control
  <2> QED
    BY <1>3, <1>4, <2>1 DEF ConnectionThread, etw, flags, history
<1>5. CASE Environment
  BY <1>3, <1>5 DEF Environment, Agent, AgentReply, AgentClose, ProviderEvent,
     senderVars, producers, control, etw, flags, history
<1>6. CASE UNCHANGED vars
  BY <1>3, <1>6 DEF vars, senderVars, producers, control, etw, flags, history
<1> QED
  BY <1>1, <1>2, <1>4, <1>5, <1>6, CallCall, TraceCall DEF Next, FfiThread
-----------------------------------------------------------------------------
(* send_mutex_ is taken and released where the code enters and leaves the  *)
(* parts it protects.                                                      *)
LEMMA NextMutex == ASSUME SenderTypeOK, MutexInv, SenderStep PROVE MutexInv'
<1>1. CASE UNCHANGED <<send_mutex_, pc, loopPc, ctlPc, running_>>
  BY <1>1 DEF MutexInv
<1>2. ASSUME NEW p \in Producers, SendBegin(p) \/ SendRest(p) PROVE MutexInv'
  <2>1. \A q \in Producers \ {p} : pc'[q] = pc[q]
    BY <1>2, SendFrame
  <2>2. UNCHANGED <<loopPc, ctlPc, running_>>
    BY <1>2, SendFrame DEF SendBegin, SendRest, SendLock, SendWrite, SendWriteFails,
       SendClose, SendReset, SendClear, object
  <2>3. /\ pc'[p] \in Critical <=> send_mutex_' = p
        /\ send_mutex_' = send_mutex_ \/ {send_mutex_, send_mutex_'} = {Nobody, p}
    BY SMT, <1>2, PipeAssumption DEF SendBegin, SendRest, SendLock, SendWrite, SendWriteFails,
       SendClose, SendReset, SendClear, Return, SenderTypeOK, MutexInv, Critical
  <2> QED
    BY <2>1, <2>2, <2>3, PipeAssumption DEF MutexInv
<1>3. CASE ConnectionLoop
  <2>1. UNCHANGED <<pc, ctlPc, running_>> /\ loopPc # "none"
    BY <1>3 DEF ConnectionLoop, LoopRunning, LoopConnected, LoopCreate, LoopNoPipe,
       LoopSendToken, LoopAccepted, LoopRefused, LoopPublishPipe, LoopPublishConnected,
       producers, control, object
  <2>2. CASE LoopAccepted
    BY <2>1, <2>2, PipeAssumption DEF LoopAccepted, MutexInv
  <2>3. CASE LoopPublishConnected
    BY SMT, <2>1, <2>3, PipeAssumption DEF LoopPublishConnected, MutexInv
  <2>4. CASE LoopPublishPipe
    BY SMT, <2>1, <2>4 DEF LoopPublishPipe, MutexInv, producers
  <2> QED
    BY <1>3, <2>1, <2>2, <2>3, <2>4 DEF ConnectionLoop, LoopRunning, LoopConnected,
       LoopCreate, LoopNoPipe, LoopSendToken, LoopRefused, producers, MutexInv
<1>4. CASE SenderStart
  BY <1>4 DEF SenderStart, MutexInv, producers
<1>5. CASE StopClearRunning \/ StopRest
  BY <1>5 DEF StopClearRunning, StopRest, StopTest, StopCloseHandle, StopReset,
     StopClearConnected, StopJoin, producers, loop, MutexInv
<1> QED
  BY <1>1, <1>2, <1>3, <1>4, <1>5 DEF SenderStep, AgentReply, AgentClose, senderVars,
     producers, loop, control, object

(* What CloseHandle does to the pipe behind a handle and to the others. *)
LEMMA CloseFrame ==
    ASSUME SenderTypeOK, TableInv, NEW h \in Handle, handles[h] \in Conn, CloseHandle(h)
    PROVE  /\ TableInv'
           /\ \A g \in Handle \ {h} :
                 /\ handles'[g] = handles[g]
                 /\ handles[g] \in Conn => /\ reply'[handles[g]] = reply[handles[g]]
                                           /\ stream'[handles[g]] = stream[handles[g]]
           /\ \A c \in Conn : stream'[c] = IF c = handles[h] THEN "empty" ELSE stream[c]
<1> DEFINE d == handles[h]
<1>1. h # Invalid /\ d # "closed"
  BY PipeAssumption
<1>2. /\ handles' = [handles EXCEPT ![h] = "closed"]
      /\ reply' = [reply EXCEPT ![d] = "none"] /\ stream' = [stream EXCEPT ![d] = "empty"]
  BY <1>1 DEF CloseHandle
<1>3. \A g \in Handle : handles'[g] = IF g = h THEN "closed" ELSE handles[g]
  BY <1>2 DEF SenderTypeOK
<1>4. \A c \in Conn : /\ reply'[c] = IF c = d THEN "none" ELSE reply[c]
                      /\ stream'[c] = IF c = d THEN "empty" ELSE stream[c]
  BY <1>2 DEF SenderTypeOK
<1>5. \A g \in Handle \ {h} : handles[g] \in Conn => handles[g] # d
  BY <1>1 DEF TableInv
<1>6. \A c \in Conn : c # d /\ ~(Open(c))' => ~Open(c)
  BY <1>3 DEF Open
<1>7. TableInv'
  BY SMT, <1>3, <1>4, <1>6 DEF TableInv
<1> QED
  BY <1>3, <1>4, <1>5, <1>7

(* Stop closes the handle it read, with or without a newer one published   *)
(* meanwhile.                                                              *)
LEMMA StopPipe ==
    ASSUME SenderTypeOK, PipeInv, Idle, StopRest
    PROVE  TableInv' /\ OpeningInv' /\ OwnerInv' /\ StreamInv'
<1>1. UNCHANGED <<pc, handle, hPipe, send_mutex_>>
  BY DEF StopRest, StopTest, StopCloseHandle, StopReset, StopClearConnected, StopJoin,
     producers, loop
<1>2. \A p \in Producers : pc'[p] = "idle"
  BY <1>1 DEF Idle
<1>3. CASE StopCloseHandle
  <2>1. ctlHandle \in Handle /\ handles[ctlHandle] \in Conn /\ CloseHandle(ctlHandle)
    BY <1>3 DEF StopCloseHandle, PipeInv, OwnerInv, Owned, SenderTypeOK
  <2>2. /\ TableInv'
        /\ \A g \in Handle \ {ctlHandle} :
              /\ handles'[g] = handles[g]
              /\ handles[g] \in Conn => /\ reply'[handles[g]] = reply[handles[g]]
                                        /\ stream'[handles[g]] = stream[handles[g]]
        /\ \A c \in Conn :
              stream'[c] = IF c = handles[ctlHandle] THEN "empty" ELSE stream[c]
    BY <2>1, CloseFrame DEF PipeInv
  <2>3. ctlPc = "close" /\ ctlPc' = "reset" /\ UNCHANGED <<loopPc, pipe_handle_>>
    BY <1>3 DEF StopCloseHandle, loop, object
  <2>4. OpeningInv'
    <3>1. Opening => hPipe \in Handle \ {ctlHandle}
      BY <2>3 DEF PipeInv, OpeningInv, OwnerInv
    <3> QED
      BY <1>1, <2>2, <2>3, <3>1 DEF PipeInv, OpeningInv, Opening, Owned
  <2>5. OwnerInv'
    BY <1>2, <2>3 DEF OwnerInv, Resetting
  <2>6. StreamInv'
    BY <2>2 DEF PipeInv, StreamInv, Idle
  <2> QED
    BY <2>2, <2>4, <2>5, <2>6
<1>4. CASE StopTest \/ StopReset \/ StopClearConnected \/ StopJoin
  <2>1. UNCHANGED <<handles, peer, reply, stream>>
    BY <1>4 DEF StopTest, StopReset, StopClearConnected, StopJoin, world
  <2>2. TableInv'
    BY <2>1 DEF PipeInv, TableInv, Open
  <2>3. StreamInv'
    BY <2>1 DEF PipeInv, StreamInv, Idle
  <2>4. CASE StopTest
    <3>1. /\ ctlPc = "test" /\ UNCHANGED <<loopPc, pipe_handle_>>
          /\ ctlHandle' = pipe_handle_
          /\ ctlPc' = IF pipe_handle_ = Invalid THEN "clear" ELSE "close"
      BY <2>4 DEF StopTest, loop, object
    <3>2. ~Resetting
      BY <3>1 DEF Resetting, Idle
    <3> QED
      BY <1>1, <1>2, <2>1, <2>2, <2>3, <3>1, <3>2
         DEF PipeInv, OpeningInv, OwnerInv, Opening, Owned
  <2>5. CASE StopReset
    <3>1. ctlPc' = "clear" /\ UNCHANGED loopPc /\ pipe_handle_' = Invalid
      BY <2>5 DEF StopReset, loop
    <3> QED
      BY <1>1, <1>2, <2>1, <2>2, <2>3, <3>1 DEF PipeInv, OpeningInv, OwnerInv, Opening, Owned
  <2>6. CASE StopClearConnected \/ StopJoin
    <3>1. /\ ctlPc \in {"clear", "join"} /\ ctlPc' \in {"join", "idle"}
          /\ UNCHANGED pipe_handle_ /\ (loopPc' = loopPc \/ loopPc' = "none")
      BY <2>6 DEF StopClearConnected, StopJoin, loop, object
    <3>2. ~Resetting
      BY <3>1 DEF Resetting, Idle
    <3> QED
      BY <1>1, <1>2, <2>1, <2>2, <2>3, <3>1, <3>2
         DEF PipeInv, OpeningInv, OwnerInv, Opening, Owned
  <2> QED
    BY <1>4, <2>4, <2>5, <2>6
<1> QED
  BY <1>3, <1>4 DEF StopRest

(* What WriteFile does to the stream of the pipe behind a handle. *)
LEMMA CarryFrame ==
    ASSUME SenderTypeOK, NEW h \in Handle, handles[h] \in Conn, NEW item, Carry(h, item)
    PROVE  /\ \A c \in Conn : c # handles[h] => stream'[c] = stream[c]
           /\ \/ stream'[handles[h]] = stream[handles[h]]
              \/ stream'[handles[h]] =
                    IF ~Follows(stream[handles[h]], item) THEN "broken"
                    ELSE IF item = "partial" THEN "partial" ELSE "ready"
BY DEF SenderTypeOK, Carry

(* SendEvent, when Stop is not running: the thread in the protected part   *)
(* is the only one to use pipe_handle_.                                    *)
LEMMA SendPipe ==
    ASSUME SenderTypeOK, PipeInv, ctlPc = "idle", NEW p \in Producers,
           SendBegin(p) \/ SendRest(p)
    PROVE  TableInv' /\ OpeningInv' /\ OwnerInv' /\ StreamInv'
<1>1. /\ \A q \in Producers \ {p} : pc'[q] = pc[q]
      /\ UNCHANGED <<loopPc, hPipe, ctlPc, ctlHandle>>
  BY SendFrame
<1>2. pc[p] \in Critical => \A q \in Producers \ {p} : pc[q] \notin Critical
  BY DEF PipeInv, MutexInv
<1>3. ASSUME UNCHANGED <<pipe_handle_, handles, reply, stream>>,
             pc[p] \notin {"close", "reset"}, pc'[p] \notin {"write", "close", "reset"},
             \A q \in Producers \ {p} : handle'[q] = handle[q]
      PROVE  TableInv' /\ OpeningInv' /\ OwnerInv' /\ StreamInv'
  <2>1. TableInv' /\ OpeningInv'
    BY <1>1, <1>3 DEF PipeInv, TableInv, Open, OpeningInv, Opening, Owned
  <2>2. Resetting <=> Resetting'
    BY <1>1, <1>3 DEF Resetting
  <2>3. OwnerInv'
    BY <1>1, <1>3, <2>2 DEF PipeInv, OwnerInv, Opening, Owned
  <2>4. StreamInv'
    BY <1>1, <1>3 DEF PipeInv, StreamInv
  <2> QED
    BY <2>1, <2>3, <2>4
<1>4. CASE SendBegin(p)
  BY <1>3, <1>4 DEF SendBegin, object, world, SenderTypeOK
<1>5. CASE SendLock(p)
  <2>1. UNCHANGED <<pipe_handle_, handles, reply, stream>> /\ pc[p] = "lock"
    BY <1>5 DEF SendLock, object, world
  <2>2. \A q \in Producers \ {p} : handle'[q] = handle[q]
    BY <1>5 DEF SendLock, Return, SenderTypeOK
  <2>3. CASE pc'[p] = "idle"
    BY <1>3, <2>1, <2>2, <2>3
  <2>4. CASE pipe_handle_ # Invalid /\ pc'[p] = "write" /\ handle'[p] = pipe_handle_
    <3>1. TableInv' /\ OpeningInv'
      BY <1>1, <2>1 DEF PipeInv, TableInv, Open, OpeningInv, Opening, Owned
    <3>2. Resetting <=> Resetting'
      BY <1>1, <2>1, <2>4 DEF Resetting
    <3>3. OwnerInv'
      BY <1>1, <2>1, <2>2, <2>4, <3>2 DEF PipeInv, OwnerInv, Opening, Owned
    <3>4. StreamInv'
      BY <1>1, <2>1 DEF PipeInv, StreamInv
    <3> QED
      BY <3>1, <3>3, <3>4
  <2> QED
    BY <1>5, <2>3, <2>4 DEF SendLock, Return, SenderTypeOK
<1>6. CASE SendWrite(p) \/ SendWriteFails(p)
  <2>1. /\ pc[p] = "write" /\ UNCHANGED <<pipe_handle_, handles, reply>>
        /\ handle[p] = pipe_handle_ /\ pipe_handle_ # Invalid
        /\ \A q \in Producers \ {p} : handle'[q] = handle[q]
        /\ pc'[p] \in {"idle", "close"}
    BY <1>6 DEF SendWrite, SendWriteFails, Return, SenderTypeOK, object, PipeInv, OwnerInv
  <2>2. \A q \in Producers : pc[q] \notin {"close", "reset", "clear"}
    BY <1>2, <2>1 DEF Critical
  <2>3. ~Resetting /\ ~Resetting'
    BY <1>1, <2>1, <2>2 DEF Resetting
  <2>4. /\ Owned(pipe_handle_) /\ (Opening => hPipe # pipe_handle_)
        /\ pipe_handle_ \in Handle /\ handles[pipe_handle_] \in Conn
    BY <2>1, <2>3 DEF PipeInv, OwnerInv, Owned, SenderTypeOK
  <2> DEFINE d == handles[pipe_handle_]
  <2>5. stream[d] = "ready"
    BY <2>2, <2>4 DEF PipeInv, StreamInv, TableInv, Owned, SenderTypeOK
  <2>6. /\ \A c \in Conn : c # d => stream'[c] = stream[c]
        /\ stream'[d] = "ready" \/ (stream'[d] = "partial" /\ pc'[p] = "close")
    <3>1. CASE UNCHANGED stream
      BY <2>5, <3>1
    <3>2. CASE SendWrite(p)
      <4>1. Carry(pipe_handle_, "event")
        BY <2>1, <3>2 DEF SendWrite
      <4>2. /\ \A c \in Conn : c # d => stream'[c] = stream[c]
            /\ \/ stream'[d] = stream[d]
               \/ stream'[d] = IF ~Follows(stream[d], "event") THEN "broken"
                               ELSE IF "event" = "partial" THEN "partial" ELSE "ready"
        BY <2>4, <4>1, CarryFrame
      <4>3. Follows("ready", "event")
        BY DEF Follows
      <4> QED
        BY <2>5, <4>2, <4>3
    <3>3. CASE Carry(pipe_handle_, "partial") /\ pc' = [pc EXCEPT ![p] = "close"]
      <4>1. pc'[p] = "close"
        BY <3>3 DEF SenderTypeOK
      <4>2. /\ \A c \in Conn : c # d => stream'[c] = stream[c]
            /\ \/ stream'[d] = stream[d]
               \/ stream'[d] = IF ~Follows(stream[d], "partial") THEN "broken"
                               ELSE IF "partial" = "partial" THEN "partial" ELSE "ready"
        BY <2>4, <3>3, CarryFrame
      <4>3. Follows("ready", "partial")
        BY DEF Follows
      <4> QED
        BY <2>5, <4>1, <4>2, <4>3
    <3> QED
      BY <1>6, <2>1, <3>1, <3>2, <3>3 DEF SendWriteFails
  <2> HIDE DEF d
  <2>7. \A c \in Conn : stream'[c] = "empty" <=> stream[c] = "empty"
    BY <2>5, <2>6
  <2>8. TableInv'
    BY <2>1, <2>7 DEF PipeInv, TableInv, Open
  <2>9. OpeningInv'
    BY <1>1, <2>1, <2>7 DEF PipeInv, OpeningInv, Opening, Owned
  <2>10. OwnerInv'
    BY <1>1, <2>1, <2>3, <2>4 DEF PipeInv, OwnerInv, Opening, Owned
  <2>11. StreamInv'
    BY <2>1, <2>2, <2>6 DEF PipeInv, StreamInv, d
  <2> QED
    BY <2>8, <2>9, <2>10, <2>11
<1>7. CASE SendClose(p)
  <2>1. /\ pc[p] = "close" /\ pc'[p] = "reset" /\ UNCHANGED <<pipe_handle_, handle>>
        /\ CloseHandle(pipe_handle_)
    BY <1>7 DEF SendClose, object, SenderTypeOK
  <2>2. \A q \in Producers : pc[q] \notin {"write", "reset", "clear"}
    BY <1>2, <2>1 DEF Critical
  <2>3. \A q \in Producers : pc'[q] \notin {"write", "close"}
    BY <1>1, <1>2, <2>1 DEF Critical
  <2>4. ~Resetting
    BY <2>2 DEF Resetting
  <2>5. /\ Opening => hPipe # pipe_handle_
        /\ pipe_handle_ \in Handle /\ handles[pipe_handle_] \in Conn
    BY <2>1, <2>4 DEF PipeInv, OwnerInv, Owned, SenderTypeOK
  <2>6. /\ TableInv'
        /\ \A g \in Handle \ {pipe_handle_} :
              /\ handles'[g] = handles[g]
              /\ handles[g] \in Conn => /\ reply'[handles[g]] = reply[handles[g]]
                                        /\ stream'[handles[g]] = stream[handles[g]]
        /\ \A c \in Conn :
              stream'[c] = IF c = handles[pipe_handle_] THEN "empty" ELSE stream[c]
    BY <2>1, <2>5, CloseFrame DEF PipeInv
  <2>7. OpeningInv'
    BY <1>1, <2>5, <2>6 DEF PipeInv, OpeningInv, Opening, Owned
  <2>8. Resetting'
    BY <2>1 DEF Resetting
  <2>9. OwnerInv'
    BY <1>1, <2>3, <2>8 DEF PipeInv, OwnerInv
  <2>10. StreamInv'
    BY <2>6 DEF PipeInv, StreamInv
  <2> QED
    BY <2>6, <2>7, <2>9, <2>10
<1>8. CASE SendReset(p)
  <2>1. /\ pc[p] = "reset" /\ pc'[p] = "clear" /\ pipe_handle_' = Invalid
        /\ UNCHANGED <<handle, handles, reply, stream>>
    BY <1>8 DEF SendReset, world, SenderTypeOK
  <2>2. \A q \in Producers : /\ pc[q] \notin {"write", "close"}
                             /\ pc'[q] \notin {"write", "close"}
    BY <1>1, <1>2, <2>1 DEF Critical
  <2>3. TableInv' /\ OpeningInv'
    BY <1>1, <2>1 DEF PipeInv, TableInv, Open, OpeningInv, Opening, Owned
  <2>4. OwnerInv' /\ StreamInv'
    BY <1>1, <2>1, <2>2 DEF PipeInv, OwnerInv, StreamInv
  <2> QED
    BY <2>3, <2>4
<1>9. CASE SendClear(p)
  BY <1>3, <1>9 DEF SendClear, Return, world, SenderTypeOK
<1> QED
  BY <1>4, <1>5, <1>6, <1>7, <1>8, <1>9 DEF SendRest

(* The connection thread: a new pipe gets a handle that nobody owns, the   *)
(* one that is refused is its own, and an accepted one is published under  *)
(* the mutex.                                                              *)
LEMMA LoopPipe ==
    ASSUME SenderTypeOK, PipeInv, ctlPc # "idle" => Idle, ConnectionLoop
    PROVE  TableInv' /\ OpeningInv' /\ OwnerInv' /\ StreamInv'
<1>1. UNCHANGED <<pc, handle, ctlPc, ctlHandle>>
  BY DEF ConnectionLoop, LoopRunning, LoopConnected, LoopCreate, LoopNoPipe,
     LoopSendToken, LoopAccepted, LoopRefused, LoopPublishPipe, LoopPublishConnected,
     producers, control
<1>2. Resetting <=> Resetting'
  BY <1>1 DEF Resetting
<1>3. CASE LoopRunning \/ LoopConnected \/ LoopNoPipe \/ LoopPublishConnected
  <2>1. UNCHANGED <<pipe_handle_, handles, reply, stream>>
    BY <1>3 DEF LoopRunning, LoopConnected, LoopNoPipe, LoopPublishConnected, object, world
  <2>2. ~Opening'
    BY <1>3 DEF LoopRunning, LoopConnected, LoopNoPipe, LoopPublishConnected, Opening
  <2>3. TableInv' /\ OpeningInv'
    BY <2>1, <2>2 DEF PipeInv, TableInv, Open, OpeningInv, Opening
  <2>4. OwnerInv' /\ StreamInv'
    BY <1>1, <1>2, <2>1, <2>2 DEF PipeInv, OwnerInv, StreamInv, Owned
  <2> QED
    BY <2>3, <2>4
<1>4. CASE LoopAccepted
  <2>1. UNCHANGED <<pipe_handle_, handles, reply, stream, hPipe>>
    BY <1>4 DEF LoopAccepted, object, world
  <2>2. loopPc = "readReply" /\ loopPc' = "publishPipe" /\ Status(hPipe) = "accepted"
    BY <1>4 DEF LoopAccepted
  <2>3. Owned(hPipe)
    BY <2>2, PipeAssumption DEF Status, Owned, PipeInv, OpeningInv, Opening
  <2>4. TableInv' /\ OpeningInv'
    BY <2>1, <2>2, <2>3 DEF PipeInv, TableInv, Open, OpeningInv, Opening, Owned
  <2>5. OwnerInv' /\ StreamInv'
    BY <1>1, <1>2, <2>1, <2>2 DEF PipeInv, OwnerInv, StreamInv, Opening, Owned
  <2> QED
    BY <2>4, <2>5
<1>5. CASE LoopCreate
  <2> DEFINE c == CHOOSE c \in Conn : ~Open(c)
  <2>1. c \in Conn /\ ~Open(c)
    BY <1>5 DEF LoopCreate
  <2>2. PICK h \in Handle : /\ handles[h] = "closed" /\ hPipe' = h
                            /\ handles' = [handles EXCEPT ![h] = c]
    BY <1>5 DEF LoopCreate
  <2> HIDE DEF c
  <2>3. UNCHANGED <<pipe_handle_, reply, stream>> /\ loopPc' = "sendToken"
    BY <1>5 DEF LoopCreate, object
  <2>4. \A g \in Handle : handles'[g] = IF g = h THEN c ELSE handles[g]
    BY <2>2 DEF SenderTypeOK
  <2>5. reply[c] = "none" /\ stream[c] = "empty"
    BY <2>1 DEF PipeInv, TableInv
  <2>6. TableInv'
    <3>1. \A g \in Handle : handles[g] # c
      BY <2>1 DEF Open
    <3>2. \A f, g \in Handle : handles'[f] # "closed" /\ handles'[f] = handles'[g] => f = g
      BY <2>4, <3>1 DEF PipeInv, TableInv
    <3>3. \A d \in Conn : Open(d) => (Open(d))'
      BY <2>2, <2>4, PipeAssumption DEF Open
    <3> QED
      BY <2>3, <3>2, <3>3 DEF PipeInv, TableInv
  <2>7. OpeningInv'
    BY <2>1, <2>2, <2>3, <2>4, <2>5 DEF OpeningInv, Opening
  <2>8. \A g \in Handle \cup {Invalid} : Owned(g) => g # h /\ (Owned(g))'
    BY <2>2, <2>3, <2>4, PipeAssumption DEF Owned
  <2>9. OwnerInv'
    BY <1>1, <1>2, <2>2, <2>3, <2>8 DEF PipeInv, OwnerInv, SenderTypeOK
  <2>10. StreamInv'
    <3>1. \A q \in Producers : pc[q] = "close" => pipe_handle_ # Invalid
      BY DEF PipeInv, OwnerInv
    <3>2. \A d \in Conn : handles[pipe_handle_] = d /\ pipe_handle_ # Invalid =>
                              handles'[pipe_handle_] = d
      BY SMT, <2>2, <2>4, PipeAssumption DEF SenderTypeOK
    <3> QED
      BY <1>1, <2>3, <3>1, <3>2 DEF PipeInv, StreamInv
  <2> QED
    BY <2>6, <2>7, <2>9, <2>10
<1>6. CASE LoopSendToken
  <2>1. /\ loopPc = "sendToken" /\ loopPc' = "readReply" /\ Carry(hPipe, "token")
        /\ UNCHANGED <<pipe_handle_, handles, reply, hPipe>>
    BY <1>6 DEF LoopSendToken, object
  <2>2. hPipe \in Handle /\ handles[hPipe] \in Conn /\ stream[handles[hPipe]] = "empty"
    BY <2>1 DEF PipeInv, OpeningInv, Opening
  <2>3. /\ \A c \in Conn : c # handles[hPipe] => stream'[c] = stream[c]
        /\ stream'[handles[hPipe]] \in {"empty", "ready"}
    BY <2>1, <2>2, CarryFrame DEF Follows
  <2>4. Open(handles[hPipe]) /\ reply[handles[hPipe]] = "none"
    BY <2>2 DEF PipeInv, TableInv, Open, SenderTypeOK
  <2>5. TableInv'
    BY <2>1, <2>2, <2>3, <2>4 DEF PipeInv, TableInv, Open
  <2>6. OpeningInv'
    BY <2>1, <2>2 DEF OpeningInv, Opening
  <2>7. OwnerInv'
    BY <1>1, <1>2, <2>1 DEF PipeInv, OwnerInv, Opening, Owned
  <2>8. StreamInv'
    BY <1>1, <2>1, <2>2, <2>3 DEF PipeInv, StreamInv
  <2> QED
    BY <2>5, <2>6, <2>7, <2>8
<1>7. CASE LoopRefused
  <2>1. /\ loopPc = "readReply" /\ loopPc' = "checkRunning" /\ CloseHandle(hPipe)
        /\ UNCHANGED pipe_handle_
    BY <1>7 DEF LoopRefused, object
  <2>2. Opening /\ ~Opening' /\ hPipe \in Handle /\ handles[hPipe] \in Conn
    BY <2>1 DEF PipeInv, OpeningInv, Opening
  <2>3. /\ TableInv'
        /\ \A g \in Handle \ {hPipe} :
              /\ handles'[g] = handles[g]
              /\ handles[g] \in Conn => /\ reply'[handles[g]] = reply[handles[g]]
                                        /\ stream'[handles[g]] = stream[handles[g]]
        /\ \A c \in Conn : stream'[c] = IF c = handles[hPipe] THEN "empty" ELSE stream[c]
    BY <2>1, <2>2, CloseFrame DEF PipeInv
  <2>4. OpeningInv'
    BY <2>1 DEF OpeningInv, Opening
  <2>5. \A g \in Handle \cup {Invalid} : Owned(g) /\ g # hPipe => (Owned(g))'
    BY <2>3 DEF Owned
  <2>6. OwnerInv'
    BY <1>1, <1>2, <2>1, <2>2, <2>5 DEF PipeInv, OwnerInv, SenderTypeOK
  <2>7. StreamInv'
    <3>1. ASSUME NEW q \in Producers, pc[q] = "close"
          PROVE  pipe_handle_ \in Handle \ {hPipe}
      <4>1. \A r \in Producers : pc[r] # "reset"
        BY <3>1 DEF PipeInv, MutexInv, Critical
      <4>2. ctlPc # "reset"
        BY <3>1 DEF Idle
      <4> QED
        BY <2>2, <3>1, <4>1, <4>2 DEF PipeInv, OwnerInv, Resetting, SenderTypeOK
    <3> QED
      BY <1>1, <2>1, <2>3, <3>1 DEF PipeInv, StreamInv
  <2> QED
    BY <2>3, <2>4, <2>6, <2>7
<1>8. CASE LoopPublishPipe
  <2>1. /\ loopPc = "publishPipe" /\ loopPc' = "publishConnected"
        /\ pipe_handle_' = hPipe /\ UNCHANGED <<handles, reply, stream>>
    BY <1>8 DEF LoopPublishPipe, world
  <2>2. Owned(hPipe) /\ ~Opening'
    BY <2>1 DEF PipeInv, OpeningInv, Opening
  <2>3. \A q \in Producers : pc[q] \notin Critical
    BY <2>1, PipeAssumption DEF PipeInv, MutexInv
  <2>4. TableInv' /\ OpeningInv'
    BY <2>1 DEF PipeInv, TableInv, Open, OpeningInv, Opening
  <2>5. OwnerInv' /\ StreamInv'
    BY <1>1, <2>1, <2>2, <2>3 DEF PipeInv, OwnerInv, StreamInv, Owned, Critical
  <2> QED
    BY <2>4, <2>5
<1> QED
  BY <1>3, <1>4, <1>5, <1>6, <1>7, <1>8 DEF ConnectionLoop

(* Every step of the sender, as long as Stop only runs when nobody sends. *)
LEMMA StepPipe ==
    ASSUME SenderTypeOK, PipeInv, ctlPc # "idle" => Idle, SenderStep
    PROVE  PipeInv'
<1>1. MutexInv'
  BY NextMutex DEF PipeInv
<1>2. CASE UNCHANGED senderVars
  BY <1>2 DEF senderVars, object, producers, loop, control, world, PipeInv, MutexInv,
     TableInv, Open, OpeningInv, Opening, OwnerInv, Owned, Resetting, StreamInv
<1>3. CASE SenderStart
  <2>1. UNCHANGED <<pipe_handle_, pc, handle, ctlPc, ctlHandle, handles, reply, stream>>
    BY <1>3 DEF SenderStart, producers, control, world
  <2>2. ~Opening' /\ loopPc' = "checkRunning"
    BY <1>3 DEF SenderStart, Opening
  <2> QED
    BY SMT, <1>1, <2>1, <2>2 DEF PipeInv, TableInv, Open, OpeningInv, Opening, OwnerInv, Owned,
       Resetting, StreamInv
<1>4. CASE StopClearRunning
  <2>1. /\ UNCHANGED <<pipe_handle_, pc, handle, loopPc, hPipe, handles, reply, stream>>
        /\ ctlPc = "idle" /\ ctlPc' = "test"
    BY <1>4 DEF StopClearRunning, producers, loop, world
  <2> QED
    BY SMT, <1>1, <2>1 DEF PipeInv, TableInv, Open, OpeningInv, Opening, OwnerInv, Owned,
       Resetting, StreamInv
<1>5. CASE StopRest
  <2>1. Idle
    BY <1>5 DEF StopRest, StopTest, StopCloseHandle, StopReset, StopClearConnected, StopJoin
  <2> QED
    BY <1>1, <1>5, <2>1, StopPipe DEF PipeInv
<1>6. ASSUME NEW p \in Producers, SendBegin(p) \/ SendRest(p) PROVE PipeInv'
  <2>1. CASE ctlPc = "idle"
    BY <1>1, <1>6, <2>1, SendPipe DEF PipeInv
  <2>2. CASE Idle /\ SendBegin(p)
    <3>1. /\ UNCHANGED <<pipe_handle_, handle, handles, reply, stream>>
          /\ pc'[p] \in {"idle", "lock"}
      BY <1>6, <2>2 DEF SendBegin, object, world, SenderTypeOK
    <3>2. /\ \A q \in Producers \ {p} : pc'[q] = pc[q]
          /\ UNCHANGED <<loopPc, hPipe, ctlPc, ctlHandle>>
      BY <1>6, SendFrame
    <3>3. \A q \in Producers : pc'[q] \in {"idle", "lock"} /\ pc[q] = "idle"
      BY <2>2, <3>1, <3>2 DEF Idle
    <3>4. TableInv' /\ OpeningInv'
      BY <3>1, <3>2 DEF PipeInv, TableInv, Open, OpeningInv, Opening, Owned
    <3>5. OwnerInv' /\ StreamInv'
      BY <3>1, <3>2, <3>3 DEF PipeInv, OwnerInv, Resetting, StreamInv, Opening, Owned
    <3> QED
      BY <1>1, <3>4, <3>5 DEF PipeInv
  <2>3. Idle => ~SendRest(p)
    BY <1>6, SendFrame DEF Idle
  <2> QED
    BY <1>6, <2>1, <2>2, <2>3
<1>7. CASE ConnectionLoop
  BY <1>1, <1>7, LoopPipe DEF PipeInv
<1>8. ASSUME NEW c \in Conn, AgentReply(c) \/ AgentClose(c) PROVE PipeInv'
  <2>1. UNCHANGED <<pipe_handle_, pc, handle, loopPc, hPipe, ctlPc, ctlHandle, handles, stream>>
    BY <1>8 DEF AgentReply, AgentClose, object, producers, loop, control
  <2>2. \A d \in Conn : \/ reply'[d] = reply[d]
                        \/ d = c /\ reply[d] = "none" /\ Open(c) /\ stream[c] # "empty"
    BY <1>8 DEF AgentReply, AgentClose, SenderTypeOK
  <2>3. TableInv'
    BY <2>1, <2>2 DEF PipeInv, TableInv, Open
  <2>4. \A h \in Handle \cup {Invalid} : Owned(h) => (Owned(h))'
    BY <2>1, <2>2 DEF Owned
  <2>5. OpeningInv' /\ OwnerInv'
    BY <2>1, <2>4 DEF PipeInv, OpeningInv, Opening, OwnerInv, Resetting, SenderTypeOK
  <2>6. StreamInv'
    BY <2>1 DEF PipeInv, StreamInv
  <2> QED
    BY <1>1, <2>3, <2>5, <2>6 DEF PipeInv
<1> QED
  BY <1>2, <1>3, <1>4, <1>5, <1>6, <1>7, <1>8 DEF SenderStep
-----------------------------------------------------------------------------
(* While Stop does not run: who sets or clears connected_ holds the mutex. *)
LEMMA StepConnected ==
    ASSUME SenderTypeOK, PipeInv, ConnectedInv, ctlPc = "idle", ctlPc' = "idle", SenderStep
    PROVE  ConnectedInv'
<1>1. CASE UNCHANGED <<connected_, pipe_handle_, pc, loopPc>>
  BY <1>1 DEF ConnectedInv
<1>2. CASE SenderStart
  <2>1. UNCHANGED <<connected_, pipe_handle_, pc>> /\ loopPc = "none"
        /\ loopPc' = "checkRunning"
    BY <1>2 DEF SenderStart, producers, PipeInv, MutexInv
  <2> QED
    BY <2>1 DEF ConnectedInv
<1>3. ASSUME NEW p \in Producers, SendBegin(p) \/ SendRest(p) PROVE ConnectedInv'
  <2>1. /\ \A q \in Producers \ {p} : pc'[q] = pc[q]
        /\ loopPc' = loopPc
    BY <1>3, SendFrame
  <2>2. pc[p] \in Critical => /\ \A q \in Producers \ {p} : pc[q] \notin Critical
                              /\ loopPc # "publishConnected"
    BY PipeAssumption DEF PipeInv, MutexInv
  <2>3. CASE SendReset(p)
    <3>1. pc[p] = "reset" /\ pc'[p] = "clear" /\ pipe_handle_' = Invalid
      BY <2>3 DEF SendReset, SenderTypeOK
    <3> QED
      BY <2>1, <2>2, <3>1 DEF ConnectedInv, Critical
  <2>4. CASE SendClear(p)
    <3>1. pc[p] = "clear" /\ pc'[p] = "idle" /\ ~connected_' /\ UNCHANGED pipe_handle_
      BY <2>4 DEF SendClear, Return, SenderTypeOK
    <3> QED
      BY <2>1, <2>2, <3>1 DEF ConnectedInv, Critical
  <2>5. CASE ~SendReset(p) /\ ~SendClear(p)
    <3>1. UNCHANGED <<connected_, pipe_handle_>> /\ pc[p] # "clear" /\ pc'[p] # "clear"
      BY <1>3, <2>5 DEF SendBegin, SendRest, SendLock, SendWrite, SendWriteFails,
         SendClose, Return, object, SenderTypeOK
    <3> QED
      BY <2>1, <3>1 DEF ConnectedInv
  <2> QED
    BY <2>3, <2>4, <2>5
<1>4. CASE ConnectionLoop
  <2>1. UNCHANGED pc
    BY <1>4 DEF ConnectionLoop, LoopRunning, LoopConnected, LoopCreate, LoopNoPipe,
       LoopSendToken, LoopAccepted, LoopRefused, LoopPublishPipe, LoopPublishConnected,
       producers
  <2>2. CASE LoopPublishPipe
    <3>1. hPipe # Invalid /\ pipe_handle_' = hPipe /\ UNCHANGED connected_
      BY <2>2 DEF LoopPublishPipe, PipeInv, OpeningInv, Owned
    <3>2. \A q \in Producers : pc[q] # "clear"
      BY <2>2, PipeAssumption DEF LoopPublishPipe, PipeInv, MutexInv, Critical
    <3> QED
      BY <2>1, <2>2, <3>1, <3>2 DEF LoopPublishPipe, ConnectedInv
  <2>3. CASE LoopPublishConnected
    BY <2>1, <2>3 DEF LoopPublishConnected, ConnectedInv
  <2>4. CASE ~LoopPublishPipe /\ ~LoopPublishConnected
    <3>1. /\ UNCHANGED <<connected_, pipe_handle_>>
          /\ loopPc # "publishConnected" /\ loopPc' # "publishConnected"
      BY <1>4, <2>4 DEF ConnectionLoop, LoopRunning, LoopConnected, LoopCreate, LoopNoPipe,
         LoopSendToken, LoopAccepted, LoopRefused, object
    <3> QED
      BY <2>1, <3>1 DEF ConnectedInv
  <2> QED
    BY <2>2, <2>3, <2>4
<1>5. \/ ~StopClearRunning /\ ~StopRest
      \/ UNCHANGED <<connected_, pipe_handle_, pc, loopPc>>
  BY DEF StopClearRunning, StopRest, StopTest, StopCloseHandle, StopReset,
     StopClearConnected, StopJoin
<1> QED
  BY <1>1, <1>2, <1>3, <1>4, <1>5 DEF SenderStep, AgentReply, AgentClose, senderVars,
     object, producers, loop

(* Everything is closed and idle. *)
LEMMA InitIInv == ASSUME Init PROVE IInv
<1>1. EtwInv /\ TracesOwnSession /\ OneConsumer
  BY InitConsumer DEF ConsumerInv
<1>2. CallInv
  BY InitCall
<1>3. SenderTypeOK
  BY DEF Init, SenderInit, SenderTypeOK
<1>4. PipeInv
  BY PipeAssumption DEF Init, SenderInit, PipeInv, MutexInv, Critical, TableInv,
     OpeningInv, Opening, OwnerInv, StreamInv
<1>5. ConnectedInv
  BY DEF Init, SenderInit, ConnectedInv
<1> QED
  BY <1>1, <1>2, <1>3, <1>4, <1>5 DEF IInv

(* Every step of the engine keeps all layers. *)
LEMMA NextIInv == ASSUME IInv, [Next]_vars PROVE IInv'
<1>1. EtwInv' /\ TracesOwnSession' /\ OneConsumer'
  BY NextConsumer DEF IInv, ConsumerInv
<1>2. CallInv'
  BY NextCall DEF IInv
<1>3. SenderStep
  BY NextSenderStep
<1>4. SenderTypeOK'
  BY <1>3, StepTypeOK DEF IInv
<1>5. (stops' = 0 => stops = 0) /\ (~overran' => ~overran)
  <2>1. stops' = stops \/ (stops' = stops + 1 /\ stops \in Nat)
    BY DEF Next, initialize_telemetry_engine, start_telemetry_engine,
       stop_telemetry_engine, send_telemetry_event, FfiThread, StartEtw, StopWaited,
       StopSender, StopReturns, SendReturns, ConnectionThread, Environment, Agent,
       TraceThread, TraceCallback, TraceReturns, history, vars, IInv, CallInv
  <2>2. overran' = overran \/ overran' = (overran \/ ~Waited)
    BY DEF Next, initialize_telemetry_engine, start_telemetry_engine,
       stop_telemetry_engine, send_telemetry_event, FfiThread, StartEtw, StopWaited,
       StopSender, StopReturns, SendReturns, ConnectionThread, Environment, Agent,
       TraceThread, TraceCallback, TraceReturns, history, vars
  <2>3. stops' = 0 => stops = 0
    BY SMT, <2>1
  <2>4. ~overran' => ~overran
    <3>1. CASE overran' = overran
      BY <3>1
    <3>2. CASE overran' = (overran \/ ~Waited)
      BY <3>2
    <3> QED
      BY <2>2, <3>1, <3>2
  <2> QED
    BY <2>3, <2>4
<1>6. Calm' => Calm
  BY <1>5 DEF Calm
<1>7. Calm /\ ctlPc # "idle" => Idle
  BY NoSender DEF IInv, CallInv, Calm
<1>8. Calm' => PipeInv'
  BY <1>3, <1>6, <1>7, StepPipe DEF IInv
<1>9. stops' = 0 => ConnectedInv'
  <2>1. stops' = 0 => ctlPc = "idle" /\ ctlPc' = "idle" /\ ConnectedInv /\ PipeInv
    BY <1>2, <1>5 DEF IInv, CallInv, Calm
  <2> QED
    BY <1>3, <2>1, StepConnected DEF IInv
<1> QED
  BY <1>1, <1>2, <1>4, <1>8, <1>9 DEF IInv

(* The invariant holds in every behaviour. *)
LEMMA AlwaysIInv == Spec => []IInv
BY InitIInv, NextIInv, PTL DEF Spec

(* As long as Stop has never given up waiting for the consumer, SendEvent  *)
(* and Stop of the sender use and close only pipes the agent accepted,     *)
(* although Stop takes no lock and handles are reused.                     *)
THEOREM HandlesAlwaysOwned == Spec => []HandlesOwned
<1>1. ASSUME IInv PROVE HandlesOwned
  <2> SUFFICES ASSUME ~overran PROVE HandlesOwned
    BY DEF HandlesOwned
  <2>1. PipeInv /\ (ctlPc # "idle" => Idle)
    BY <1>1, NoSender DEF IInv, CallInv, Calm
  <2>2. ASSUME NEW p \in Producers, pc[p] \in {"write", "close"}
        PROVE  Owned(pipe_handle_)
    <3>1. ctlPc = "idle" /\ \A q \in Producers : pc[q] # "reset"
      BY <2>1, <2>2 DEF Idle, PipeInv, MutexInv, Critical
    <3> QED
      BY <2>1, <2>2, <3>1 DEF PipeInv, OwnerInv, Resetting
  <2> QED
    BY <2>1, <2>2 DEF PipeInv, OwnerInv, HandlesOwned
<1> QED
  BY <1>1, AlwaysIInv, PTL

(* Until the first Stop, whoever finds send_mutex_ free finds connected_   *)
(* and an accepted pipe both or neither.                                   *)
THEOREM ConnectedAlwaysHasPipe == Spec => []ConnectedHasPipe
<1>1. ASSUME IInv PROVE ConnectedHasPipe
  <2> SUFFICES ASSUME stops = 0, send_mutex_ = Nobody
               PROVE  connected_ <=> Owned(pipe_handle_)
    BY DEF ConnectedHasPipe
  <2>1. PipeInv /\ ConnectedInv /\ ctlPc = "idle"
    BY <1>1 DEF IInv, CallInv, Calm
  <2>2. loopPc # "publishConnected" /\ \A p \in Producers : pc[p] \notin {"reset", "clear"}
    BY <2>1, PipeAssumption DEF PipeInv, MutexInv, Critical
  <2>3. pipe_handle_ # Invalid <=> Owned(pipe_handle_)
    BY <2>1, <2>2 DEF PipeInv, OwnerInv, Resetting, Owned
  <2>4. connected_ <=> pipe_handle_ # Invalid
    BY <2>1, <2>2 DEF ConnectedInv
  <2> QED
    BY <2>3, <2>4
<1> QED
  BY <1>1, AlwaysIInv, PTL

(* As long as Stop has never given up waiting for the consumer, the agent  *)
(* can follow every pipe: the token comes first and once, and nothing      *)
(* follows a partly written event.                                         *)
THEOREM StreamsNeverBroken == Spec => []WindowsStreams
<1>1. IInv => WindowsStreams
  BY DEF IInv, Calm, PipeInv, StreamInv, WindowsStreams
<1> QED
  BY <1>1, AlwaysIInv, PTL
=============================================================================

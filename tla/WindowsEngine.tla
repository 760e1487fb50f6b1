--------------------------- MODULE WindowsEngine ---------------------------
(***************************************************************************)
(* The Windows branches of ffi.cpp over EtwConsumer and WindowsSender.     *)
(* The trace thread sends from its callback; the host sends through the    *)
(* FFI.  g_ffi_mutex admits one FFI call at a time, so `call' is the step  *)
(* of the only one in progress.  The file system driver client and the     *)
(* clipboard guard are stubs or stay on their own and hold no state here.  *)
(***************************************************************************)
EXTENDS WindowsSender, EtwConsumer, FiniteSets

CONSTANTS
    Host,       \* the producer that sends through the FFI
    MaxStarts   \* bound: calls of start_telemetry_engine

VARIABLES
    g_initialized, g_running, call,
    starts,         \* history, for the bound
    stops,          \* history: Stop of the sender so far
    overran         \* history: Stop of the consumer has once waited in vain

ASSUME EngineAssumption ==
    /\ Host \notin Thread /\ Producers = Thread \cup {Host}
    /\ MaxStarts \in 0..Cardinality(Thread)

flags == <<g_initialized, g_running>>
history == <<starts, stops, overran>>
vars == <<senderVars, etw, flags, call, history>>

WindowsTypeOK ==
    /\ SenderTypeOK /\ EtwTypeOK
    /\ g_initialized \in BOOLEAN /\ g_running \in BOOLEAN /\ overran \in BOOLEAN
    /\ call \in {"idle", "startEtw", "waitEtw", "stopSender", "joinSender", "send"}
    /\ starts \in 0..MaxStarts /\ stops \in 0..MaxStarts

Init ==
    /\ SenderInit /\ EtwInit
    /\ g_initialized = FALSE /\ g_running = FALSE /\ call = "idle"
    /\ starts = 0 /\ stops = 0 /\ overran = FALSE
-----------------------------------------------------------------------------
initialize_telemetry_engine ==
    /\ call = "idle" /\ ~g_initialized
    /\ \/ EtwInitialize /\ g_initialized' = TRUE
       \/ EtwInitializeFails /\ UNCHANGED g_initialized
    /\ UNCHANGED <<senderVars, g_running, call, history>>

start_telemetry_engine ==
    /\ call = "idle" /\ g_initialized /\ ~g_running /\ starts < MaxStarts
    /\ SenderStart
    /\ call' = "startEtw" /\ starts' = starts + 1
    /\ UNCHANGED <<etw, flags, stops, overran>>

(* Fault: a start runs the initialization of the consumer again. *)
StartEtwAgain ==
    /\ call = "startEtw"
    /\ IF session_handle_
       THEN EtwStart /\ call' = "idle" /\ g_running' = TRUE
       ELSE EtwInitialize /\ UNCHANGED <<call, g_running>>
    /\ UNCHANGED <<senderVars, g_initialized, history>>

StartEtw ==
    /\ call = "startEtw"
    /\ \/ EtwStart /\ call' = "idle" /\ g_running' = TRUE
       \/ EtwStartFails /\ call' = "stopSender" /\ UNCHANGED g_running
    /\ UNCHANGED <<senderVars, g_initialized, history>>

(* Fault: the sender goes first, as if the consumer needed no sender. *)
StopSkipsWait ==
    /\ call = "idle" /\ g_running
    /\ StopSession
    /\ call' = "stopSender"
    /\ UNCHANGED <<senderVars, flags, history>>

stop_telemetry_engine ==
    /\ call = "idle" /\ g_running
    /\ StopSession
    /\ call' = "waitEtw"
    /\ UNCHANGED <<senderVars, flags, history>>

(* The wait ends with the thread, or after five seconds without it. *)
StopWaited ==
    /\ call = "waitEtw" /\ call' = "stopSender"
    /\ StopCloseThread
    /\ overran' = (overran \/ ~Waited)
    /\ UNCHANGED <<senderVars, flags, starts, stops>>

StopSender ==
    /\ call = "stopSender" /\ call' = "joinSender"
    /\ StopClearRunning
    /\ stops' = stops + 1
    /\ UNCHANGED <<etw, flags, starts, overran>>

StopReturns ==
    /\ call = "joinSender" /\ ctlPc = "idle"
    /\ call' = "idle" /\ g_running' = FALSE
    /\ UNCHANGED <<senderVars, etw, g_initialized, history>>

send_telemetry_event ==
    /\ call = "idle" /\ g_running
    /\ SendBegin(Host)
    /\ call' = "send"
    /\ UNCHANGED <<etw, flags, history>>

SendReturns ==
    /\ call = "send" /\ pc[Host] = "idle" /\ call' = "idle"
    /\ UNCHANGED <<senderVars, etw, flags, history>>
-----------------------------------------------------------------------------
(* The callback Start installs is SendEvent of the sender. *)
TraceCallback(t) ==
    /\ ProcessEvent(t) /\ SendBegin(t)
    /\ UNCHANGED <<flags, call, history>>

TraceReturns(t) ==
    /\ pc[t] = "idle" /\ CallbackReturns(t)
    /\ UNCHANGED <<senderVars, flags, call, history>>

TraceThread(t) ==
    \/ TraceCallback(t) \/ TraceReturns(t)
    \/ /\ \/ OpenTrace(t) \/ OpenTraceFails(t)
          \/ ProcessEventSkips(t) \/ ProcessTraceReturns(t)
       /\ UNCHANGED <<senderVars, flags, call, history>>
    \/ SendRest(t) /\ UNCHANGED <<etw, flags, call, history>>

ConnectionThread == ConnectionLoop /\ UNCHANGED <<etw, flags, call, history>>

(* What is left of a call of the FFI. *)
FfiThread ==
    \/ StartEtw \/ StopWaited \/ StopSender \/ StopReturns \/ SendReturns
    \/ (StopRest \/ SendRest(Host)) /\ UNCHANGED <<etw, flags, call, history>>

Agent(c) ==
    (AgentReply(c) \/ AgentClose(c)) /\ UNCHANGED <<etw, flags, call, history>>

Environment ==
    \/ \E c \in Conn : Agent(c)
    \/ ProviderEvent /\ UNCHANGED <<senderVars, flags, call, history>>

Next == \/ initialize_telemetry_engine \/ start_telemetry_engine
        \/ stop_telemetry_engine \/ send_telemetry_event
        \/ FfiThread \/ ConnectionThread \/ Environment
        \/ \E t \in Thread : TraceThread(t)

(* A producer in WriteFile on a synchronous pipe: it returns when there is *)
(* no agent at the other end any more, and may wait for ever for one that  *)
(* does not read.                                                          *)
Abandoned(h) == h # Invalid /\ handles[h] \in Conn /\ peer[handles[h]] = "gone"
InWriteFile(p) == pc[p] = "write" /\ ~Abandoned(handle[p])

(* Threads that are not in WriteFile are scheduled and get send_mutex_ in  *)
(* the end (of the trace threads it is enough that one of them runs); the  *)
(* agent reads a token and answers it or goes away, and is free to do      *)
(* nothing after that.                                                     *)
Fairness ==
    /\ SF_vars(~InWriteFile(Host) /\ FfiThread) /\ SF_vars(ConnectionThread)
    /\ SF_vars(\E t \in Thread : ~InWriteFile(t) /\ TraceThread(t))
    /\ \A c \in Conn : WF_vars(reply[c] = "none" /\ Agent(c))

Spec == Init /\ [][Next]_vars /\ Fairness
-----------------------------------------------------------------------------
(* Initialize stops the session a crashed process left under the same      *)
(* name, so what a trace thread consumes is this process's own session.    *)
TracesOwnSession ==
    \A t \in Thread : tracePc[t] \in {"process", "callback"} => source[t] = "own"

(* s_sequence and ProcessEvent have no lock.  Still at most one thread     *)
(* processes events, even when Stop gave up on the old thread after five   *)
(* seconds and the engine was started again.                               *)
OneConsumer ==
    \A t, u \in Thread :
       {tracePc[t], tracePc[u]} \subseteq {"process", "callback"} => t = u

(* Stop closes pipe_handle_ without send_mutex_.  As long as the consumer  *)
(* has never outlasted its five seconds, every WriteFile and CloseHandle   *)
(* of SendEvent, and the CloseHandle of Stop, still hit a pipe of the      *)
(* sender that the agent has accepted, and never a handle of others.       *)
Owned(h) == h # Invalid /\ handles[h] \in Conn /\ reply[handles[h]] = "accepted"
HandlesOwned ==
    ~overran =>
       /\ \A p \in Producers :
             /\ pc[p] \in {"write", "close"} => Owned(pipe_handle_)
             /\ pc[p] = "write" => handle[p] = pipe_handle_
       /\ ctlPc = "close" => Owned(ctlHandle)

(* Until Stop is called for the first time, connected_ means a pipe that   *)
(* the agent accepted, for whoever holds or could take send_mutex_ next:   *)
(* publishing and taking back are each complete when the lock is free.     *)
ConnectedHasPipe ==
    stops = 0 /\ send_mutex_ = Nobody => (connected_ <=> Owned(pipe_handle_))

(* SendEvent closes the pipe on any failed write, under the lock: nothing  *)
(* follows a partly written event, and only the token precedes the first.  *)
WindowsStreams == ~overran => \A c \in Conn : stream[c] # "broken"

(* g_initialized is never reset and Start does not create a session: once  *)
(* stopped, the process never has a session again, however often           *)
(* start_telemetry_engine succeeds.                                        *)
StoppedStaysDeaf ==
    [][g_initialized /\ session = "none" => session' = "none"]_vars

(* stop_telemetry_engine, and every other call, returns: the consumer is   *)
(* waited for with a limit, and the connection thread sees running_.  One  *)
(* thing alone keeps a call waiting for ever: a WriteFile, of the call     *)
(* itself or of a trace thread that thereby holds send_mutex_, to an agent *)
(* that is there and does not read.                                        *)
WriteFileNeverReturns == [](\E p \in Producers : InWriteFile(p))
CallsReturn == (call # "idle") ~> (call = "idle" \/ WriteFileNeverReturns)

(* Stopping the session ends the consumption of events, although handling  *)
(* an event raises further ones, without end, while the session lives, and *)
(* although Stop may have given up waiting by then.  Only such a WriteFile *)
(* keeps a trace thread.                                                   *)
Consuming == \E t \in Thread : tracePc[t] \in {"process", "callback"}
TraceThreadEnds ==
    (session = "none" /\ Consuming) ~> (~Consuming \/ WriteFileNeverReturns)
=============================================================================

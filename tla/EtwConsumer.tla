---------------------------- MODULE EtwConsumer ----------------------------
(***************************************************************************)
(* EtwConsumer (etw_consumer.cpp): the session, the thread that consumes   *)
(* it and the five seconds Stop waits for that thread.                     *)
(*                                                                         *)
(* External: a session has a name, outlives the process that started it    *)
(* and is found by that name.  ProcessTrace delivers what the session has  *)
(* buffered and returns once the session is stopped and drained.           *)
(***************************************************************************)
EXTENDS Naturals

CONSTANTS
    Thread,     \* threads CreateThread can return
    NoThread,   \* thread_handle_ is NULL
    MaxBuffered \* events the buffers of the session hold; further ones are lost

VARIABLES
    session,            \* behind the name: none, of this process, or stale
    session_handle_,    \* TRUE: the handle of this process's session
    thread_handle_,
    tracePc, source,    \* threads: step, the session they opened
    buffered            \* events the session holds

etw == <<session, session_handle_, thread_handle_, tracePc, source, buffered>>

ASSUME EtwAssumption == NoThread \notin Thread /\ MaxBuffered \in Nat

EtwTypeOK ==
    /\ session \in {"none", "stale", "own"} /\ session_handle_ \in BOOLEAN
    /\ thread_handle_ \in Thread \cup {NoThread}
    /\ tracePc \in [Thread -> {"unborn", "open", "process", "callback", "done"}]
    /\ source \in [Thread -> {"none", "stale", "own"}]
    /\ buffered \in 0..MaxBuffered

(* A process that crashed earlier may have left its session behind. *)
EtwInit ==
    /\ session \in {"none", "stale"} /\ session_handle_ = FALSE
    /\ thread_handle_ = NoThread
    /\ tracePc = [t \in Thread |-> "unborn"] /\ source = [t \in Thread |-> "none"]
    /\ buffered = 0
-----------------------------------------------------------------------------
(* Fault: a session of that name that exists already will do. *)
EtwInitializeKeepsStale ==
    /\ session' = IF session = "stale" THEN "stale" ELSE "own"
    /\ session_handle_' = TRUE /\ buffered' = 0
    /\ UNCHANGED <<thread_handle_, tracePc, source>>

(* Initialize stops a session of that name and starts its own; providers   *)
(* that cannot be enabled are only logged.                                 *)
EtwInitialize ==
    /\ session' = "own" /\ session_handle_' = TRUE /\ buffered' = 0
    /\ UNCHANGED <<thread_handle_, tracePc, source>>

EtwInitializeFails ==
    /\ session' = "none" /\ buffered' = 0
    /\ UNCHANGED <<session_handle_, thread_handle_, tracePc, source>>

(* Start creates a thread, whether or not there is one, or a session. *)
EtwStart ==
    /\ LET t == CHOOSE t \in Thread : tracePc[t] = "unborn" IN
       tracePc' = [tracePc EXCEPT ![t] = "open"] /\ thread_handle_' = t
    /\ UNCHANGED <<session, session_handle_, source, buffered>>

EtwStartFails ==
    /\ thread_handle_' = NoThread
    /\ UNCHANGED <<session, session_handle_, tracePc, source, buffered>>

(* Fault: Stop forgets the handle and leaves the session running. *)
StopKeepsSession ==
    /\ session_handle_' = FALSE
    /\ UNCHANGED <<session, thread_handle_, tracePc, source, buffered>>

(* Stop: the session first, if this process still has it. *)
StopSession ==
    /\ session' = IF session_handle_ THEN "none" ELSE session
    /\ session_handle_' = FALSE
    /\ UNCHANGED <<thread_handle_, tracePc, source, buffered>>

(* WaitForSingleObject, whose result is ignored. *)
Waited == thread_handle_ # NoThread => tracePc[thread_handle_] = "done"
StopCloseThread ==
    /\ thread_handle_' = NoThread
    /\ UNCHANGED <<session, session_handle_, tracePc, source, buffered>>
-----------------------------------------------------------------------------
(* TraceThread. *)
OpenTrace(t) ==
    /\ tracePc[t] = "open" /\ session # "none"
    /\ tracePc' = [tracePc EXCEPT ![t] = "process"]
    /\ source' = [source EXCEPT ![t] = session]
    /\ UNCHANGED <<session, session_handle_, thread_handle_, buffered>>

OpenTraceFails(t) ==
    /\ tracePc[t] = "open" /\ tracePc' = [tracePc EXCEPT ![t] = "done"]
    /\ UNCHANGED <<session, session_handle_, thread_handle_, source, buffered>>

(* What a stale session has buffered goes with it. *)
Raise(held) == session = "own" /\ held < MaxBuffered /\ buffered' = held + 1

(* ProcessEvent looks for the zone of the file an event is about, or at    *)
(* the signature of a loaded image: it opens a file and may thereby raise  *)
(* another event, without end as long as the session lives.                *)
LookAtFile(held) == Raise(held) \/ buffered' = held

(* An event without schema, or of a kind that is not passed on. *)
ProcessEventSkips(t) ==
    /\ tracePc[t] = "process" /\ buffered > 0 /\ buffered' = buffered - 1
    /\ UNCHANGED <<session, session_handle_, thread_handle_, tracePc, source>>

(* The others are numbered, described and handed to the callback.  The     *)
(* numbers are s_sequence, a plain static: they need a single consumer.    *)
ProcessEvent(t) ==
    /\ tracePc[t] = "process" /\ buffered > 0 /\ LookAtFile(buffered - 1)
    /\ tracePc' = [tracePc EXCEPT ![t] = "callback"]
    /\ UNCHANGED <<session, session_handle_, thread_handle_, source>>

CallbackReturns(t) ==
    /\ tracePc[t] = "callback" /\ tracePc' = [tracePc EXCEPT ![t] = "process"]
    /\ UNCHANGED <<session, session_handle_, thread_handle_, source, buffered>>

(* ProcessTrace returns and the thread ends. *)
ProcessTraceReturns(t) ==
    /\ tracePc[t] = "process" /\ session # source[t] /\ buffered = 0
    /\ tracePc' = [tracePc EXCEPT ![t] = "done"] /\ source' = [source EXCEPT ![t] = "none"]
    /\ UNCHANGED <<session, session_handle_, thread_handle_, buffered>>

ProviderEvent ==
    /\ Raise(buffered)
    /\ UNCHANGED <<session, session_handle_, thread_handle_, tracePc, source>>
=============================================================================

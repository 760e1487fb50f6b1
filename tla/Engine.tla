------------------------------- MODULE Engine -------------------------------
(***************************************************************************)
(* The engine of ffi.cpp on Linux: initialize, start, stop and send under  *)
(* g_ffi_mutex, the loader and the fanotify monitor with their threads,    *)
(* and how these use the two senders.  A sender is reduced to running_ and *)
(* to which threads are inside its SendEvent; TelemetrySender and          *)
(* TtySender are its details and rely on SendersQuiet below.               *)
(***************************************************************************)
EXTENDS Naturals, FiniteSets

CONSTANTS Obj, Null

VARIABLES
    loader_initialized, loader_running, lsm_active_, mock_mode_, bpf_obj_, links,
    ring_buf_, pollPc, loaderPc, result, attached, opened, loaded, retried,
    fan_initialized, fan_running, fanotify_fd_, fanFile, monPc, monFd, fanPc, strays,
    g_initialized, g_running,
    has_fanotify,                   \* g_fanotify is not null
    sender_running, tty_running,    \* running_ of g_sender and g_tty_sender
    call                            \* step of the call that holds g_ffi_mutex

Loader == INSTANCE EbpfLoader
Fanotify == INSTANCE FanotifyMonitor

loader == <<loader_initialized, loader_running, lsm_active_, mock_mode_, bpf_obj_,
            links, ring_buf_, pollPc, loaderPc, result, attached, opened, loaded,
            retried>>
fanotify == <<fan_initialized, fan_running, fanotify_fd_, fanFile, monPc, monFd,
              fanPc, strays>>
engine == <<g_initialized, g_running, has_fanotify, sender_running, tty_running>>
vars == <<loader, fanotify, engine, call>>

CallStep == {"idle", "startLoader", "loaderStarting", "startFanotify", "failSender",
             "stopLoader", "loaderStopping", "stopFanotify", "fanotifyStopping",
             "stopSender", "sendEvent"}

TypeOK ==
    /\ Loader!TypeOK /\ Fanotify!TypeOK
    /\ g_initialized \in BOOLEAN /\ g_running \in BOOLEAN /\ has_fanotify \in BOOLEAN
    /\ sender_running \in BOOLEAN /\ tty_running \in BOOLEAN
    /\ call \in CallStep

Init ==
    /\ Loader!Init /\ Fanotify!Init
    /\ g_initialized = FALSE /\ g_running = FALSE /\ has_fanotify = FALSE
    /\ sender_running = FALSE /\ tty_running = FALSE
    /\ call = "idle"
-----------------------------------------------------------------------------
(* Fault: initialize does not look at g_initialized. *)
InitializeAgain ==
    /\ call = "idle"
    /\ Loader!Initialize
    /\ \/ Fanotify!Initialize /\ has_fanotify' = TRUE
       \/ UNCHANGED <<fanotify, has_fanotify>>
    /\ g_initialized' = TRUE
    /\ UNCHANGED <<g_running, sender_running, tty_running, call>>

(* initialize_telemetry_engine: a fanotify failure is tolerated. *)
initialize_telemetry_engine ==
    /\ call = "idle" /\ ~g_initialized
    /\ Loader!Initialize
    /\ \/ Fanotify!Initialize /\ has_fanotify' = TRUE
       \/ UNCHANGED <<fanotify, has_fanotify>>
    /\ g_initialized' = TRUE
    /\ UNCHANGED <<g_running, sender_running, tty_running, call>>

(* start_telemetry_engine: both senders, then the loader, then fanotify. *)
start_telemetry_engine ==
    /\ call = "idle" /\ g_initialized /\ ~g_running /\ ~sender_running
    /\ sender_running' = TRUE /\ tty_running' = TRUE
    /\ call' = "startLoader"
    /\ UNCHANGED <<loader, fanotify, g_initialized, g_running, has_fanotify>>

StartLoader ==
    /\ call = "startLoader"
    /\ Loader!Start
    /\ call' = "loaderStarting"
    /\ UNCHANGED <<fanotify, engine>>

(* Fault: start goes on when the loader failed. *)
LoaderResultIgnored ==
    /\ call = "loaderStarting" /\ loaderPc = "idle"
    /\ call' = "startFanotify"
    /\ UNCHANGED <<loader, fanotify, engine>>

(* A failed loader stops the TTY sender and the sender again. *)
LoaderStarted ==
    /\ call = "loaderStarting" /\ loaderPc = "idle"
    /\ IF result = "ok"
       THEN call' = "startFanotify" /\ UNCHANGED tty_running
       ELSE call' = "failSender" /\ tty_running' = FALSE
    /\ UNCHANGED <<loader, fanotify, g_initialized, g_running, has_fanotify, sender_running>>

(* Fault: a failed start leaves the sender running. *)
FailKeepsSender ==
    /\ call = "failSender" /\ call' = "idle"
    /\ UNCHANGED <<loader, fanotify, engine>>

StartFails ==
    /\ call = "failSender"
    /\ sender_running' = FALSE /\ call' = "idle"
    /\ UNCHANGED <<loader, fanotify, g_initialized, g_running, has_fanotify, tty_running>>

(* A fanotify monitor that does not start is only a warning. *)
StartFanotify ==
    /\ call = "startFanotify"
    /\ \/ has_fanotify /\ Fanotify!Start
       \/ ~(has_fanotify /\ fan_initialized /\ ~fan_running) /\ UNCHANGED fanotify
    /\ g_running' = TRUE /\ call' = "idle"
    /\ UNCHANGED <<loader, g_initialized, has_fanotify, sender_running, tty_running>>
-----------------------------------------------------------------------------
(* Fault: stop stops the sender before its producers. *)
StopSenderFirst ==
    /\ call = "idle" /\ g_running
    /\ tty_running' = FALSE /\ sender_running' = FALSE /\ call' = "stopLoader"
    /\ UNCHANGED <<loader, fanotify, g_initialized, g_running, has_fanotify>>

(* stop_telemetry_engine: TTY sender, loader, fanotify, sender. *)
stop_telemetry_engine ==
    /\ call = "idle" /\ g_running
    /\ tty_running' = FALSE /\ call' = "stopLoader"
    /\ UNCHANGED <<loader, fanotify, g_initialized, g_running, has_fanotify, sender_running>>

StopLoader ==
    /\ call = "stopLoader"
    /\ Loader!Stop
    /\ call' = "loaderStopping"
    /\ UNCHANGED <<fanotify, engine>>

LoaderStopped ==
    /\ call = "loaderStopping" /\ loaderPc = "idle"
    /\ call' = "stopFanotify"
    /\ UNCHANGED <<loader, fanotify, engine>>

StopFanotify ==
    /\ call = "stopFanotify"
    /\ \/ has_fanotify /\ Fanotify!Stop
       \/ ~(has_fanotify /\ fan_running) /\ UNCHANGED fanotify
    /\ call' = "fanotifyStopping"
    /\ UNCHANGED <<loader, engine>>

FanotifyStopped ==
    /\ call = "fanotifyStopping" /\ fanPc = "idle"
    /\ call' = "stopSender"
    /\ UNCHANGED <<loader, fanotify, engine>>

StopSender ==
    /\ call = "stopSender"
    /\ sender_running' = FALSE /\ g_running' = FALSE /\ call' = "idle"
    /\ UNCHANGED <<loader, fanotify, g_initialized, has_fanotify, tty_running>>

(* send_telemetry_event holds the mutex while it is in SendEvent. *)
send_telemetry_event ==
    /\ \/ call = "idle" /\ g_running /\ call' = "sendEvent"
       \/ call = "sendEvent" /\ call' = "idle"
    /\ UNCHANGED <<loader, fanotify, engine>>
-----------------------------------------------------------------------------
EngineStep == \/ StartLoader \/ LoaderStarted \/ StartFails \/ StartFanotify
              \/ StopLoader \/ LoaderStopped \/ StopFanotify \/ FanotifyStopped
              \/ StopSender
LoaderStep == Loader!LoaderStep /\ UNCHANGED <<fanotify, engine, call>>
PollThread == Loader!RingBufferPollLoop /\ UNCHANGED <<fanotify, engine, call>>
FanotifyStopStep == Fanotify!StopStep /\ UNCHANGED <<loader, engine, call>>
MonitorThread == Fanotify!MonitorLoop /\ UNCHANGED <<loader, engine, call>>
FileEvent == Fanotify!FileEvent /\ UNCHANGED <<loader, engine, call>>
ReadFails == Fanotify!ReadFails /\ UNCHANGED <<loader, engine, call>>
StrayReadEnds == Fanotify!StrayReadEnds /\ UNCHANGED <<loader, engine, call>>
NumberReused == Fanotify!NumberReused /\ UNCHANGED <<loader, engine, call>>

Next == \/ initialize_telemetry_engine \/ start_telemetry_engine
        \/ stop_telemetry_engine \/ send_telemetry_event
        \/ EngineStep \/ LoaderStep \/ PollThread
        \/ FanotifyStopStep \/ MonitorThread \/ FileEvent \/ ReadFails
        \/ StrayReadEnds \/ NumberReused

Spec == Init /\ [][Next]_vars

(* Threads that can run do run, and the events of one read of fanotify are *)
(* finitely many.  Nothing makes a handler return, which may be blocked in *)
(* the write(2) of SendEvent, nothing makes the mount be written to, and   *)
(* nothing makes a poll find the ring buffers empty: what the poll thread  *)
(* itself writes fires file_permission and so feeds the ring it drains.    *)
PollRuns == pollPc \in {"check", "poll"} /\ PollThread
MonitorRuns == monPc # "callback" /\ MonitorThread

Fairness ==
    /\ WF_vars(EngineStep) /\ WF_vars(LoaderStep) /\ WF_vars(FanotifyStopStep)
    /\ WF_vars(PollRuns) /\ WF_vars(MonitorRuns)
    /\ SF_vars(Fanotify!MonitorBatchDone /\ UNCHANGED <<loader, engine, call>>)

FairSpec == Spec /\ Fairness
-----------------------------------------------------------------------------
InSendEvent == pollPc = "event" \/ monPc = "callback" \/ call = "sendEvent"

(* What TelemetrySender assumes: no thread is in g_sender->SendEvent       *)
(* before g_sender->Start or once g_sender->Stop can run, because ffi.cpp  *)
(* creates the producers after the one and joins them before the other.    *)
SendersQuiet ==
    InSendEvent => sender_running /\ call \notin {"failSender", "stopSender"}

(* A start that failed and a completed stop leave nothing behind: no       *)
(* sender running, no ring buffer thread, no monitor thread, so the next   *)
(* start never assigns to a thread that was not joined.                    *)
IdleEngineHasNoThreads ==
    call = "idle" /\ ~g_running =>
        pollPc = "none" /\ monPc = "none" /\ ~sender_running /\ ~tty_running

(* stop is final: Stop makes the loader uninitialized, g_initialized keeps *)
(* initialize from being called again, so no step of a later start makes   *)
(* the engine run.                                                         *)
StopIsFinal ==
    [][g_initialized /\ ~g_running /\ ~loader_initialized
         => ~g_running' /\ ~loader_initialized']_vars

(* A running engine has a loader that runs, and either mock mode or the    *)
(* hooks of the mode is_lsm_active reports.                                *)
RunningEngineIsHooked ==
    g_running /\ call = "idle" => loader_running /\ Loader!SuccessMeansHooked

(* The ring buffer thread never runs on a freed ring buffer or a closed    *)
(* object: EbpfLoader::Stop joins it first.                                *)
PollHasRing == Loader!PollHasRing

(* A stopped loader has destroyed every link it knew of; file_permission,  *)
(* whose link is not stored, is the only program still attached, unless a  *)
(* failed start was repeated and overwrote links.                          *)
StopLeavesOnlyFilePermission == Loader!StopLeavesOnlyFilePermission

(* The monitor thread reads at most once from a file that has got the      *)
(* number of the closed fanotify descriptor, and only when it is about to  *)
(* end.                                                                    *)
StrayReadIsLast == Fanotify!StrayReadIsLast

(* stop_telemetry_engine returns, or a thread it joins is for ever in one  *)
(* of the calls that have no time limit: the ring buffer thread in one     *)
(* ring_buffer__poll, which goes on as long as there are events, its       *)
(* handlers' writes included; the monitor thread in one read of a mount    *)
(* nobody writes to (or of the file that got the number of the closed      *)
(* descriptor), or in one callback, whose write waits for the agent.       *)
(* Nothing else, in whatever order the threads run, keeps a stop waiting.  *)
StopReturns ==
    call = "stopLoader" ~> \/ call = "idle"
                           \/ [](pollPc \in {"poll", "event", "ttyEvent"})
                           \/ [](monPc \in {"blocked", "stray", "callback"})

(* "Closing the fd will unblock any blocking read() in the monitor loop":  *)
(* after Stop has closed the descriptor the monitor thread leaves read.    *)
CloseUnblocksRead == fanPc = "join" ~> monPc # "blocked"
=============================================================================

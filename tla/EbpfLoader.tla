----------------------------- MODULE EbpfLoader -----------------------------
(***************************************************************************)
(* EbpfLoader (ebpf_loader.cpp): Initialize, Start with its fallback from  *)
(* BPF LSM to tracepoints, Stop, and the ring buffer thread.  The caller   *)
(* (ffi.cpp) never runs two of the first three at once.                    *)
(*                                                                         *)
(* libbpf and the kernel are external: opening, loading and every attach   *)
(* may fail (attach then returns a null link), and a program stays         *)
(* attached until its link is destroyed, whatever happens to the object.   *)
(***************************************************************************)
EXTENDS Naturals, FiniteSets

CONSTANTS
    Obj,    \* bpf_objects opened during the life of the process
    Null

VARIABLES
    loader_initialized, loader_running, lsm_active_, mock_mode_,
    bpf_obj_, links, ring_buf_,  \* pointers of the loader
    pollPc,             \* ring_buffer_thread_
    loaderPc, result,   \* step of the call in progress, value it returned
    attached,           \* <<object, program>> pairs attached in the kernel
    opened, loaded,     \* objects not closed, objects ever opened
    retried             \* history: Start was called again after it failed

vars == <<loader_initialized, loader_running, lsm_active_, mock_mode_, bpf_obj_,
          links, ring_buf_, pollPc, loaderPc, result, attached, opened, loaded,
          retried>>
flags == <<loader_initialized, loader_running, lsm_active_, mock_mode_>>
kernel == <<attached, opened, loaded>>

(* The links Start insists on; the other hooks of each kind count as one.  *)
LsmRequired == {"file_open", "socket_connect", "bprm_creds_for_exec"}
LsmSlot == LsmRequired \cup {"lsm_other"}
TpSlot == {"tp_exec", "tp_other"}
TtySlot == {"tty"}
Slot == LsmSlot \cup TpSlot \cup TtySlot
Lsm == LsmSlot \cup {"file_permission"}

PollStep == {"none", "check", "poll", "event", "ttyEvent", "done"}

TypeOK ==
    /\ loader_initialized \in BOOLEAN /\ loader_running \in BOOLEAN
    /\ lsm_active_ \in BOOLEAN /\ mock_mode_ \in BOOLEAN
    /\ bpf_obj_ \in Obj \cup {Null}
    /\ links \in [Slot -> Obj \cup {Null}]
    /\ ring_buf_ \in BOOLEAN
    /\ pollPc \in PollStep
    /\ loaderPc \in {"idle", "lsm", "fallback", "ring", "join"}
    /\ result \in {"none", "ok", "failed"}
    /\ attached \subseteq Obj \X (Slot \cup {"file_permission"})
    /\ opened \subseteq loaded /\ loaded \subseteq Obj
    /\ retried \in BOOLEAN

Init ==
    /\ loader_initialized = FALSE /\ loader_running = FALSE
    /\ lsm_active_ = FALSE /\ mock_mode_ = FALSE
    /\ bpf_obj_ = Null /\ links = [s \in Slot |-> Null] /\ ring_buf_ = FALSE
    /\ pollPc = "none" /\ loaderPc = "idle" /\ result = "none"
    /\ attached = {} /\ opened = {} /\ loaded = {}
    /\ retried = FALSE
-----------------------------------------------------------------------------
(* Initialize: no object file means mock mode; else CheckLsmSupport. *)
Initialize ==
    /\ loaderPc = "idle" /\ ~loader_initialized
    /\ loader_initialized' = TRUE
    /\ \/ mock_mode_' = TRUE /\ lsm_active_' = FALSE
       \/ UNCHANGED mock_mode_ /\ lsm_active_' \in BOOLEAN
    /\ UNCHANGED <<loader_running, bpf_obj_, links, ring_buf_, pollPc, loaderPc,
                   result, kernel, retried>>

(* Start, up to the choice of how to attach. *)
Start ==
    /\ loaderPc = "idle"
    /\ retried' = (retried \/ (result = "failed" /\ loader_initialized))
    /\ IF ~loader_initialized \/ loader_running
       THEN result' = "failed" /\ UNCHANGED <<loader_running, loaderPc>>
       ELSE /\ loader_running' = TRUE
            /\ IF mock_mode_
               THEN result' = "ok" /\ UNCHANGED loaderPc
               ELSE /\ result' = "none"
                    /\ loaderPc' = IF lsm_active_ THEN "lsm" ELSE "fallback"
    /\ UNCHANGED <<loader_initialized, lsm_active_, mock_mode_, bpf_obj_, links,
                   ring_buf_, pollPc, kernel>>

(* bpf_object__open_file or bpf_object__load fails. *)
NoObject == bpf_obj_' = Null /\ UNCHANGED <<links, kernel>>

(* A fresh object o is loaded and the programs A of P attached, the links  *)
(* of the others among P become null.                                      *)
Attach(o, P, A) ==
    /\ o \notin loaded
    /\ bpf_obj_' = o
    /\ opened' = opened \cup {o} /\ loaded' = loaded \cup {o}
    /\ attached' = attached \cup ({o} \X A)
    /\ links' = [s \in Slot |-> IF s \in A THEN o
                                ELSE IF s \in P THEN Null ELSE links[s]]

(* The link of file_permission is not stored.  When a required link is     *)
(* missing the object and the links that exist stay.                       *)
LoadAndAttachLsm ==
    /\ loaderPc = "lsm"
    /\ \/ NoObject /\ lsm_active_' = FALSE /\ loaderPc' = "fallback"
       \/ \E o \in Obj, A \in SUBSET Lsm :
             /\ Attach(o, Lsm, A)
             /\ lsm_active_' = (LsmRequired \subseteq A)
             /\ loaderPc' = IF LsmRequired \subseteq A THEN "ring" ELSE "fallback"
    /\ UNCHANGED <<loader_initialized, loader_running, mock_mode_, ring_buf_,
                   pollPc, result, retried>>

(* Fault: a failed open goes unnoticed. *)
FallbackIgnoresOpen ==
    /\ loaderPc = "fallback"
    /\ \/ NoObject /\ loaderPc' = "ring" /\ UNCHANGED <<loader_running, result>>
       \/ \E o \in Obj, A \in SUBSET TpSlot :
             /\ Attach(o, TpSlot, A)
             /\ IF "tp_exec" \in A
                THEN loaderPc' = "ring" /\ UNCHANGED <<loader_running, result>>
                ELSE /\ loader_running' = FALSE
                     /\ result' = "failed" /\ loaderPc' = "idle"
    /\ UNCHANGED <<loader_initialized, lsm_active_, mock_mode_, ring_buf_, pollPc,
                   retried>>

(* Without tp_exec Start clears running_ and fails, and leaves the rest.   *)
LoadAndAttachFallback ==
    /\ loaderPc = "fallback"
    /\ \/ /\ NoObject
          /\ loader_running' = FALSE /\ result' = "failed" /\ loaderPc' = "idle"
       \/ \E o \in Obj, A \in SUBSET TpSlot :
             /\ Attach(o, TpSlot, A)
             /\ IF "tp_exec" \in A
                THEN loaderPc' = "ring" /\ UNCHANGED <<loader_running, result>>
                ELSE /\ loader_running' = FALSE
                     /\ result' = "failed" /\ loaderPc' = "idle"
    /\ UNCHANGED <<loader_initialized, lsm_active_, mock_mode_, ring_buf_, pollPc,
                   retried>>

(* ring_buffer__new fails: Stop is called and Start fails. *)
NoRingBuffer ==
    /\ loaderPc = "ring"
    /\ loader_running' = FALSE /\ result' = "failed" /\ loaderPc' = "join"
    /\ UNCHANGED <<loader_initialized, lsm_active_, mock_mode_, bpf_obj_, links,
                   ring_buf_, pollPc, kernel, retried>>

RingBuffer ==
    /\ loaderPc = "ring"
    /\ ring_buf_' = TRUE
    /\ \E A \in SUBSET TtySlot :
          /\ attached' = attached \cup ({bpf_obj_} \X A)
          /\ links' = [s \in Slot |-> IF s \in A THEN bpf_obj_
                                      ELSE IF s \in TtySlot THEN Null ELSE links[s]]
    /\ pollPc' = "check" /\ result' = "ok" /\ loaderPc' = "idle"
    /\ UNCHANGED <<flags, bpf_obj_, opened, loaded, retried>>
-----------------------------------------------------------------------------
(* Stop: clear running_, join the thread, then free, detach and close. *)
Stop ==
    /\ loaderPc = "idle"
    /\ loader_running' = FALSE
    /\ result' = "none" /\ loaderPc' = "join"
    /\ UNCHANGED <<loader_initialized, lsm_active_, mock_mode_, bpf_obj_, links,
                   ring_buf_, pollPc, kernel, retried>>

Detach(S) ==
    /\ ring_buf_' = FALSE
    /\ attached' = attached \ {<<links[s], s>> : s \in S}
    /\ links' = [s \in Slot |-> Null]
    /\ opened' = opened \ {bpf_obj_}
    /\ bpf_obj_' = Null
    /\ loader_initialized' = FALSE
    /\ loaderPc' = "idle"
    /\ UNCHANGED <<loader_running, lsm_active_, mock_mode_, result, loaded, retried>>

(* Fault: Stop does not join the ring buffer thread. *)
StopWithoutJoin == loaderPc = "join" /\ Detach(Slot) /\ UNCHANGED pollPc
(* Fault: Stop does not destroy the later tracepoint links. *)
StopForgetsTracepoints ==
    /\ loaderPc = "join" /\ pollPc \in {"none", "done"}
    /\ pollPc' = "none" /\ Detach(Slot \ {"tp_other"})

StopJoined ==
    /\ loaderPc = "join" /\ pollPc \in {"none", "done"}
    /\ pollPc' = "none" /\ Detach(Slot)

LoaderStep == \/ LoadAndAttachLsm \/ LoadAndAttachFallback
              \/ NoRingBuffer \/ RingBuffer \/ StopJoined
-----------------------------------------------------------------------------
(* Fault: the poll loop does not look at running_. *)
PollForever ==
    /\ pollPc = "check" /\ pollPc' = "poll"
    /\ UNCHANGED <<flags, bpf_obj_, links, ring_buf_, loaderPc, result, kernel, retried>>

(* RingBufferPollLoop: a poll returns once the ring buffers are drained,   *)
(* calls back with an event of one of them before that, or fails, which    *)
(* ends the thread.                                                        *)
PollCheck ==
    /\ pollPc = "check"
    /\ pollPc' = IF loader_running THEN "poll" ELSE "done"
    /\ UNCHANGED <<flags, bpf_obj_, links, ring_buf_, loaderPc, result, kernel, retried>>

PollDrained ==
    /\ pollPc = "poll" /\ pollPc' = "check"
    /\ UNCHANGED <<flags, bpf_obj_, links, ring_buf_, loaderPc, result, kernel, retried>>

PollFails ==
    /\ pollPc = "poll" /\ pollPc' = "done"
    /\ UNCHANGED <<flags, bpf_obj_, links, ring_buf_, loaderPc, result, kernel, retried>>

PollEvent ==
    /\ pollPc = "poll" /\ pollPc' \in {"event", "ttyEvent"}
    /\ UNCHANGED <<flags, bpf_obj_, links, ring_buf_, loaderPc, result, kernel, retried>>

(* HandleRingBufferEvent, HandleTtyRingBufferEvent return: the poll goes on. *)
PollReturn ==
    /\ pollPc \in {"event", "ttyEvent"}
    /\ pollPc' = "poll"
    /\ UNCHANGED <<flags, bpf_obj_, links, ring_buf_, loaderPc, result, kernel, retried>>

RingBufferPollLoop == PollCheck \/ PollDrained \/ PollFails \/ PollEvent \/ PollReturn
-----------------------------------------------------------------------------
Next == Initialize \/ Start \/ Stop \/ LoaderStep \/ RingBufferPollLoop

Spec == Init /\ [][Next]_vars
-----------------------------------------------------------------------------
(* The ring buffer thread never runs on a freed ring buffer or a closed    *)
(* object: Stop joins it first.                                            *)
PollHasRing ==
    pollPc \notin {"none", "done"} => ring_buf_ /\ bpf_obj_ \in opened

(* "validate exec_link_ is attached before reporting success": while the   *)
(* loader runs for real, the required hooks of the mode it reports are     *)
(* attached, and they are programs of the object whose maps it updates and *)
(* whose ring buffer it polls.                                             *)
SuccessMeansHooked ==
    loader_running /\ loaderPc = "idle" /\ ~mock_mode_ =>
        {bpf_obj_} \X (IF lsm_active_ THEN LsmRequired ELSE {"tp_exec"}) \subseteq attached

(* Stop destroys every link it knows of.  file_permission is the only hook *)
(* left behind, as long as no failed Start was repeated (a repeated one    *)
(* overwrites links that were never destroyed).                            *)
StopLeavesOnlyFilePermission ==
    ~loader_initialized /\ loaderPc = "idle" /\ ~retried =>
        \A a \in attached : a[2] = "file_permission"
=============================================================================

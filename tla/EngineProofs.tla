---------------------------- MODULE EngineProofs ----------------------------
(***************************************************************************)
(* Proofs about Engine, for every set of BPF objects.  The loader and the  *)
(* fanotify monitor each keep an invariant of their own (LoaderInv,        *)
(* FanInv) whatever their caller does; CallInv ties them to the steps of   *)
(* the call of ffi.cpp that holds g_ffi_mutex.                             *)
(***************************************************************************)
EXTENDS Engine, TLAPS

(* Most leaves are first-order; those with arithmetic cite SMT. *)
USE Zenon

OnlyFilePermission == \A a \in attached : a[2] = "file_permission"

Hooked == {bpf_obj_} \X (IF lsm_active_ THEN Loader!LsmRequired ELSE {"tp_exec"})
             \subseteq attached

(* What Start has established at each of its steps. *)
StartInv ==
    /\ loader_running => loader_initialized
    /\ loaderPc = "join" => ~loader_running /\ result # "ok"
    /\ loaderPc \in {"lsm", "fallback", "ring"} =>
          loader_running /\ ~mock_mode_ /\ pollPc = "none"
    /\ loaderPc = "fallback" => ~lsm_active_
    /\ loaderPc = "ring" => bpf_obj_ \in opened /\ Hooked
    /\ loaderPc = "idle" /\ result = "ok" => loader_running
    /\ loaderPc = "idle" /\ ~loader_running => pollPc = "none"

(* As long as no failed Start was repeated, every program that is attached *)
(* and is not file_permission has its link, and a step that overwrites     *)
(* links overwrites null links only.                                       *)
LinkInv ==
    ~retried =>
       /\ \A a \in attached : a[2] # "file_permission" => links[a[2]] = a[1]
       /\ loaderPc = "lsm" => OnlyFilePermission
       /\ loaderPc = "fallback" => \A a \in attached : a[2] \in Loader!Lsm
       /\ loaderPc = "ring" => \A a \in attached : a[2] # "tty"
       /\ loaderPc = "idle" /\ ~loader_running /\ result # "failed" => OnlyFilePermission

LoaderInv ==
    /\ Loader!TypeOK /\ StartInv /\ LinkInv
    /\ Loader!PollHasRing /\ Loader!SuccessMeansHooked
    /\ Loader!StopLeavesOnlyFilePermission

(* Stop closes the descriptor when running_ is clear, so a number that was *)
(* reused is found by a thread that is about to end.                       *)
FanInv ==
    /\ Fanotify!TypeOK /\ strays \in {0, 1}
    /\ monPc = "stray" => ~fan_running
    /\ fan_running => fan_initialized /\ fanPc = "idle"
    /\ fanPc = "close" \/ (fan_initialized /\ fanPc = "idle") => fanFile = "fanotify"
    /\ strays = 1 => fanFile = "other" /\ monPc \notin {"load", "read", "blocked"}
    /\ monPc # "none" => fan_running \/ fanPc # "idle"

StartCall == {"startLoader", "loaderStarting", "startFanotify", "failSender"}
StopCall == {"stopLoader", "loaderStopping", "stopFanotify", "fanotifyStopping",
             "stopSender"}

(* What is running at each step of the call that holds g_ffi_mutex. *)
CallInv ==
    /\ call \in StartCall => ~g_running
    /\ call \in StopCall \cup {"sendEvent"} => g_running
    /\ sender_running <=> g_running \/ call # "idle"
    /\ tty_running <=> \/ call \in {"startLoader", "loaderStarting", "startFanotify",
                                    "sendEvent"}
                       \/ call = "idle" /\ g_running
    /\ loaderPc # "idle" => call \in {"loaderStarting", "loaderStopping"}
    /\ call = "loaderStopping" => loaderPc \in {"idle", "join"} /\ ~loader_running
    /\ call \in {"startLoader", "failSender", "stopFanotify", "fanotifyStopping",
                 "stopSender"} => ~loader_running
    /\ call \in {"startFanotify", "sendEvent", "stopLoader"} => loader_running
    /\ call = "idle" => (loader_running <=> g_running)
    /\ call = "loaderStarting" /\ loaderPc = "idle" /\ result # "ok" => ~loader_running
    /\ fan_running => /\ has_fanotify /\ g_running
                      /\ call \in {"idle", "sendEvent", "stopLoader",
                                   "loaderStopping", "stopFanotify"}
    /\ fanPc # "idle" => call = "fanotifyStopping"

EngineTypeOK ==
    /\ g_initialized \in BOOLEAN /\ g_running \in BOOLEAN /\ has_fanotify \in BOOLEAN
    /\ sender_running \in BOOLEAN /\ tty_running \in BOOLEAN
    /\ call \in CallStep

IInv == LoaderInv /\ FanInv /\ CallInv /\ EngineTypeOK
-----------------------------------------------------------------------------
(* The loader has attached nothing yet. *)
LEMMA InitLoaderInv == Loader!Init => LoaderInv
BY DEF Loader!Init, LoaderInv, Loader!TypeOK, Loader!PollStep, StartInv, LinkInv,
   OnlyFilePermission, Loader!PollHasRing, Loader!SuccessMeansHooked,
   Loader!StopLeavesOnlyFilePermission

(* The part of the loader's TypeOK that attaching does not decide. *)
ScalarsOK ==
    /\ loader_initialized \in BOOLEAN /\ loader_running \in BOOLEAN
    /\ lsm_active_ \in BOOLEAN /\ mock_mode_ \in BOOLEAN
    /\ ring_buf_ \in BOOLEAN /\ pollPc \in Loader!PollStep
    /\ loaderPc \in {"idle", "lsm", "fallback", "ring", "join"}
    /\ result \in {"none", "ok", "failed"} /\ retried \in BOOLEAN

(* What attaching the programs A of P under a fresh object o does to the   *)
(* programs attached and to the links.                                     *)
LEMMA AttachLinks ==
    ASSUME Loader!TypeOK, NEW o \in Obj, NEW P \in SUBSET (Loader!Slot \cup {"file_permission"}),
           NEW A \in SUBSET P, Loader!Attach(o, P, A)
    PROVE  /\ ScalarsOK' => Loader!TypeOK'
           /\ bpf_obj_' = o /\ o \in opened'
           /\ {o} \X A \subseteq attached'
           /\ \A a \in attached' : a \in attached \/ (a[1] = o /\ a[2] \in A)
           /\ \A s \in Loader!Slot : /\ s \in A => links'[s] = o
                                     /\ s \notin P => links'[s] = links[s]
BY DEF Loader!TypeOK, Loader!Attach, ScalarsOK

(* The step that attaches under BPF LSM. *)
LEMMA LsmStep == ASSUME LoaderInv, Loader!LoadAndAttachLsm PROVE LoaderInv'
<1> USE DEF LoaderInv
<1>1. /\ loaderPc = "lsm" /\ loader_running /\ loader_initialized /\ ~mock_mode_
      /\ pollPc = "none"
      /\ UNCHANGED <<loader_initialized, loader_running, mock_mode_, ring_buf_,
                     pollPc, result, retried>>
  BY DEF Loader!LoadAndAttachLsm, StartInv
<1>2. CASE Loader!NoObject /\ lsm_active_' = FALSE /\ loaderPc' = "fallback"
  <2>1. Loader!TypeOK'
    BY <1>1, <1>2 DEF Loader!TypeOK, Loader!NoObject, Loader!kernel
  <2>2. StartInv'
    BY <1>1, <1>2 DEF StartInv
  <2>3. LinkInv'
    BY <1>1, <1>2 DEF LinkInv, OnlyFilePermission, Loader!NoObject, Loader!kernel,
       Loader!Lsm
  <2> QED
    BY <1>1, <1>2, <2>1, <2>2, <2>3 DEF Loader!PollHasRing,
       Loader!SuccessMeansHooked, Loader!StopLeavesOnlyFilePermission
<1>3. ASSUME NEW o \in Obj, NEW A \in SUBSET Loader!Lsm,
             Loader!Attach(o, Loader!Lsm, A),
             lsm_active_' = (Loader!LsmRequired \subseteq A),
             loaderPc' = IF Loader!LsmRequired \subseteq A THEN "ring" ELSE "fallback"
      PROVE  LoaderInv'
  <2>1. /\ bpf_obj_' = o /\ o \in opened'
        /\ {o} \X A \subseteq attached'
        /\ \A a \in attached' : a \in attached \/ (a[1] = o /\ a[2] \in A)
        /\ \A s \in Loader!Slot : s \in A => links'[s] = o
        /\ Loader!TypeOK'
    <3>1. Loader!Lsm \in SUBSET (Loader!Slot \cup {"file_permission"})
      BY DEF Loader!Lsm, Loader!Slot
    <3>2. lsm_active_' \in BOOLEAN
      BY <1>3
    <3>3. loaderPc' \in {"idle", "lsm", "fallback", "ring", "join"}
      BY <1>3
    <3>4. ScalarsOK'
      BY <1>1, <3>2, <3>3 DEF Loader!TypeOK, ScalarsOK
    <3>5. Loader!TypeOK
      OBVIOUS
    <3> QED
      BY <1>3, <3>1, <3>4, <3>5, AttachLinks, ZenonT(30)
  <2>2. StartInv'
    BY <1>1, <1>3, <2>1 DEF StartInv, Hooked
  <2>3. LinkInv'
    BY <1>1, <1>3, <2>1 DEF LinkInv, OnlyFilePermission, Loader!Lsm, Loader!Slot,
       Loader!LsmSlot, Loader!LsmRequired, Loader!TpSlot, Loader!TtySlot
  <2> QED
    BY <1>1, <1>3, <2>1, <2>2, <2>3 DEF Loader!PollHasRing,
       Loader!SuccessMeansHooked, Loader!StopLeavesOnlyFilePermission
<1> QED
  BY <1>2, <1>3 DEF Loader!LoadAndAttachLsm

(* The step that attaches the tracepoints instead. *)
LEMMA FallbackStep == ASSUME LoaderInv, Loader!LoadAndAttachFallback PROVE LoaderInv'
<1> USE DEF LoaderInv
<1>1. /\ loaderPc = "fallback" /\ loader_running /\ loader_initialized /\ ~mock_mode_
      /\ pollPc = "none" /\ ~lsm_active_
      /\ UNCHANGED <<loader_initialized, lsm_active_, mock_mode_, ring_buf_, pollPc,
                     retried>>
  BY DEF Loader!LoadAndAttachFallback, StartInv
<1>2. CASE /\ Loader!NoObject
           /\ loader_running' = FALSE /\ result' = "failed" /\ loaderPc' = "idle"
  <2>1. Loader!TypeOK'
    BY <1>1, <1>2 DEF Loader!TypeOK, Loader!NoObject, Loader!kernel
  <2>2. StartInv'
    BY <1>1, <1>2 DEF StartInv
  <2>3. LinkInv'
    BY <1>1, <1>2 DEF LinkInv, OnlyFilePermission, Loader!NoObject, Loader!kernel
  <2> QED
    BY <1>1, <1>2, <2>1, <2>2, <2>3 DEF Loader!PollHasRing,
       Loader!SuccessMeansHooked, Loader!StopLeavesOnlyFilePermission
<1>3. ASSUME NEW o \in Obj, NEW A \in SUBSET Loader!TpSlot,
             Loader!Attach(o, Loader!TpSlot, A),
             IF "tp_exec" \in A
             THEN loaderPc' = "ring" /\ UNCHANGED <<loader_running, result>>
             ELSE loader_running' = FALSE /\ result' = "failed" /\ loaderPc' = "idle"
      PROVE  LoaderInv'
  <2>1. /\ bpf_obj_' = o /\ o \in opened'
        /\ {o} \X A \subseteq attached'
        /\ \A a \in attached' : a \in attached \/ (a[1] = o /\ a[2] \in A)
        /\ \A s \in Loader!Slot : /\ s \in A => links'[s] = o
                                  /\ s \notin Loader!TpSlot => links'[s] = links[s]
        /\ Loader!TypeOK'
    <3>1. Loader!TpSlot \in SUBSET (Loader!Slot \cup {"file_permission"})
      BY DEF Loader!Slot
    <3>2. ScalarsOK'
      BY <1>1, <1>3 DEF Loader!TypeOK, ScalarsOK
    <3> QED
      BY <1>3, <3>1, <3>2, AttachLinks
  <2>2. StartInv'
    BY <1>1, <1>3, <2>1 DEF StartInv, Hooked
  <2>3. LinkInv'
    BY <1>1, <1>3, <2>1 DEF LinkInv, OnlyFilePermission, Loader!Lsm, Loader!Slot,
       Loader!LsmSlot, Loader!LsmRequired, Loader!TpSlot, Loader!TtySlot
  <2> QED
    BY <1>1, <1>3, <2>1, <2>2, <2>3 DEF Loader!PollHasRing,
       Loader!SuccessMeansHooked, Loader!StopLeavesOnlyFilePermission
<1> QED
  BY <1>2, <1>3 DEF Loader!LoadAndAttachFallback

(* The ring buffer is created and the thread that polls it started. *)
LEMMA RingStep == ASSUME LoaderInv, Loader!RingBuffer PROVE LoaderInv'
<1> USE DEF LoaderInv
<1>1. /\ loaderPc = "ring" /\ loader_running /\ loader_initialized /\ ~mock_mode_
      /\ bpf_obj_ \in opened /\ Hooked /\ bpf_obj_ \in Obj
      /\ ring_buf_' = TRUE /\ pollPc' = "check" /\ result' = "ok" /\ loaderPc' = "idle"
      /\ UNCHANGED <<loader_initialized, loader_running, lsm_active_, mock_mode_,
                     bpf_obj_, opened, loaded, retried>>
  BY DEF Loader!RingBuffer, StartInv, Loader!flags, Loader!TypeOK
<1>2. PICK A \in SUBSET Loader!TtySlot :
         /\ attached' = attached \cup ({bpf_obj_} \X A)
         /\ links' = [s \in Loader!Slot |-> IF s \in A THEN bpf_obj_
                            ELSE IF s \in Loader!TtySlot THEN Null ELSE links[s]]
  BY DEF Loader!RingBuffer
<1>3. Loader!TypeOK'
  BY <1>1, <1>2 DEF Loader!TypeOK, Loader!PollStep, Loader!Slot
<1>4. StartInv' /\ Hooked'
  BY <1>1, <1>2 DEF StartInv, Hooked
<1>5. LinkInv'
  BY <1>1, <1>2 DEF LinkInv, OnlyFilePermission, Loader!TypeOK, Loader!Slot, Loader!TtySlot
<1> QED
  BY <1>1, <1>3, <1>4, <1>5 DEF Hooked, Loader!PollHasRing,
     Loader!SuccessMeansHooked, Loader!StopLeavesOnlyFilePermission

(* Stop has joined the thread: it destroys every link it knows of. *)
LEMMA JoinedStep == ASSUME LoaderInv, Loader!StopJoined PROVE LoaderInv'
<1> USE DEF LoaderInv
<1>1. /\ loaderPc = "join" /\ ~loader_running /\ result # "ok"
      /\ pollPc' = "none" /\ loaderPc' = "idle" /\ loader_initialized' = FALSE
      /\ ring_buf_' = FALSE
      /\ UNCHANGED <<loader_running, lsm_active_, mock_mode_, result, loaded, retried>>
      /\ attached' = attached \ {<<links[s], s>> : s \in Loader!Slot}
      /\ links' = [s \in Loader!Slot |-> Null]
      /\ opened' = opened \ {bpf_obj_} /\ bpf_obj_' = Null
  BY DEF Loader!StopJoined, Loader!Detach, StartInv
<1>2. Loader!TypeOK'
  BY <1>1 DEF Loader!TypeOK, Loader!PollStep
<1>3. StartInv'
  BY <1>1 DEF StartInv, Loader!TypeOK
<1>4. ~retried => OnlyFilePermission'
  <2>1. SUFFICES ASSUME ~retried, NEW a \in attached', a[2] # "file_permission"
                 PROVE  FALSE
    BY DEF OnlyFilePermission
  <2>2. a \in attached /\ a[2] \in Loader!Slot /\ a = <<a[1], a[2]>>
    BY SMT, <1>1, <2>1 DEF Loader!TypeOK
  <2>3. a[1] = links[a[2]]
    BY <2>1, <2>2 DEF LinkInv
  <2> QED
    BY <1>1, <2>2, <2>3
<1>5. LinkInv' /\ Loader!StopLeavesOnlyFilePermission'
  BY <1>1, <1>4 DEF LinkInv, OnlyFilePermission, Loader!StopLeavesOnlyFilePermission
<1> QED
  BY <1>1, <1>2, <1>3, <1>5 DEF Loader!PollHasRing, Loader!SuccessMeansHooked

(* The steps that touch neither objects nor links. *)
LEMMA CallStepInv ==
    ASSUME LoaderInv, Loader!Initialize \/ Loader!Start \/ Loader!Stop \/ Loader!NoRingBuffer
    PROVE  LoaderInv'
<1> USE DEF LoaderInv
<1>1. UNCHANGED <<bpf_obj_, links, ring_buf_, pollPc, attached, opened, loaded>>
  BY DEF Loader!Initialize, Loader!Start, Loader!Stop, Loader!NoRingBuffer, Loader!kernel
<1>2. CASE Loader!Initialize
  <2>1. Loader!TypeOK' /\ StartInv'
    BY <1>1, <1>2 DEF Loader!Initialize, Loader!TypeOK, StartInv
  <2> QED
    BY <1>1, <1>2, <2>1 DEF Loader!Initialize, StartInv, LinkInv, OnlyFilePermission,
       Loader!PollHasRing, Loader!SuccessMeansHooked, Loader!StopLeavesOnlyFilePermission
<1>3. CASE Loader!Start
  <2>1. Loader!TypeOK' /\ StartInv'
    BY <1>1, <1>3 DEF Loader!Start, Loader!TypeOK, StartInv, Hooked, Loader!kernel
  <2>2. LinkInv'
    BY <1>1, <1>3 DEF Loader!Start, StartInv, LinkInv, OnlyFilePermission, Loader!Lsm,
       Loader!TypeOK, Loader!StopLeavesOnlyFilePermission
  <2> QED
    BY SMT, <1>1, <1>3, <2>1, <2>2 DEF Loader!Start, Loader!TypeOK, Loader!PollHasRing,
       Loader!SuccessMeansHooked, Loader!StopLeavesOnlyFilePermission
<1>4. CASE Loader!Stop \/ Loader!NoRingBuffer
  <2>1. Loader!TypeOK' /\ StartInv'
    BY <1>1, <1>4 DEF Loader!Stop, Loader!NoRingBuffer, Loader!TypeOK, StartInv
  <2> QED
    BY <1>1, <1>4, <2>1 DEF Loader!Stop, Loader!NoRingBuffer, LinkInv,
       OnlyFilePermission, Loader!PollHasRing, Loader!SuccessMeansHooked,
       Loader!StopLeavesOnlyFilePermission
<1> QED
  BY <1>2, <1>3, <1>4

(* The ring buffer thread only moves its own program counter. *)
LEMMA PollStepInv == ASSUME LoaderInv, Loader!RingBufferPollLoop PROVE LoaderInv'
<1> USE DEF LoaderInv
<1>1. /\ UNCHANGED <<loader_initialized, loader_running, lsm_active_, mock_mode_,
                     bpf_obj_, links, ring_buf_, loaderPc, result, attached, opened,
                     loaded, retried>>
      /\ pollPc \notin {"none", "done"} /\ pollPc' \in Loader!PollStep
  BY DEF Loader!RingBufferPollLoop, Loader!PollCheck, Loader!PollDrained,
     Loader!PollFails, Loader!PollEvent, Loader!PollReturn, Loader!flags,
     Loader!kernel, Loader!PollStep
<1>2. Loader!TypeOK' /\ StartInv'
  BY <1>1 DEF Loader!TypeOK, StartInv, Hooked
<1> QED
  BY <1>1, <1>2 DEF LinkInv, OnlyFilePermission, Loader!PollHasRing,
     Loader!SuccessMeansHooked, Loader!StopLeavesOnlyFilePermission

(* Every step of the loader keeps its invariant, whoever calls it. *)
LEMMA NextLoaderInv == ASSUME LoaderInv, Loader!Next PROVE LoaderInv'
BY LsmStep, FallbackStep, RingStep, JoinedStep, CallStepInv, PollStepInv
   DEF Loader!Next, Loader!LoaderStep

(* So does a step that leaves the loader alone. *)
LEMMA SameLoaderInv == ASSUME LoaderInv, UNCHANGED loader PROVE LoaderInv'
<1>1. UNCHANGED <<loader_initialized, loader_running, lsm_active_, mock_mode_, bpf_obj_,
                  links, ring_buf_, pollPc, loaderPc, result, attached, opened, loaded,
                  retried>>
  BY DEF loader
<1> QED
  BY SMT, <1>1 DEF LoaderInv, Loader!TypeOK, StartInv, Hooked, LinkInv, OnlyFilePermission,
     Loader!PollHasRing, Loader!SuccessMeansHooked, Loader!StopLeavesOnlyFilePermission
-----------------------------------------------------------------------------
(* The arithmetic of one stray read. *)
LEMMA StrayCounts == 0 \in Nat /\ 1 \in Nat /\ 0 # 1 /\ 0 + 1 = 1
BY SMT

(* The monitor has not been started yet. *)
LEMMA InitFanInv == Fanotify!Init => FanInv
BY StrayCounts DEF Fanotify!Init, FanInv, Fanotify!TypeOK

(* Initialize, Start and the steps of Stop. *)
LEMMA FanCallInv ==
    ASSUME FanInv, \/ Fanotify!Initialize \/ Fanotify!Start \/ Fanotify!Stop
                   \/ Fanotify!StopStep \/ Fanotify!NumberReused
    PROVE  FanInv'
<1>1. UNCHANGED <<monFd, strays>>
  BY DEF Fanotify!Initialize, Fanotify!Start, Fanotify!Stop, Fanotify!StopStep,
     Fanotify!StopClose, Fanotify!StopReset, Fanotify!StopJoin, Fanotify!NumberReused
<1>2. CASE Fanotify!Initialize \/ Fanotify!Start
  BY StrayCounts, <1>1, <1>2 DEF FanInv, Fanotify!TypeOK,
     Fanotify!Initialize, Fanotify!Start
<1>3. CASE Fanotify!Stop
  BY StrayCounts, <1>1, <1>3 DEF FanInv, Fanotify!TypeOK, Fanotify!Stop
<1>4. CASE Fanotify!NumberReused
  BY StrayCounts, <1>1, <1>4 DEF FanInv, Fanotify!TypeOK, Fanotify!NumberReused
<1>5. CASE Fanotify!StopClose
  BY StrayCounts, <1>1, <1>5 DEF FanInv, Fanotify!TypeOK, Fanotify!StopClose
<1>6. CASE Fanotify!StopReset
  BY StrayCounts, <1>1, <1>6 DEF FanInv, Fanotify!TypeOK, Fanotify!StopReset
<1>7. CASE Fanotify!StopJoin
  BY StrayCounts, <1>1, <1>7 DEF FanInv, Fanotify!TypeOK, Fanotify!StopJoin
<1> QED
  BY <1>2, <1>3, <1>4, <1>5, <1>6, <1>7 DEF Fanotify!StopStep

(* The monitor thread. *)
LEMMA FanThreadInv ==
    ASSUME FanInv, \/ Fanotify!MonitorLoop \/ Fanotify!FileEvent \/ Fanotify!ReadFails
                   \/ Fanotify!StrayReadEnds
    PROVE  FanInv'
<1>1. /\ UNCHANGED <<fan_initialized, fan_running, fanotify_fd_, fanFile, fanPc>>
      /\ monPc # "none" /\ monPc' # "none"
  BY DEF Fanotify!MonitorLoop, Fanotify!MonitorCheck, Fanotify!MonitorLoad,
     Fanotify!MonitorRead, Fanotify!MonitorError, Fanotify!MonitorHandle,
     Fanotify!MonitorReturn, Fanotify!MonitorBatchDone, Fanotify!FileEvent,
     Fanotify!ReadFails, Fanotify!StrayReadEnds, Fanotify!MonitorGo, Fanotify!flags
<1>2. CASE Fanotify!MonitorRead
  BY StrayCounts, <1>1, <1>2 DEF FanInv, Fanotify!TypeOK,
     Fanotify!MonitorRead
<1>3. CASE Fanotify!MonitorLoad
  BY StrayCounts, <1>1, <1>3 DEF FanInv, Fanotify!TypeOK,
     Fanotify!MonitorLoad
<1>4. CASE \/ Fanotify!MonitorCheck \/ Fanotify!MonitorError \/ Fanotify!MonitorHandle
           \/ Fanotify!MonitorReturn \/ Fanotify!MonitorBatchDone
  BY StrayCounts, <1>1, <1>4 DEF FanInv, Fanotify!TypeOK,
     Fanotify!MonitorCheck, Fanotify!MonitorError, Fanotify!MonitorHandle,
     Fanotify!MonitorReturn, Fanotify!MonitorBatchDone, Fanotify!MonitorGo
<1>5. CASE Fanotify!FileEvent \/ Fanotify!ReadFails \/ Fanotify!StrayReadEnds
  BY StrayCounts, <1>1, <1>5 DEF FanInv, Fanotify!TypeOK,
     Fanotify!FileEvent, Fanotify!ReadFails, Fanotify!StrayReadEnds, Fanotify!MonitorGo
<1> QED
  BY <1>2, <1>3, <1>4, <1>5 DEF Fanotify!MonitorLoop

(* A step that leaves the monitor alone keeps its invariant. *)
LEMMA SameFanInv == ASSUME FanInv, UNCHANGED fanotify PROVE FanInv'
BY SMT DEF FanInv, fanotify, Fanotify!TypeOK
-----------------------------------------------------------------------------
(* Each step of the engine is a step of the loader or leaves it alone, and *)
(* the same for the fanotify monitor.                                      *)
LEMMA NextParts == ASSUME LoaderInv, FanInv, Next PROVE LoaderInv' /\ FanInv'
<1>1. Loader!Next \/ UNCHANGED loader
  BY DEF Next, EngineStep, initialize_telemetry_engine, start_telemetry_engine,
     stop_telemetry_engine, send_telemetry_event, StartLoader, LoaderStarted, StartFails,
     StartFanotify, StopLoader, LoaderStopped, StopFanotify, FanotifyStopped, StopSender,
     LoaderStep, PollThread, FanotifyStopStep, MonitorThread, FileEvent, ReadFails,
     StrayReadEnds, NumberReused, Loader!Next
<1>2. \/ UNCHANGED fanotify
      \/ Fanotify!Initialize \/ Fanotify!Start \/ Fanotify!Stop \/ Fanotify!StopStep
      \/ Fanotify!NumberReused \/ Fanotify!MonitorLoop \/ Fanotify!FileEvent
      \/ Fanotify!ReadFails \/ Fanotify!StrayReadEnds
  BY DEF Next, EngineStep, initialize_telemetry_engine, start_telemetry_engine,
     stop_telemetry_engine, send_telemetry_event, StartLoader, LoaderStarted, StartFails,
     StartFanotify, StopLoader, LoaderStopped, StopFanotify, FanotifyStopped, StopSender,
     LoaderStep, PollThread, FanotifyStopStep, MonitorThread, FileEvent, ReadFails,
     StrayReadEnds, NumberReused
<1>3. LoaderInv'
  BY <1>1, NextLoaderInv, SameLoaderInv
<1>4. FanInv'
  BY <1>2, FanCallInv, FanThreadInv, SameFanInv
<1> QED
  BY <1>3, <1>4

(* The calls of ffi.cpp. *)
LEMMA CallsCallInv ==
    ASSUME IInv,
           \/ initialize_telemetry_engine \/ start_telemetry_engine
           \/ stop_telemetry_engine \/ send_telemetry_event \/ EngineStep
    PROVE  CallInv' /\ EngineTypeOK'
<1> USE DEF IInv, CallInv, EngineTypeOK, StartCall, StopCall, CallStep, engine, loader, fanotify
<1>1. CASE initialize_telemetry_engine
  <2>1. /\ UNCHANGED <<g_running, sender_running, tty_running, call, loader_running,
                       loaderPc, result, fan_running, fanPc>>
        /\ has_fanotify' = TRUE \/ UNCHANGED has_fanotify
        /\ g_initialized' = TRUE
    BY <1>1 DEF initialize_telemetry_engine, Loader!Initialize, Fanotify!Initialize
  <2> QED
    BY <2>1
<1>2. CASE start_telemetry_engine
  BY <1>2 DEF start_telemetry_engine, LoaderInv, StartInv, FanInv, Loader!TypeOK
<1>3. CASE stop_telemetry_engine
  BY <1>3 DEF stop_telemetry_engine, LoaderInv, StartInv, FanInv, Loader!TypeOK
<1>4. CASE send_telemetry_event
  BY <1>4 DEF send_telemetry_event, LoaderInv, StartInv, FanInv, Loader!TypeOK
<1>5. CASE StartLoader
  BY <1>5 DEF StartLoader, Loader!Start, LoaderInv, StartInv, FanInv, Loader!TypeOK
<1>6. CASE LoaderStarted
  BY <1>6 DEF LoaderStarted, LoaderInv, StartInv, FanInv, Loader!TypeOK
<1>7. CASE StartFails
  BY <1>7 DEF StartFails, LoaderInv, StartInv, FanInv, Loader!TypeOK
<1>8. CASE StartFanotify
  BY SMT, <1>8 DEF StartFanotify, Fanotify!Start, LoaderInv, StartInv, FanInv, Loader!TypeOK
<1>9. CASE StopLoader
  BY <1>9 DEF StopLoader, Loader!Stop, LoaderInv, StartInv, FanInv, Loader!TypeOK
<1>10. CASE LoaderStopped
  BY <1>10 DEF LoaderStopped, LoaderInv, StartInv, FanInv, Loader!TypeOK
<1>11. CASE StopFanotify
  BY SMT, <1>11 DEF StopFanotify, Fanotify!Stop, LoaderInv, StartInv, FanInv, Loader!TypeOK
<1>12. CASE FanotifyStopped
  BY <1>12 DEF FanotifyStopped, LoaderInv, StartInv, FanInv, Loader!TypeOK
<1>13. CASE StopSender
  BY <1>13 DEF StopSender, LoaderInv, StartInv, FanInv, Loader!TypeOK
<1> QED
  BY <1>1, <1>2, <1>3, <1>4, <1>5, <1>6, <1>7, <1>8, <1>9, <1>10, <1>11, <1>12, <1>13 DEF EngineStep

(* The steps of the loader and of the threads. *)
LEMMA ThreadsCallInv ==
    ASSUME IInv,
           \/ LoaderStep \/ PollThread \/ FanotifyStopStep \/ MonitorThread
           \/ FileEvent \/ ReadFails \/ StrayReadEnds \/ NumberReused
    PROVE  CallInv' /\ EngineTypeOK'
<1> USE DEF IInv, CallInv, EngineTypeOK, StartCall, StopCall, engine, loader, fanotify
<1>1. UNCHANGED <<g_initialized, g_running, has_fanotify, sender_running, tty_running, call>>
  BY DEF LoaderStep, PollThread, FanotifyStopStep, MonitorThread, FileEvent, ReadFails,
     StrayReadEnds, NumberReused
<1>2. CASE LoaderStep
  <2>1. UNCHANGED <<fan_running, fanPc>>
    BY <1>2 DEF LoaderStep
  <2>2. /\ loaderPc # "idle"
        /\ \/ loaderPc' # "idle" /\ loaderPc # "join" /\ UNCHANGED loader_running
           \/ loaderPc' = "join" /\ loaderPc # "join" /\ loader_running' = FALSE
           \/ loaderPc' = "idle" /\ result' = "ok" /\ loaderPc # "join"
              /\ UNCHANGED loader_running
           \/ loaderPc' = "idle" /\ result' # "ok" /\ loader_running' = FALSE
    BY <1>2 DEF LoaderStep, Loader!LoaderStep, Loader!LoadAndAttachLsm,
       Loader!LoadAndAttachFallback, Loader!NoRingBuffer, Loader!RingBuffer,
       Loader!StopJoined, Loader!Detach, Loader!flags, LoaderInv, StartInv, Loader!TypeOK
  <2> QED
    BY <1>1, <2>1, <2>2
<1>3. CASE PollThread
  BY SMT, <1>1, <1>3 DEF PollThread, Loader!RingBufferPollLoop, Loader!PollCheck,
     Loader!PollDrained, Loader!PollFails, Loader!PollEvent, Loader!PollReturn,
     Loader!flags
<1>4. CASE FanotifyStopStep \/ NumberReused
  <2>1. UNCHANGED <<fan_running, loader_running, loaderPc, result>> /\ fanPc # "idle"
    BY <1>4 DEF FanotifyStopStep, NumberReused, Fanotify!StopStep, Fanotify!StopClose,
       Fanotify!StopReset, Fanotify!StopJoin, Fanotify!NumberReused
  <2> QED
    BY <1>1, <2>1
<1>5. CASE MonitorThread \/ FileEvent \/ ReadFails \/ StrayReadEnds
  <2>1. UNCHANGED <<fan_running, fanPc, loader_running, loaderPc, result>>
    BY <1>5 DEF MonitorThread, FileEvent, ReadFails, StrayReadEnds, Fanotify!MonitorLoop,
       Fanotify!MonitorCheck, Fanotify!MonitorLoad, Fanotify!MonitorRead,
       Fanotify!MonitorError, Fanotify!MonitorHandle, Fanotify!MonitorReturn,
       Fanotify!MonitorBatchDone, Fanotify!FileEvent, Fanotify!ReadFails,
       Fanotify!StrayReadEnds, Fanotify!MonitorGo, Fanotify!flags
  <2> QED
    BY <1>1, <2>1
<1> QED
  BY <1>2, <1>3, <1>4, <1>5

(* Before the first call. *)
LEMMA InitIInv == Init => IInv
<1>1. Init => LoaderInv /\ FanInv
  BY InitLoaderInv, InitFanInv DEF Init
<1>2. Init => CallInv /\ EngineTypeOK
  BY DEF Init, Loader!Init, Fanotify!Init, CallInv, EngineTypeOK, StartCall, StopCall,
     CallStep
<1> QED
  BY <1>1, <1>2 DEF IInv

(* Every step of the engine keeps all parts. *)
LEMMA NextIInv == IInv /\ [Next]_vars => IInv'
<1>1. ASSUME IInv, Next PROVE IInv'
  <2>1. LoaderInv' /\ FanInv'
    BY <1>1, NextParts DEF IInv
  <2>2. CallInv' /\ EngineTypeOK'
    BY <1>1, CallsCallInv, ThreadsCallInv DEF Next
  <2> QED
    BY <2>1, <2>2 DEF IInv
<1>2. ASSUME IInv, UNCHANGED vars PROVE IInv'
  <2>1. LoaderInv' /\ FanInv'
    BY <1>2, SameLoaderInv, SameFanInv DEF IInv, vars
  <2>2. CallInv' /\ EngineTypeOK'
    BY <1>2 DEF IInv, vars, loader, fanotify, engine, CallInv, EngineTypeOK
  <2> QED
    BY <2>1, <2>2 DEF IInv
<1> QED
  BY <1>1, <1>2

(* The invariant holds in every behaviour. *)
LEMMA AlwaysIInv == Spec => []IInv
BY InitIInv, NextIInv, PTL DEF Spec
-----------------------------------------------------------------------------
(* The variables of the engine, the loader and the monitor keep their      *)
(* types; in particular RingBuffer attaches the TTY probes under a real    *)
(* object, never under a null bpf_obj_.                                    *)
THEOREM TypeCorrect == Spec => []TypeOK
<1>1. IInv => TypeOK
  BY DEF IInv, LoaderInv, FanInv, EngineTypeOK, TypeOK
<1> QED
  BY <1>1, AlwaysIInv, PTL

(* RingBufferPollLoop always has its ring buffer and an open object.       *)
THEOREM PollAlwaysHasRing == Spec => []PollHasRing
<1>1. IInv => PollHasRing
  BY DEF IInv, LoaderInv, PollHasRing
<1> QED
  BY <1>1, AlwaysIInv, PTL

(* After EbpfLoader::Stop only file_permission is left attached, unless a  *)
(* failed Start was repeated.                                              *)
THEOREM StopAlwaysDetaches == Spec => []StopLeavesOnlyFilePermission
<1>1. IInv => StopLeavesOnlyFilePermission
  BY DEF IInv, LoaderInv, StopLeavesOnlyFilePermission
<1> QED
  BY <1>1, AlwaysIInv, PTL

(* No thread is in SendEvent of a sender that is not started or is being   *)
(* stopped: what the proofs about TelemetrySender take for granted.        *)
THEOREM SendersAlwaysQuiet == Spec => []SendersQuiet
<1>1. IInv => SendersQuiet
  BY DEF IInv, LoaderInv, StartInv, FanInv, CallInv, EngineTypeOK, CallStep,
     StartCall, StopCall, SendersQuiet, InSendEvent
<1> QED
  BY <1>1, AlwaysIInv, PTL

(* A failed start and a completed stop leave no thread behind that a later *)
(* start would assign over.                                                *)
THEOREM IdleNeverHasThreads == Spec => []IdleEngineHasNoThreads
<1>1. IInv => IdleEngineHasNoThreads
  BY DEF IInv, LoaderInv, StartInv, FanInv, CallInv, IdleEngineHasNoThreads
<1> QED
  BY <1>1, AlwaysIInv, PTL

(* An engine that reports to be running has the hooks of its mode.         *)
THEOREM RunningAlwaysHooked == Spec => []RunningEngineIsHooked
<1>1. IInv => RunningEngineIsHooked
  BY DEF IInv, LoaderInv, CallInv, RunningEngineIsHooked
<1> QED
  BY <1>1, AlwaysIInv, PTL

(* A read from a reused descriptor number is the monitor's last read.      *)
THEOREM StrayReadAlwaysLast == Spec => []StrayReadIsLast
<1>1. ASSUME IInv PROVE StrayReadIsLast
  <2>1. strays \in {0, 1} /\ (monPc = "stray" => ~fan_running)
    BY <1>1 DEF IInv, FanInv
  <2>2. strays <= 1
    BY SMT, <2>1
  <2> QED
    BY <2>1, <2>2 DEF StrayReadIsLast, Fanotify!StrayReadIsLast
<1> QED
  BY <1>1, AlwaysIInv, PTL

(* Once stopped, or failed for want of a ring buffer, the engine never     *)
(* runs again: initialize is refused and start finds no loader.            *)
THEOREM StopAlwaysFinal == Spec => StopIsFinal
<1> DEFINE Down == g_initialized /\ ~g_running /\ ~loader_initialized
<1>1. ASSUME IInv, Next, Down PROVE ~g_running' /\ ~loader_initialized'
  <2>1. ~StartFanotify /\ ~initialize_telemetry_engine
    BY <1>1 DEF IInv, LoaderInv, StartInv, CallInv, StartFanotify,
       initialize_telemetry_engine
  <2>2. UNCHANGED g_running \/ ~g_running'
    BY <1>1, <2>1 DEF Next, EngineStep, start_telemetry_engine, stop_telemetry_engine,
       send_telemetry_event, StartLoader, LoaderStarted, StartFails, StopLoader,
       LoaderStopped, StopFanotify, FanotifyStopped, StopSender, LoaderStep, PollThread,
       FanotifyStopStep, MonitorThread, FileEvent, ReadFails, StrayReadEnds,
       NumberReused, engine
  <2>3. UNCHANGED loader_initialized \/ ~loader_initialized'
    BY <1>1, <2>1 DEF Next, EngineStep, start_telemetry_engine, stop_telemetry_engine,
       send_telemetry_event, StartLoader, LoaderStarted, StartFails, StopLoader,
       LoaderStopped, StopFanotify, FanotifyStopped, StopSender, LoaderStep, PollThread,
       FanotifyStopStep, MonitorThread, FileEvent, ReadFails, StrayReadEnds,
       NumberReused, loader, Loader!Start, Loader!Stop, Loader!LoaderStep,
       Loader!LoadAndAttachLsm, Loader!LoadAndAttachFallback, Loader!NoRingBuffer,
       Loader!RingBuffer, Loader!StopJoined, Loader!Detach, Loader!flags,
       Loader!RingBufferPollLoop, Loader!PollCheck, Loader!PollDrained,
       Loader!PollFails, Loader!PollEvent, Loader!PollReturn
  <2> QED
    BY SMT, <1>1, <2>2, <2>3
<1>2. IInv /\ [Next]_vars => [Down => ~g_running' /\ ~loader_initialized']_vars
  BY <1>1
<1> QED
  BY <1>2, AlwaysIInv, PTL DEF Spec, StopIsFinal
=============================================================================

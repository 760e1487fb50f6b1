----------------------------- MODULE HookSteps -----------------------------
(***************************************************************************)
(* lsm/file_open access by access, while the host changes the maps, and    *)
(* the event it emits; next to it the hooks that only report.  KernelHooks *)
(* takes a hook as one step, but for the flags; here every access to a map *)
(* the host can write is a step.  The category of a file is the file.      *)
(***************************************************************************)
EXTENDS EventRing

CONSTANTS
    Opener,         \* tasks that open files; the others only report
    Inode, Device   \* files; those file_open knows by name

VARIABLES
    lsm,                        \* LSM hooks are attached, else tracepoints
    trusted_ancestor_roots,     \* tasks with value 1
    process_threshold_map,      \* tasks with threshold 1
    sensitive_inodes_map,       \* its keys
    config,                     \* blocking mode
    category_flags_map,         \* openers: categories they opened, {} if no entry
    new_flags,                  \* openers: the flags an open is about to write
    inode, blocking_enabled,    \* openers: the file, the mode they read
    verdict,                    \* openers: the answer, once it is known
    policy,     \* history: openers: answers due at some moment of the call
    hits        \* history: openers: updates during the call

maps == <<trusted_ancestor_roots, process_threshold_map, sensitive_inodes_map, config>>
flags == <<category_flags_map, new_flags>>
opens == <<inode, blocking_enabled, verdict, policy, hits>>
emission == <<programs, locals, calls, seq_counter, ringVars, preempted>>
vars == <<step, emission, lsm, maps, flags, opens>>

ASSUME StepsAssumption == Opener \subseteq Task /\ Device \subseteq Inode

HookStepsTypeOK ==
    /\ RingTypeOK
    /\ step \in [Task -> {"idle", "trusted", "mode", "device", "category", "threshold",
                          "flags", "update", "reserve", "load", "store", "details",
                          "submit", "return"}]
    /\ lsm \in BOOLEAN /\ config \in BOOLEAN
    /\ trusted_ancestor_roots \subseteq Opener /\ process_threshold_map \subseteq Opener
    /\ sensitive_inodes_map \subseteq Inode
    /\ category_flags_map \in [Opener -> SUBSET Inode]
    /\ new_flags \in [Opener -> SUBSET Inode]
    /\ inode \in [Opener -> Inode] /\ blocking_enabled \in [Opener -> BOOLEAN]
    /\ verdict \in [Opener -> {"none", "permit", "deny"}]
    /\ policy \in [Opener -> SUBSET {"permit", "deny"}] /\ hits \in [Opener -> 0..MaxCalls]

(* The host has set up the maps in one way or another; nothing has been    *)
(* opened, and the tracepoints read none of the maps.                      *)
Init ==
    /\ RingInit /\ step = [t \in Task |-> "idle"]
    /\ lsm \in BOOLEAN /\ config \in BOOLEAN
    /\ trusted_ancestor_roots \in SUBSET Opener /\ process_threshold_map \in SUBSET Opener
    /\ sensitive_inodes_map \in SUBSET Inode
    /\ ~lsm => ~config /\ trusted_ancestor_roots \cup process_threshold_map = {}
               /\ sensitive_inodes_map = {}
    /\ category_flags_map = [t \in Opener |-> {}] /\ new_flags = [t \in Opener |-> {}]
    /\ inode = [t \in Opener |-> CHOOSE i \in Inode : TRUE]
    /\ blocking_enabled = [t \in Opener |-> FALSE]
    /\ verdict = [t \in Opener |-> "none"]
    /\ policy = [t \in Opener |-> {}] /\ hits = [t \in Opener |-> 0]

(* What the maps, taken together, say about t opening i. *)
Answer(t, i, trusted, untrusted, sensitive, blocking) ==
    IF blocking /\ t \in untrusted \ trusted /\ i \in sensitive \cup Device
    THEN "deny" ELSE "permit"
-----------------------------------------------------------------------------
(* lsm/file_open. *)
file_open(t, i, c) ==
    /\ lsm
    /\ Begin(t, c, "open", "trusted", TRUE)
    /\ inode' = [inode EXCEPT ![t] = i]
    /\ policy' = [policy EXCEPT ![t] = {Answer(t, i, trusted_ancestor_roots,
                                  process_threshold_map, sensitive_inodes_map, config)}]
    /\ UNCHANGED <<lsm, maps, flags, blocking_enabled, verdict, hits>>

(* The program answers, now or once its event is out. *)
Answered(t, v, next) ==
    /\ verdict' = [verdict EXCEPT ![t] = v] /\ Go(t, next)

ReadTrusted(t) ==
    /\ step[t] = "trusted"
    /\ IF t \in trusted_ancestor_roots THEN Answered(t, "permit", "return")
                                       ELSE Go(t, "mode") /\ UNCHANGED verdict
    /\ UNCHANGED <<emission, lsm, maps, flags, inode, blocking_enabled, policy, hits>>

ReadMode(t) ==
    /\ step[t] = "mode"
    /\ blocking_enabled' = [blocking_enabled EXCEPT ![t] = config]
    /\ Go(t, IF config /\ inode[t] \in Device THEN "device" ELSE "category")
    /\ UNCHANGED <<emission, lsm, maps, flags, inode, verdict, policy, hits>>

(* A device is denied without an event. *)
ReadDeviceThreshold(t) ==
    /\ step[t] = "device"
    /\ IF t \in process_threshold_map THEN Answered(t, "deny", "return")
                                      ELSE Go(t, "category") /\ UNCHANGED verdict
    /\ UNCHANGED <<emission, lsm, maps, flags, inode, blocking_enabled, policy, hits>>

ReadCategory(t) ==
    /\ step[t] = "category"
    /\ IF inode[t] \notin sensitive_inodes_map THEN Answered(t, "permit", "return")
       ELSE IF blocking_enabled[t] THEN Go(t, "threshold") /\ UNCHANGED verdict
       ELSE Answered(t, "permit", "flags")
    /\ UNCHANGED <<emission, lsm, maps, flags, inode, blocking_enabled, policy, hits>>

(* Fault: the veto is given only if its event fits into the ring buffer. *)
VetoNeedsEvent(t) ==
    /\ step[t] = "threshold"
    /\ IF t \in process_threshold_map /\ head - tail < capacity
       THEN Answered(t, "deny", "reserve") ELSE Answered(t, "permit", "flags")
    /\ UNCHANGED <<emission, lsm, maps, flags, inode, blocking_enabled, policy, hits>>

ReadThreshold(t) ==
    /\ step[t] = "threshold"
    /\ IF t \in process_threshold_map
       THEN Answered(t, "deny", "reserve") ELSE Answered(t, "permit", "flags")
    /\ UNCHANGED <<emission, lsm, maps, flags, inode, blocking_enabled, policy, hits>>

(* What is permitted adds its category to the flags of the task, before    *)
(* its event is emitted: a lookup, then an update of the entry, which the  *)
(* host may write in between.                                              *)
ReadFlags(t) ==
    /\ step[t] = "flags"
    /\ new_flags' = [new_flags EXCEPT ![t] = category_flags_map[t] \cup {inode[t]}]
    /\ Go(t, "update")
    /\ UNCHANGED <<emission, lsm, maps, category_flags_map, opens>>

UpdateFlags(t) ==
    /\ step[t] = "update"
    /\ category_flags_map' = [category_flags_map EXCEPT ![t] = new_flags[t]]
    /\ new_flags' = [new_flags EXCEPT ![t] = {}]
    /\ Go(t, "reserve")
    /\ UNCHANGED <<emission, lsm, maps, opens>>

(* The other programs, reduced to their event: in LSM mode file_permission *)
(* and the like, in fallback mode the tracepoints.                         *)
Report(t, c) ==
    /\ Begin(t, c, "report", "reserve", lsm)
    /\ UNCHANGED <<lsm, maps, flags, opens>>

ReportMmap(t, c) ==
    /\ ~lsm
    /\ Begin(t, c, "mmap", "reserve", FALSE)
    /\ UNCHANGED <<lsm, maps, flags, opens>>

EmitEvent(t) == Emit(t) /\ UNCHANGED <<lsm, maps, flags, opens>>

Return(t) ==
    /\ End(t)
    /\ IF kind[t] = "open"
       THEN /\ blocking_enabled' = [blocking_enabled EXCEPT ![t] = FALSE]
            /\ inode' = [inode EXCEPT ![t] = CHOOSE i \in Inode : TRUE]
            /\ verdict' = [verdict EXCEPT ![t] = "none"]
            /\ policy' = [policy EXCEPT ![t] = {}] /\ hits' = [hits EXCEPT ![t] = 0]
       ELSE UNCHANGED opens
    /\ UNCHANGED <<lsm, maps, flags>>

Program(t) ==
    \/ ReadTrusted(t) \/ ReadMode(t) \/ ReadDeviceThreshold(t)
    \/ ReadCategory(t) \/ ReadThreshold(t) \/ ReadFlags(t) \/ UpdateFlags(t)
    \/ EmitEvent(t) \/ Return(t)
-----------------------------------------------------------------------------
(* A call of the host changes one map.  Changes between two opens are      *)
(* covered by the choice of Init.                                          *)
HostUpdate ==
    /\ calls < MaxCalls /\ calls' = calls + 1
    /\ LET open == {t \in Active : kind[t] = "open"} IN
       /\ open # {}
       /\ hits' = [t \in Opener |-> IF t \in open THEN hits[t] + 1 ELSE hits[t]]
       /\ policy' = [t \in Opener |->
                       IF t \notin open THEN policy[t]
                       ELSE policy[t] \cup
                            {Answer(t, inode[t], trusted_ancestor_roots',
                                    process_threshold_map', sensitive_inodes_map', config')}]
    /\ UNCHANGED <<step, programs, locals, seq_counter, ringVars, preempted,
                   lsm, flags, inode, blocking_enabled, verdict>>

SetConfigValue ==
    /\ config' = ~config
    /\ UNCHANGED <<trusted_ancestor_roots, process_threshold_map, sensitive_inodes_map>>
    /\ HostUpdate

AddSensitiveInode(i) ==
    /\ sensitive_inodes_map' = sensitive_inodes_map \cup {i}
    /\ UNCHANGED <<trusted_ancestor_roots, process_threshold_map, config>>
    /\ HostUpdate

UpdateThreshold(t) ==
    /\ \/ process_threshold_map' = process_threshold_map \cup {t}
       \/ process_threshold_map' = process_threshold_map \ {t}
    /\ UNCHANGED <<trusted_ancestor_roots, sensitive_inodes_map, config>>
    /\ HostUpdate

UpdateTrusted(t) ==
    /\ \/ trusted_ancestor_roots' = trusted_ancestor_roots \cup {t}
       \/ trusted_ancestor_roots' = trusted_ancestor_roots \ {t}
    /\ UNCHANGED <<process_threshold_map, sensitive_inodes_map, config>>
    /\ HostUpdate

(* The host writes or deletes the flags of a task; no answer reads them,   *)
(* so only writes during an open are of interest.                          *)
WriteFlags(t, m) ==
    /\ calls < MaxCalls /\ calls' = calls + 1
    /\ step[t] # "idle" /\ kind[t] = "open"
    /\ category_flags_map' = [category_flags_map EXCEPT ![t] = m]
    /\ UNCHANGED <<step, programs, locals, seq_counter, ringVars, preempted,
                   lsm, maps, new_flags, opens>>

RingBufferPollLoop == Consume /\ UNCHANGED <<lsm, maps, flags, opens>>

Host == \/ SetConfigValue \/ RingBufferPollLoop
        \/ \E i \in Inode : AddSensitiveInode(i)
        \/ \E t \in Opener : UpdateThreshold(t) \/ UpdateTrusted(t)
        \/ \E t \in Opener, m \in SUBSET Inode : WriteFlags(t, m)

Next == \/ \E t \in Task : Program(t)
        \/ \E t \in Opener, i \in Inode, c \in Cpu : file_open(t, i, c)
        \/ \E t \in Task, c \in Cpu : Report(t, c) \/ ReportMmap(t, c)
        \/ Host

Spec == Init /\ [][Next]_vars
-----------------------------------------------------------------------------
(* file_open reads four maps one after the other while the host writes     *)
(* them.  What it lets through was allowed at some moment of the call, and *)
(* what it denies was forbidden at some moment: a denial that mixes an old *)
(* with a new value takes at least two updates during the call.            *)
AnswerWasDue ==
    \A t \in Opener :
       /\ verdict[t] = "permit" => "permit" \in policy[t]
       /\ verdict[t] = "deny" => "deny" \in policy[t] \/ hits[t] >= 2
=============================================================================

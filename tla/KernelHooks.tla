---------------------------- MODULE KernelHooks ----------------------------
(***************************************************************************)
(* The programs of kinnector.bpf.c and the map calls of EbpfLoader: which  *)
(* process state the hooks record, what they let through and what they     *)
(* report, in LSM mode or in fallback (tracepoint) mode.                   *)
(*                                                                         *)
(* A hook is one step of the task that runs it, except that file_open      *)
(* looks up the flags of the task in one step and writes them back in      *)
(* another, with room for the host in between.  (The lookups before that   *)
(* are steps of their own in HookSteps.)  A call that returns early,       *)
(* touching neither a map nor the ring buffer and granting nothing that is *)
(* protected, changes nothing here and has no action.  Names of files,     *)
(* addresses and ports are reduced to the classes the hooks tell apart.    *)
(*                                                                         *)
(* External: execve(2) by a thread that is not the first of its process    *)
(* ends the other threads, and the task goes on under the start time of    *)
(* the first one, hence under another key than the exec hook saw.          *)
(***************************************************************************)
EXTENDS Naturals, Sequences, FiniteSets

CONSTANTS
    LsmMode,    \* LSM hooks are attached (else the tracepoints)
    Pid,        \* process ids, reused
    MaxStart,   \* bound: tasks created altogether
    MaxLive,    \* bound: tasks alive at a time
    Inode,      \* files, opened or executed
    Device,     \* those that file_open knows by name (input, uinput, mem)
    Category,   \* bits of a category mask
    Level,      \* values of trust levels and thresholds
    MapCap,     \* max_entries of the maps keyed by process
    RingCap,    \* events telemetry_ringbuf can hold
    MaxUpdates  \* bound: calls of the host

VARIABLES
    tasks, born,                \* keys of the live tasks, of all so far
    leader,                     \* start time of the first task of a process
    execs,                      \* tasks in execve(2), past the hook
    category_flags_map, pending_network_connect, trusted_ancestor_roots,
    process_threshold_map, tainted_process_map,
    sensitive_inodes_map, trusted_exec_inodes, config,
    ring,                       \* telemetry_ringbuf
    updates,                    \* calls of the host so far
    new_flags,  \* tasks in file_open, past the lookup: what they will write
    opened,     \* history: <<k, c>>, task k opened a file of category c, or
                \* the host said so, since the host last wrote k's flags
                \* with no file_open of k under way
    kept,       \* history: the same, but since the host last wrote k's
                \* flags at all, and without what an open is about to undo
    confined,   \* history: tasks whose image or host gave them threshold 1
    misfiled,   \* history: those of them that got another key since
    escaped,    \* history: tasks let through although confined
    orphans     \* history, of the fallback mode: keys without an exit to
                \* come, because the host updated them after it or because
                \* their task got another key

perProcess == <<category_flags_map, pending_network_connect,
                trusted_ancestor_roots, process_threshold_map, tainted_process_map>>
policy == <<sensitive_inodes_map, trusted_exec_inodes, config>>
processes == <<tasks, born, leader, execs>>
openings == <<new_flags, opened, kept>>
thresholds == <<confined, misfiled>>
history == <<escaped, orphans>>
vars == <<processes, perProcess, policy, ring, updates, openings, thresholds, history>>

ASSUME HooksAssumption ==
    /\ LsmMode \in BOOLEAN
    /\ MaxStart \in Nat \ {0} /\ MaxLive \in Nat /\ MapCap \in Nat
    /\ RingCap \in Nat /\ MaxUpdates \in Nat
    /\ Level \subseteq Nat /\ Device \subseteq Inode

(* struct process_key; a start_time of 0 stands for a failed probe read. *)
Key == [pid : Pid, start_time : 0..MaxStart]

(* The kinds of events the attached programs emit. *)
EventKind == {"ProcessCreate", "ProcessStop", "FileRead", "FileWrite", "MemoryMap",
              "NetworkConnect", "MemoryProtect", "PtraceAttach", "Dup2", "Listen"}

PartialFunctions(S, T) == UNION {[D -> T] : D \in SUBSET S}

MapTypeOK(map, T) ==
    /\ DOMAIN map \subseteq Key /\ Cardinality(DOMAIN map) <= MapCap
    /\ \A k \in DOMAIN map : map[k] \in T

TypeOK ==
    /\ tasks \subseteq born /\ born \subseteq Key
    /\ leader \in [Pid -> 0..MaxStart] /\ execs \subseteq tasks
    /\ MapTypeOK(category_flags_map, SUBSET Category)
    /\ MapTypeOK(pending_network_connect, Level \cup {1})
    /\ MapTypeOK(trusted_ancestor_roots, Level)
    /\ MapTypeOK(process_threshold_map, Level \cup {1})
    /\ MapTypeOK(tainted_process_map, Level)
    /\ sensitive_inodes_map \in PartialFunctions(Inode, Category)
    /\ trusted_exec_inodes \in PartialFunctions(Inode, Level)
    /\ config \in {0, 1}
    /\ ring \in Seq([type : EventKind, pid : Pid]) /\ Len(ring) <= RingCap
    /\ updates \in 0..MaxUpdates
    /\ new_flags \in PartialFunctions(tasks, SUBSET Category)
    /\ opened \subseteq Key \X Category /\ kept \subseteq opened
    /\ confined \subseteq Key /\ misfiled \subseteq Key
    /\ escaped \subseteq [task : Key, misfiled : BOOLEAN]
    /\ orphans \subseteq Key

Empty == [x \in {} |-> x]

(* The object has just been loaded; the host itself is the one task. *)
Init ==
    /\ \E p \in Pid :
          /\ born = {[pid |-> p, start_time |-> 1]}
          /\ leader = [q \in Pid |-> IF q = p THEN 1 ELSE 0]
    /\ tasks = born /\ execs = {}
    /\ category_flags_map = Empty /\ pending_network_connect = Empty
    /\ trusted_ancestor_roots = Empty /\ process_threshold_map = Empty
    /\ tainted_process_map = Empty
    /\ sensitive_inodes_map = Empty /\ trusted_exec_inodes = Empty /\ config = 0
    /\ ring = <<>> /\ updates = 0
    /\ new_flags = Empty /\ opened = {} /\ kept = {}
    /\ confined = {} /\ misfiled = {} /\ escaped = {} /\ orphans = {}
-----------------------------------------------------------------------------
(* bpf_map_update_elem with BPF_ANY on a hash map: a new key does not fit  *)
(* into a full map.  The programs ignore that error.                       *)
update_elem(map, k, v) ==
    IF k \in DOMAIN map \/ Cardinality(DOMAIN map) < MapCap
    THEN [j \in DOMAIN map \cup {k} |-> IF j = k THEN v ELSE map[j]]
    ELSE map

delete_elem(map, k) == [j \in DOMAIN map \ {k} |-> map[j]]

(* tgid and the start time of the current task, which may be any thread. *)
get_current_process_key(task) == [pid |-> task.pid, start_time |-> task.start_time]

(* Fault: the result of bpf_ringbuf_reserve is not checked. *)
EmitUnchecked(type, k) == ring' = Append(ring, [type |-> type, pid |-> k.pid])

(* Reserve, fill_header, submit: without room the event is dropped. *)
Emit(type, k) ==
    ring' = IF Len(ring) < RingCap THEN Append(ring, [type |-> type, pid |-> k.pid])
                                   ELSE ring

Blocking == config = 1
Trusted(k) == k \in DOMAIN trusted_ancestor_roots /\ trusted_ancestor_roots[k] = 1
Untrusted(k) == k \in DOMAIN process_threshold_map /\ process_threshold_map[k] = 1
Veto(k) == Blocking /\ Untrusted(k)

(* A hook answers 0 to something it would have denied an untrusted task. *)
Permit(task) ==
    escaped' = IF Blocking /\ task \in confined /\ ~Trusted(get_current_process_key(task))
               THEN escaped \cup {[task |-> task, misfiled |-> task \in misfiled]}
               ELSE escaped

(* An image or the host has given task k the threshold v. *)
Given(k, v) ==
    /\ confined' = IF v = 1 THEN confined \cup {k} ELSE confined \ {k}
    /\ misfiled' = misfiled \ {k}
-----------------------------------------------------------------------------
(* lsm/file_open. *)
file_open_device(t, i) ==
    LET k == get_current_process_key(t) IN
    /\ ~Trusted(k) /\ i \in Device \ DOMAIN sensitive_inodes_map /\ ~Veto(k)
    /\ Permit(t)
    /\ UNCHANGED <<perProcess, ring, openings, thresholds>>

(* Fault: the category is recorded before the threshold is looked at. *)
DeniedIsFlagged(t, i) ==
    LET k == get_current_process_key(t) IN
    /\ ~Trusted(k) /\ i \in DOMAIN sensitive_inodes_map \ Device /\ Veto(k)
    /\ category_flags_map' = update_elem(category_flags_map, k, {sensitive_inodes_map[i]})
    /\ Emit("FileRead", k)
    /\ UNCHANGED <<pending_network_connect, trusted_ancestor_roots, process_threshold_map,
                   tainted_process_map, openings, thresholds, escaped>>

file_open_denied(t, i) ==
    LET k == get_current_process_key(t) IN
    /\ ~Trusted(k) /\ i \in DOMAIN sensitive_inodes_map \ Device /\ Veto(k)
    /\ Emit("FileRead", k)
    /\ UNCHANGED <<perProcess, openings, thresholds, escaped>>

(* Fault: the new category replaces the flags. *)
FlagsOverwritten(t, i) ==
    LET k == get_current_process_key(t)
        c == sensitive_inodes_map[i]
    IN
    /\ ~Trusted(k) /\ i \in DOMAIN sensitive_inodes_map /\ ~Veto(k)
    /\ new_flags' = [u \in DOMAIN new_flags \cup {t} |-> IF u = t THEN {c} ELSE new_flags[u]]
    /\ opened' = opened \cup {<<t, c>>}
    /\ Permit(t)
    /\ UNCHANGED <<perProcess, ring, kept, thresholds>>

(* The open is let through: the flags are looked up and the category added *)
(* to what was found. *)
file_open_lookup(t, i) ==
    LET k == get_current_process_key(t)
        c == sensitive_inodes_map[i]
        flags == IF k \in DOMAIN category_flags_map THEN category_flags_map[k] ELSE {}
    IN
    /\ ~Trusted(k) /\ i \in DOMAIN sensitive_inodes_map /\ ~Veto(k)
    /\ new_flags' = [u \in DOMAIN new_flags \cup {t} |->
                        IF u = t THEN flags \cup {c} ELSE new_flags[u]]
    /\ opened' = opened \cup {<<t, c>>}
    /\ Permit(t)
    /\ UNCHANGED <<perProcess, ring, kept, thresholds>>

(* They are written back, whatever became of the entry meanwhile. *)
file_open_update(t) ==
    LET k == get_current_process_key(t) IN
    /\ t \in DOMAIN new_flags
    /\ category_flags_map' = update_elem(category_flags_map, k, new_flags[t])
    /\ kept' = kept \cup ({t} \X new_flags[t])
    /\ new_flags' = delete_elem(new_flags, t)
    /\ Emit("FileRead", k)
    /\ UNCHANGED <<pending_network_connect, trusted_ancestor_roots, process_threshold_map,
                   tainted_process_map, opened, thresholds, escaped>>

file_open(t, i) ==
    file_open_device(t, i) \/ file_open_denied(t, i) \/ file_open_lookup(t, i)

(* lsm/file_permission, for a write. *)
file_permission(t) ==
    LET k == get_current_process_key(t) IN
    /\ ~Trusted(k)
    /\ Emit("FileWrite", k)
    /\ UNCHANGED <<perProcess, openings, thresholds, escaped>>

(* lsm/socket_connect: a display or audio socket is denied silently, an    *)
(* inet address is marked as pending before it is denied.                  *)
socket_connect_unix(t, gui) ==
    LET k == get_current_process_key(t) IN
    /\ ~Trusted(k) /\ ~(gui /\ Veto(k))
    /\ IF gui THEN Permit(t) ELSE UNCHANGED escaped
    /\ Emit("NetworkConnect", k)
    /\ UNCHANGED <<perProcess, openings, thresholds>>

socket_connect_inet(t) ==
    LET k == get_current_process_key(t) IN
    /\ ~Trusted(k)
    /\ pending_network_connect' = update_elem(pending_network_connect, k, 1)
    /\ IF Veto(k) THEN UNCHANGED escaped ELSE Permit(t)
    /\ Emit("NetworkConnect", k)
    /\ UNCHANGED <<category_flags_map, trusted_ancestor_roots,
                   process_threshold_map, tainted_process_map, openings, thresholds>>

socket_connect(t) == \/ \E gui \in BOOLEAN : socket_connect_unix(t, gui)
                     \/ socket_connect_inet(t)

(* Fault: an unknown image leaves the threshold as it is. *)
UntrustedKeepThreshold(t, i) ==
    LET k == get_current_process_key(t) IN
    /\ \/ /\ i \in DOMAIN trusted_exec_inodes /\ trusted_exec_inodes[i] # 0
          /\ process_threshold_map' = update_elem(process_threshold_map, k, trusted_exec_inodes[i])
          /\ Given(t, trusted_exec_inodes[i])
       \/ /\ i \notin DOMAIN trusted_exec_inodes
          /\ IF Blocking THEN Given(t, 1) ELSE UNCHANGED thresholds
          /\ UNCHANGED process_threshold_map
    /\ Emit("ProcessCreate", k)
    /\ UNCHANGED <<category_flags_map, pending_network_connect,
                   trusted_ancestor_roots, tainted_process_map, openings, escaped>>

(* lsm/bprm_creds_for_exec: the threshold follows the image; an image with *)
(* trust level 0 is refused silently.  The header carries the parent's pid *)
(* and the details the task's; the event is filed under the latter here.   *)
bprm_creds_for_exec(t, i) ==
    LET k == get_current_process_key(t)
        threshold == IF i \in DOMAIN trusted_exec_inodes THEN trusted_exec_inodes[i] ELSE 1
    IN
    /\ threshold # 0
    /\ IF i \in DOMAIN trusted_exec_inodes \/ Blocking
       THEN /\ process_threshold_map' = update_elem(process_threshold_map, k, threshold)
            /\ Given(t, threshold)
       ELSE UNCHANGED <<process_threshold_map, thresholds>>
    /\ Emit("ProcessCreate", k)
    /\ UNCHANGED <<category_flags_map, pending_network_connect,
                   trusted_ancestor_roots, tainted_process_map, openings, escaped>>

(* lsm/ptrace_access_check reports every attempt. *)
ptrace_access_check(t) ==
    LET k == get_current_process_key(t) IN
    /\ Emit("PtraceAttach", k)
    /\ IF Trusted(k) \/ Veto(k) THEN UNCHANGED escaped ELSE Permit(t)
    /\ UNCHANGED <<perProcess, openings, thresholds>>

(* lsm/file_mprotect, for PROT_EXEC. *)
file_mprotect(t, anonymous) ==
    LET k == get_current_process_key(t) IN
    /\ ~Trusted(k) /\ ~(anonymous /\ Veto(k))
    /\ IF anonymous THEN Emit("MemoryMap", k) /\ Permit(t)
                    ELSE Emit("MemoryProtect", k) /\ UNCHANGED escaped
    /\ UNCHANGED <<perProcess, openings, thresholds>>

(* lsm/socket_listen, on a VNC or RDP port. *)
socket_listen(t) ==
    LET k == get_current_process_key(t) IN
    /\ ~Trusted(k) /\ ~Veto(k)
    /\ Permit(t)
    /\ UNCHANGED <<perProcess, ring, openings, thresholds>>

(* Neither in the middle of file_open nor of execve(2), which itself opens *)
(* files.                                                                  *)
Free(t) == t \notin DOMAIN new_flags /\ t \notin execs

LsmHook(t) ==
    /\ LsmMode
    /\ \/ /\ \/ t \notin DOMAIN new_flags /\ \E i \in Inode : file_open(t, i)
             \/ file_open_update(t)
             \/ /\ Free(t)
                /\ \/ file_permission(t) \/ socket_connect(t) \/ ptrace_access_check(t)
                   \/ \E anonymous \in BOOLEAN : file_mprotect(t, anonymous)
                   \/ socket_listen(t)
          /\ UNCHANGED execs
       \/ /\ Free(t) /\ \E i \in Inode : bprm_creds_for_exec(t, i)
          /\ execs' = execs \cup {t}
    /\ UNCHANGED <<tasks, born, leader, policy, updates, orphans>>
-----------------------------------------------------------------------------
(* The tracepoints record connects and exits and report the rest. *)
sys_enter_connect(t) ==
    LET k == get_current_process_key(t) IN
    /\ pending_network_connect' = update_elem(pending_network_connect, k, 1)
    /\ Emit("NetworkConnect", k)
    /\ UNCHANGED <<category_flags_map, trusted_ancestor_roots,
                   process_threshold_map, tainted_process_map, openings, thresholds, escaped>>

sys_enter_execve(t) == Emit("ProcessCreate", get_current_process_key(t))
sys_enter_openat(t) == Emit("FileRead", get_current_process_key(t))
sys_enter_mmap(t) == Emit("MemoryMap", get_current_process_key(t))
sys_enter_mprotect(t) == Emit("MemoryMap", get_current_process_key(t))
sys_enter_dup(t) == Emit("Dup2", get_current_process_key(t))
sys_enter_listen(t) == Emit("Listen", get_current_process_key(t))

Tracepoint(t) ==
    /\ ~LsmMode /\ Free(t)
    /\ \/ sys_enter_connect(t) /\ UNCHANGED execs
       \/ /\ \/ sys_enter_execve(t) /\ execs' = execs \cup {t}
             \/ /\ \/ sys_enter_openat(t) \/ sys_enter_mmap(t) \/ sys_enter_mprotect(t)
                   \/ sys_enter_dup(t) \/ sys_enter_listen(t)
                /\ UNCHANGED execs
          /\ UNCHANGED <<perProcess, openings, thresholds, escaped>>
    /\ UNCHANGED <<tasks, born, leader, policy, updates, orphans>>

(* Fault: one of the maps is not cleaned up. *)
ExitKeepsThreshold(t) ==
    LET k == get_current_process_key(t) IN
    /\ category_flags_map' = delete_elem(category_flags_map, k)
    /\ pending_network_connect' = delete_elem(pending_network_connect, k)
    /\ trusted_ancestor_roots' = delete_elem(trusted_ancestor_roots, k)
    /\ tainted_process_map' = delete_elem(tainted_process_map, k)
    /\ Emit("ProcessStop", k)
    /\ UNCHANGED process_threshold_map

(* sched_process_exit runs for every task that exits, thread or process. *)
sched_process_exit(t) ==
    LET k == get_current_process_key(t) IN
    /\ category_flags_map' = delete_elem(category_flags_map, k)
    /\ pending_network_connect' = delete_elem(pending_network_connect, k)
    /\ trusted_ancestor_roots' = delete_elem(trusted_ancestor_roots, k)
    /\ process_threshold_map' = delete_elem(process_threshold_map, k)
    /\ tainted_process_map' = delete_elem(tainted_process_map, k)
    /\ Emit("ProcessStop", k)

(* Tasks come and go: a thread of the same process or a process whose pid  *)
(* is free.  Only the tracepoint sees an exit.                             *)
StartTask(t, p) ==
    /\ Free(t) /\ Cardinality(tasks) < MaxLive /\ Cardinality(born) < MaxStart
    /\ LET start == Cardinality(born) + 1
           new == [pid |-> p, start_time |-> start] IN
       /\ \/ p = t.pid /\ UNCHANGED leader
          \/ (\A u \in tasks : u.pid # p) /\ leader' = [leader EXCEPT ![p] = start]
       /\ tasks' = tasks \cup {new} /\ born' = born \cup {new}
    /\ UNCHANGED <<execs, perProcess, policy, ring, updates, openings, thresholds, history>>

Exit(t) ==
    /\ tasks # {t} /\ t \notin DOMAIN new_flags
    /\ tasks' = tasks \ {t} /\ execs' = execs \ {t}
    /\ IF LsmMode THEN UNCHANGED <<perProcess, ring, kept, thresholds>>
       ELSE /\ sched_process_exit(t)
            /\ kept' = {o \in kept : o[1] # t}
            /\ confined' = confined \ {t} /\ misfiled' = misfiled \ {t}
    /\ UNCHANGED <<born, leader, policy, updates, new_flags, opened, history>>

(* execve(2) fails after the hook, or it succeeds once the other threads   *)
(* are gone: the task then has the key of the first thread.  What was      *)
(* recorded for it stays under the old key.                                *)
ExecFails(t) ==
    /\ t \in execs /\ t \notin DOMAIN new_flags
    /\ execs' = execs \ {t}
    /\ UNCHANGED <<tasks, born, leader, perProcess, policy, ring, updates, openings,
                   thresholds, history>>

ExecSucceeds(t) ==
    LET first == [pid |-> t.pid, start_time |-> leader[t.pid]] IN
    /\ t \in execs /\ t \notin DOMAIN new_flags
    /\ \A u \in tasks : u.pid = t.pid => u = t
    /\ tasks' = (tasks \ {t}) \cup {first} /\ execs' = execs \ {t}
    /\ confined' = IF t \in confined THEN confined \cup {first} ELSE confined \ {first}
    /\ misfiled' = IF t \in confined /\ t # first THEN misfiled \cup {first} ELSE misfiled
    /\ orphans' = IF LsmMode THEN orphans ELSE orphans \cup ({t} \ {first})
    /\ UNCHANGED <<born, leader, perProcess, policy, ring, updates, openings, escaped>>
-----------------------------------------------------------------------------
(* Calls of the host.  UpdateMapEntry and DeleteMapEntry name a process by *)
(* pid and start time; it may have exited since the host learned of it.    *)
HostCall == updates < MaxUpdates /\ updates' = updates + 1

(* The host has replaced the flags of task k by m.  A file_open of k that  *)
(* is under way will undo that.                                            *)
Attributed(k, m) ==
    LET others(H) == {o \in H : o[1] # k} IN
    IF k \in DOMAIN new_flags
    THEN opened' = opened \cup ({k} \X m) /\ kept' = others(kept)
    ELSE opened' = others(opened) \cup ({k} \X m) /\ kept' = others(kept) \cup ({k} \X m)

UpdateCategoryFlags(k, m) ==
    /\ category_flags_map' = update_elem(category_flags_map, k, m)
    /\ IF k \in DOMAIN category_flags_map' THEN Attributed(k, m) ELSE UNCHANGED <<opened, kept>>
    /\ UNCHANGED <<pending_network_connect, trusted_ancestor_roots,
                   process_threshold_map, tainted_process_map, new_flags, thresholds>>

UpdatePending(k, v) ==
    /\ pending_network_connect' = update_elem(pending_network_connect, k, v)
    /\ UNCHANGED <<category_flags_map, trusted_ancestor_roots,
                   process_threshold_map, tainted_process_map, openings, thresholds>>

UpdateThreshold(k, v) ==
    /\ process_threshold_map' = update_elem(process_threshold_map, k, v)
    /\ IF k \in DOMAIN process_threshold_map' THEN Given(k, v) ELSE UNCHANGED thresholds
    /\ UNCHANGED <<category_flags_map, pending_network_connect,
                   trusted_ancestor_roots, tainted_process_map, openings>>

UpdateTrusted(k, v) ==
    /\ trusted_ancestor_roots' = update_elem(trusted_ancestor_roots, k, v)
    /\ UNCHANGED <<category_flags_map, pending_network_connect, process_threshold_map,
                   tainted_process_map, openings, thresholds>>

UpdateTainted(k, v) ==
    /\ tainted_process_map' = update_elem(tainted_process_map, k, v)
    /\ UNCHANGED <<category_flags_map, pending_network_connect, process_threshold_map,
                   trusted_ancestor_roots, openings, thresholds>>

UpdateMapEntry(k) ==
    /\ HostCall
    /\ \/ \E m \in SUBSET Category : UpdateCategoryFlags(k, m)
       \/ \E v \in Level : \/ UpdatePending(k, v) \/ UpdateThreshold(k, v)
                            \/ UpdateTrusted(k, v) \/ UpdateTainted(k, v)
    /\ orphans' = IF LsmMode THEN orphans ELSE orphans \cup ({k} \ tasks)
    /\ UNCHANGED <<processes, policy, ring, escaped>>

DeleteMapEntry(k) ==
    /\ HostCall
    /\ \/ /\ category_flags_map' = delete_elem(category_flags_map, k)
          /\ Attributed(k, {})
          /\ UNCHANGED <<pending_network_connect, process_threshold_map,
                         trusted_ancestor_roots, tainted_process_map, new_flags,
                         thresholds>>
       \/ /\ pending_network_connect' = delete_elem(pending_network_connect, k)
          /\ UNCHANGED <<category_flags_map, process_threshold_map,
                         trusted_ancestor_roots, tainted_process_map, openings, thresholds>>
       \/ /\ process_threshold_map' = delete_elem(process_threshold_map, k)
          /\ confined' = confined \ {k} /\ misfiled' = misfiled \ {k}
          /\ UNCHANGED <<category_flags_map, pending_network_connect,
                         trusted_ancestor_roots, tainted_process_map, openings>>
       \/ /\ trusted_ancestor_roots' = delete_elem(trusted_ancestor_roots, k)
          /\ UNCHANGED <<category_flags_map, pending_network_connect,
                         process_threshold_map, tainted_process_map, openings, thresholds>>
       \/ /\ tainted_process_map' = delete_elem(tainted_process_map, k)
          /\ UNCHANGED <<category_flags_map, pending_network_connect,
                         process_threshold_map, trusted_ancestor_roots, openings, thresholds>>
    /\ UNCHANGED <<processes, policy, ring, history>>

(* The maps keyed by inode hold thousands of entries; they do not fill up. *)
InodeEntry(map, i, v) == [j \in DOMAIN map \cup {i} |-> IF j = i THEN v ELSE map[j]]

AddSensitiveInode(i, c) ==
    /\ HostCall
    /\ sensitive_inodes_map' = InodeEntry(sensitive_inodes_map, i, c)
    /\ UNCHANGED <<processes, perProcess, trusted_exec_inodes, config, ring, openings,
                   thresholds, history>>

AddTrustedExecInode(i, v) ==
    /\ HostCall
    /\ trusted_exec_inodes' = InodeEntry(trusted_exec_inodes, i, v)
    /\ UNCHANGED <<processes, perProcess, sensitive_inodes_map, config, ring, openings,
                   thresholds, history>>

SetConfigValue(v) ==
    /\ HostCall
    /\ config' = v
    /\ UNCHANGED <<processes, perProcess, sensitive_inodes_map, trusted_exec_inodes, ring,
                   openings, thresholds, history>>

(* The ring buffer thread takes an event. *)
HandleRingBufferEvent ==
    /\ ring # <<>> /\ ring' = Tail(ring)
    /\ UNCHANGED <<processes, perProcess, policy, updates, openings, thresholds, history>>

Host == \/ \E k \in born : DeleteMapEntry(k) \/ UpdateMapEntry(k)
        \/ \E i \in Inode, c \in Category : AddSensitiveInode(i, c)
        \/ \E i \in Inode, v \in Level : AddTrustedExecInode(i, v)
        \/ \E v \in {0, 1} : SetConfigValue(v)
        \/ HandleRingBufferEvent

Next == \/ \E t \in tasks : \/ LsmHook(t) \/ Tracepoint(t) \/ Exit(t)
                             \/ ExecFails(t) \/ ExecSucceeds(t)
        \/ \E t \in tasks, p \in Pid : StartTask(t, p)
        \/ Host

Spec == Init /\ [][Next]_vars
-----------------------------------------------------------------------------
(* A category flag of a live task is there because that very task opened   *)
(* such a file, or the host wrote it with UpdateMapEntry: neither another  *)
(* thread, nor the previous owner of a reused pid, nor an open that        *)
(* file_open denied leaves one.  None survives an UpdateMapEntry or a      *)
(* DeleteMapEntry either, unless that call fell between the lookup and the *)
(* update of a file_open of this task, which then undoes it.  (A task that *)
(* took over the key of the first thread by execve(2) counts as that one.) *)
FlagsHaveCause ==
    \A t \in tasks : LET k == get_current_process_key(t) IN
        k \in DOMAIN category_flags_map =>
            \A c \in category_flags_map[k] : <<t, c>> \in opened

(* And none is lost, as long as category_flags_map has room for every task *)
(* there has been: file_open adds to what the task opened before and what  *)
(* the host wrote.  Only what the host writes between the lookup and the   *)
(* update of a file_open of this task need not stay.                       *)
FlagsComplete ==
    \A t \in tasks, c \in Category :
        <<t, c>> \in kept =>
            /\ get_current_process_key(t) \in DOMAIN category_flags_map
            /\ c \in category_flags_map[get_current_process_key(t)]

(* While blocking is on, a task that executed an untrusted image or was    *)
(* given threshold 1 gets nothing past any of the LSM hooks, until an      *)
(* exec of a trusted image or the host changes its threshold or trusts it, *)
(* as long as process_threshold_map has room for every task.  The one      *)
(* exception: the image was executed by a thread that was not the first of *)
(* its process.  Its threshold is then filed under the key of that thread, *)
(* where no hook looks it up any more.                                     *)
UntrustedIsContained == \A e \in escaped : e.misfiled

(* sched_process_exit cleans up: no map holds an entry of a task that has  *)
(* exited, except what the host wrote after the exit, and what was written *)
(* for a thread before it took over another key by execve(2).              *)
ExitCleansUp ==
    \A k \in UNION {DOMAIN category_flags_map, DOMAIN pending_network_connect,
                    DOMAIN trusted_ancestor_roots, DOMAIN process_threshold_map,
                    DOMAIN tainted_process_map} :
        k \in tasks \cup orphans

(* "If blocking is enabled, untrusted files default to Threshold = 1       *)
(* (Untrusted)": a live task that executed one, and still has the key it   *)
(* had then, has that threshold.                                           *)
UntrustedHasThreshold ==
    \A t \in (tasks \cap confined) \ misfiled : Untrusted(get_current_process_key(t))
=============================================================================

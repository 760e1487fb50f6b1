------------------------- MODULE KernelHooksProofs -------------------------
(***************************************************************************)
(* Proofs about the hooks, for any number of pids, tasks, inodes and       *)
(* categories.                                                             *)
(*                                                                         *)
(* Flags have a cause whatever the capacity of the maps.  FlagsHaveCause   *)
(* speaks of live tasks; the inductive invariant is about every key in the *)
(* map, because in LSM mode the entries of exited tasks stay, and about    *)
(* what a file_open under way is going to write.                           *)
(*                                                                         *)
(* Untrusted tasks are contained, and flags are complete, if the maps have *)
(* room for every task there has been: a task without an entry then finds  *)
(* room for one, so that the programs may ignore the result of             *)
(* bpf_map_update_elem.  A task is contained as long as it has the key     *)
(* under which it was confined.                                            *)
(*                                                                         *)
(* That the maps never outgrow max_entries, and that an exit leaves        *)
(* nothing behind in fallback mode, rest on one lemma about what any step  *)
(* does to any of the five maps keyed by process, NextMapSteps.            *)
(***************************************************************************)
EXTENDS KernelHooks, FiniteSetTheorems, TLAPS

(* Most leaves are first-order; those with arithmetic cite SMT. *)
USE Zenon

(* Tasks are numbered in the order in which they start; a call belongs to  *)
(* a live task; the first task of a live process has had its key.          *)
BirthInv ==
    /\ tasks \subseteq born /\ born \subseteq Key
    /\ IsFiniteSet(born) /\ Cardinality(born) <= MaxStart
    /\ \A k \in born : k.start_time <= Cardinality(born)
    /\ execs \subseteq tasks /\ DOMAIN new_flags \subseteq tasks
    /\ leader \in [Pid -> 0..MaxStart]
    /\ \A t \in tasks : [pid |-> t.pid, start_time |-> leader[t.pid]] \in born

(* Every flag in the map, of whatever key, has its cause, and so has every *)
(* flag that a file_open under way is about to write.                      *)
FlagInv ==
    /\ \A k \in DOMAIN category_flags_map : \A c \in category_flags_map[k] :
           <<k, c>> \in opened
    /\ \A t \in DOMAIN new_flags : \A c \in new_flags[t] : <<t, c>> \in opened

(* A live task that is confined has threshold 1 in the map, unless it got  *)
(* another key since.                                                      *)
ConfinedInv ==
    /\ DOMAIN process_threshold_map \subseteq born
    /\ confined \subseteq born
    /\ \A t \in tasks : t \in confined \ misfiled => Untrusted(t)
    /\ \A e \in escaped : e.misfiled

(* A task is identified by its key. *)
LEMMA KeyIdentifies ==
    ASSUME NEW t \in Key
    PROVE  get_current_process_key(t) = t
BY DEF get_current_process_key, Key

(* One task has started and every map is empty. *)
LEMMA InitInv == ASSUME Init PROVE BirthInv /\ FlagInv /\ ConfinedInv
<1>1. PICK p \in Pid : /\ born = {[pid |-> p, start_time |-> 1]}
                       /\ leader = [q \in Pid |-> IF q = p THEN 1 ELSE 0]
  BY DEF Init
<1>2. IsFiniteSet(born) /\ Cardinality(born) = 1
  BY <1>1, FS_Singleton
<1>3. BirthInv
  <2>1. leader \in [Pid -> 0..MaxStart]
    BY SMT, <1>1, HooksAssumption
  <2>2. \A t \in tasks : [pid |-> t.pid, start_time |-> leader[t.pid]] \in born
    <3>1. tasks = born /\ leader[p] = 1
      BY <1>1 DEF Init
    <3> QED
      BY SMT, <1>1, <3>1
  <2>3. born \subseteq Key /\ Cardinality(born) <= MaxStart
        /\ \A k \in born : k.start_time <= Cardinality(born)
    BY SMT, <1>1, <1>2, HooksAssumption DEF Key
  <2> QED
    BY <1>2, <2>1, <2>2, <2>3 DEF Init, BirthInv, Empty
<1>4. FlagInv
  BY DEF Init, FlagInv, Empty
<1>5. ConfinedInv
  BY DEF Init, ConfinedInv, Empty
<1> QED
  BY <1>3, <1>4, <1>5

(* A new task gets a key that no task has had. *)
LEMMA StartIsFresh ==
    ASSUME BirthInv, NEW t \in tasks, NEW p \in Pid, StartTask(t, p)
    PROVE  /\ BirthInv'
           /\ \E new : new \notin born /\ tasks' = tasks \cup {new}
                                       /\ born' = born \cup {new}
<1> DEFINE start == Cardinality(born) + 1
           new == [pid |-> p, start_time |-> start]
<1>1. Cardinality(born) \in Nat
  BY FS_CardinalityType DEF BirthInv
<1>2. new \notin born
  BY SMT, <1>1 DEF BirthInv
<1>3. /\ Cardinality(born) < MaxStart
      /\ tasks' = tasks \cup {new} /\ born' = born \cup {new}
      /\ UNCHANGED <<execs, new_flags>>
      /\ \/ p = t.pid /\ leader' = leader
         \/ (\A u \in tasks : u.pid # p) /\ leader' = [leader EXCEPT ![p] = start]
  BY DEF StartTask, openings
<1>4. IsFiniteSet(born') /\ Cardinality(born') = Cardinality(born) + 1
  BY <1>2, <1>3, FS_AddElement DEF BirthInv
<1>5. new \in Key /\ new.start_time = start /\ new.pid = p /\ start \in 0..MaxStart
  BY SMT, <1>1, <1>3, HooksAssumption DEF Key
<1>6. Cardinality(born') <= MaxStart
  BY SMT, <1>1, <1>3, <1>4, HooksAssumption
<1>7. tasks' \subseteq born' /\ born' \subseteq Key
  BY <1>3, <1>5 DEF BirthInv
<1>8. ASSUME NEW k \in born' PROVE k.start_time <= Cardinality(born')
  <2>1. CASE k = new
    BY SMT, <2>1, <1>1, <1>4, <1>5
  <2>2. CASE k \in born
    <3>1. k.start_time \in Nat /\ k.start_time <= Cardinality(born)
      BY SMT, <2>2, HooksAssumption DEF BirthInv, Key
    <3> QED
      BY SMT, <3>1, <1>1, <1>4
  <2> QED
    BY <1>3, <2>1, <2>2
<1> HIDE DEF start
<1>9. leader' \in [Pid -> 0..MaxStart]
  BY <1>3, <1>5 DEF BirthInv
<1>10. ASSUME NEW u \in tasks'
       PROVE  [pid |-> u.pid, start_time |-> leader'[u.pid]] \in born'
  <2>1. u.pid \in Pid
    BY <1>7 DEF Key
  <2>2. CASE leader' = leader /\ p = t.pid
    <3>1. CASE u \in tasks
      BY <1>3, <2>2, <3>1 DEF BirthInv
    <3>2. CASE u = new
      BY <1>3, <1>5, <2>2, <3>2 DEF BirthInv
    <3> QED
      BY <1>3, <3>1, <3>2
  <2>3. CASE (\A v \in tasks : v.pid # p) /\ leader' = [leader EXCEPT ![p] = start]
    <3>1. CASE u \in tasks
      <4>1. leader'[u.pid] = leader[u.pid]
        BY <2>1, <2>3, <3>1 DEF BirthInv
      <4> QED
        BY <1>3, <3>1, <4>1 DEF BirthInv
    <3>2. CASE u = new
      <4>1. leader'[p] = start
        BY <2>3 DEF BirthInv
      <4> QED
        BY <1>3, <1>5, <3>2, <4>1
    <3> QED
      BY <1>3, <3>1, <3>2
  <2> QED
    BY <1>3, <2>2, <2>3
<1>11. BirthInv'
  BY <1>3, <1>4, <1>6, <1>7, <1>8, <1>9, <1>10 DEF BirthInv
<1> QED
  BY <1>2, <1>3, <1>11

(* What file_open, an exit and the host do to the flags. *)
DeleteFlags(k) ==
    /\ category_flags_map' = delete_elem(category_flags_map, k)
    /\ Attributed(k, {}) /\ UNCHANGED new_flags
ExitFlags(t) ==
    /\ category_flags_map' = delete_elem(category_flags_map, t)
    /\ kept' = {o \in kept : o[1] # t}
    /\ UNCHANGED <<new_flags, opened>>

FlagStep ==
    \/ \E t \in tasks : \/ \E i \in Inode : file_open_lookup(t, i)
                        \/ file_open_update(t) \/ ExitFlags(t)
    \/ \E k \in born : \/ \E m \in SUBSET Category : UpdateCategoryFlags(k, m)
                       \/ DeleteFlags(k)
    \/ UNCHANGED <<category_flags_map, new_flags, opened, kept>>

(* No step does anything else to them. *)
LEMMA NextFlagSteps == ASSUME BirthInv, [Next]_vars PROVE FlagStep
<1>1. CASE UNCHANGED vars
  BY <1>1 DEF vars, perProcess, openings, FlagStep
<1>2. ASSUME NEW t \in tasks, LsmHook(t) PROVE FlagStep
  BY <1>2 DEF LsmHook, FlagStep, file_open, file_open_device, file_open_denied, perProcess,
     openings, bprm_creds_for_exec, file_permission, socket_connect, socket_connect_unix,
     socket_connect_inet, ptrace_access_check, file_mprotect, socket_listen
<1>3. ASSUME NEW t \in tasks, Tracepoint(t) PROVE FlagStep
  BY <1>3 DEF Tracepoint, FlagStep, sys_enter_connect, perProcess, openings
<1>4. ASSUME NEW t \in tasks, Exit(t) PROVE FlagStep
  <2>1. get_current_process_key(t) = t
    BY KeyIdentifies DEF BirthInv
  <2> QED
    BY <1>4, <2>1 DEF Exit, FlagStep, ExitFlags, sched_process_exit, perProcess
<1>5. ASSUME NEW t \in tasks, ExecFails(t) \/ ExecSucceeds(t) PROVE FlagStep
  BY <1>5 DEF ExecFails, ExecSucceeds, FlagStep, perProcess, openings
<1>6. ASSUME NEW t \in tasks, NEW p \in Pid, StartTask(t, p) PROVE FlagStep
  BY <1>6 DEF StartTask, FlagStep, perProcess, openings
<1>7. ASSUME NEW k \in born, DeleteMapEntry(k) PROVE FlagStep
  BY <1>7 DEF DeleteMapEntry, FlagStep, DeleteFlags, openings
<1>8. ASSUME NEW k \in born, UpdateMapEntry(k) PROVE FlagStep
  BY <1>8 DEF UpdateMapEntry, FlagStep, UpdatePending, UpdateThreshold, UpdateTrusted,
     UpdateTainted, openings
<1>9. ASSUME Host PROVE FlagStep
  BY <1>7, <1>8, <1>9 DEF Host, AddSensitiveInode, AddTrustedExecInode, SetConfigValue,
     HandleRingBufferEvent, FlagStep, perProcess, openings
<1> QED
  BY <1>1, <1>2, <1>3, <1>4, <1>5, <1>6, <1>9 DEF Next

(* Only StartTask, Exit and ExecSucceeds change which tasks there are. *)
LEMMA NextBirthInv == ASSUME BirthInv, [Next]_vars PROVE BirthInv'
<1>1. ASSUME UNCHANGED <<tasks, born, leader>>, execs' \subseteq tasks,
             DOMAIN new_flags' \subseteq tasks
      PROVE  BirthInv'
  BY <1>1 DEF BirthInv
<1>2. ASSUME NEW t \in tasks, LsmHook(t) PROVE BirthInv'
  <2>1. UNCHANGED <<tasks, born, leader>> /\ execs' \subseteq tasks
    BY <1>2 DEF LsmHook, BirthInv
  <2>2. \/ new_flags' = new_flags
        \/ \E i \in Inode : file_open_lookup(t, i)
        \/ file_open_update(t)
    BY <1>2 DEF LsmHook, file_open, file_open_device, file_open_denied, openings,
       bprm_creds_for_exec, file_permission, socket_connect, socket_connect_unix,
       socket_connect_inet, ptrace_access_check, file_mprotect, socket_listen
  <2>3. DOMAIN new_flags' \subseteq DOMAIN new_flags \cup {t}
    BY <2>2 DEF file_open_lookup, file_open_update, delete_elem
  <2> QED
    BY <1>1, <2>1, <2>3 DEF BirthInv
<1>3. ASSUME NEW t \in tasks, Tracepoint(t) PROVE BirthInv'
  BY <1>1, <1>3 DEF Tracepoint, sys_enter_connect, openings, BirthInv
<1>4. ASSUME NEW t \in tasks, Exit(t) PROVE BirthInv'
  BY <1>4 DEF Exit, BirthInv
<1>5. ASSUME NEW t \in tasks, ExecFails(t) PROVE BirthInv'
  BY <1>1, <1>5 DEF ExecFails, openings, BirthInv
<1>6. ASSUME NEW t \in tasks, ExecSucceeds(t) PROVE BirthInv'
  <2> DEFINE first == [pid |-> t.pid, start_time |-> leader[t.pid]]
  <2>1. first \in born /\ first.pid = t.pid
    BY DEF BirthInv
  <2>2. /\ tasks' = (tasks \ {t}) \cup {first} /\ execs' = execs \ {t}
        /\ t \notin DOMAIN new_flags /\ UNCHANGED <<born, leader, new_flags>>
    BY <1>6 DEF ExecSucceeds, openings
  <2>3. [pid |-> first.pid, start_time |-> leader[first.pid]] \in born
    BY <2>1
  <2> HIDE DEF first
  <2> QED
    BY <2>1, <2>2, <2>3 DEF BirthInv
<1>7. ASSUME NEW t \in tasks, NEW p \in Pid, StartTask(t, p) PROVE BirthInv'
  BY <1>7, StartIsFresh
<1>8. ASSUME Host PROVE BirthInv'
  <2>1. UNCHANGED <<tasks, born, leader, execs, new_flags>>
    BY <1>8 DEF Host, DeleteMapEntry, UpdateMapEntry, UpdateCategoryFlags, UpdatePending,
       UpdateThreshold, UpdateTrusted, UpdateTainted, AddSensitiveInode,
       AddTrustedExecInode, SetConfigValue, HandleRingBufferEvent, processes, openings
  <2> QED
    BY <1>1, <2>1 DEF BirthInv
<1>9. CASE UNCHANGED vars
  BY <1>1, <1>9 DEF vars, processes, openings, BirthInv
<1> QED
  BY <1>2, <1>3, <1>4, <1>5, <1>6, <1>7, <1>8, <1>9 DEF Next
-----------------------------------------------------------------------------
(* Attributed: the causes the host gives, and those it leaves alone. *)
LEMMA AttributedOpened ==
    ASSUME NEW k, NEW m, Attributed(k, m)
    PROVE  /\ \A c \in m : <<k, c>> \in opened'
           /\ \A j, c : j # k /\ <<j, c>> \in opened => <<j, c>> \in opened'
           /\ k \in DOMAIN new_flags => opened \subseteq opened'
<1>1. \A c \in m : <<k, c>> \in {k} \X m
  OBVIOUS
<1>2. \A j, c : <<j, c>>[1] = j
  BY SMT
<1> QED
  BY <1>1, <1>2 DEF Attributed

(* file_open adds the category it has just let the task open to the flags  *)
(* it found, and later writes the result; the host writes or deletes all   *)
(* flags of a key at once.                                                 *)
LEMMA NextFlagInv == ASSUME FlagInv, FlagStep, BirthInv PROVE FlagInv'
<1>1. ASSUME NEW t \in tasks, NEW i \in Inode, file_open_lookup(t, i) PROVE FlagInv'
  <2> DEFINE c == sensitive_inodes_map[i]
             flags == IF t \in DOMAIN category_flags_map THEN category_flags_map[t] ELSE {}
  <2>1. get_current_process_key(t) = t
    BY KeyIdentifies DEF BirthInv
  <2>2. /\ new_flags' = [u \in DOMAIN new_flags \cup {t} |->
                            IF u = t THEN flags \cup {c} ELSE new_flags[u]]
        /\ opened' = opened \cup {<<t, c>>} /\ UNCHANGED category_flags_map
    BY <1>1, <2>1 DEF file_open_lookup, perProcess
  <2>3. \A d \in flags \cup {c} : <<t, d>> \in opened'
    BY <2>2 DEF FlagInv
  <2> HIDE DEF c, flags
  <2> QED
    BY <2>2, <2>3 DEF FlagInv
<1>2. ASSUME NEW t \in tasks, file_open_update(t) PROVE FlagInv'
  <2>1. get_current_process_key(t) = t
    BY KeyIdentifies DEF BirthInv
  <2>2. /\ t \in DOMAIN new_flags /\ opened' = opened
        /\ new_flags' = delete_elem(new_flags, t)
        /\ \/ category_flags_map' = category_flags_map
           \/ category_flags_map' = [j \in DOMAIN category_flags_map \cup {t} |->
                 IF j = t THEN new_flags[t] ELSE category_flags_map[j]]
    BY <1>2, <2>1 DEF file_open_update, update_elem
  <2>3. ASSUME NEW k \in DOMAIN category_flags_map', NEW c \in category_flags_map'[k]
        PROVE  <<k, c>> \in opened
    <3>1. CASE category_flags_map' = category_flags_map
      BY <2>3, <3>1 DEF FlagInv
    <3>2. CASE category_flags_map' = [j \in DOMAIN category_flags_map \cup {t} |->
                  IF j = t THEN new_flags[t] ELSE category_flags_map[j]]
      <4>1. CASE k = t
        BY <2>2, <2>3, <3>2, <4>1 DEF FlagInv
      <4>2. CASE k # t
        BY <2>3, <3>2, <4>2 DEF FlagInv
      <4> QED
        BY <4>1, <4>2
    <3> QED
      BY <2>2, <3>1, <3>2
  <2> QED
    BY <2>2, <2>3 DEF FlagInv, delete_elem
<1>3. ASSUME NEW t \in tasks, ExitFlags(t) PROVE FlagInv'
  BY <1>3 DEF ExitFlags, delete_elem, FlagInv
<1>4. ASSUME NEW k \in born, NEW m \in SUBSET Category, UpdateCategoryFlags(k, m)
      PROVE  FlagInv'
  <2>1. CASE category_flags_map' = category_flags_map /\ opened' = opened
    BY <1>4, <2>1 DEF FlagInv, UpdateCategoryFlags
  <2>2. CASE /\ category_flags_map' = [j \in DOMAIN category_flags_map \cup {k} |->
                    IF j = k THEN m ELSE category_flags_map[j]]
             /\ Attributed(k, m)
    <3>1. /\ \A c \in m : <<k, c>> \in opened'
          /\ \A j, c : j # k /\ <<j, c>> \in opened => <<j, c>> \in opened'
          /\ k \in DOMAIN new_flags => opened \subseteq opened'
      BY <2>2, AttributedOpened
    <3>2. new_flags' = new_flags
      BY <1>4 DEF UpdateCategoryFlags
    <3>3. ASSUME NEW j \in DOMAIN category_flags_map', NEW c \in category_flags_map'[j]
          PROVE  <<j, c>> \in opened'
      <4>1. CASE j = k
        BY <2>2, <3>1, <3>3, <4>1
      <4>2. CASE j # k
        BY <2>2, <3>1, <3>3, <4>2 DEF FlagInv
      <4> QED
        BY <4>1, <4>2
    <3> QED
      BY <3>1, <3>2, <3>3 DEF FlagInv
  <2> QED
    BY <1>4, <2>1, <2>2 DEF UpdateCategoryFlags, update_elem
<1>5. ASSUME NEW k \in born, DeleteFlags(k) PROVE FlagInv'
  <2>1. /\ \A j, c : j # k /\ <<j, c>> \in opened => <<j, c>> \in opened'
        /\ k \in DOMAIN new_flags => opened \subseteq opened'
    BY <1>5, AttributedOpened DEF DeleteFlags
  <2> QED
    BY <1>5, <2>1 DEF DeleteFlags, delete_elem, FlagInv
<1>6. CASE UNCHANGED <<category_flags_map, new_flags, opened, kept>>
  BY <1>6 DEF FlagInv
<1> QED
  BY <1>1, <1>2, <1>3, <1>4, <1>5, <1>6 DEF FlagStep

(* In every behaviour a category flag of a live task was set by an open of *)
(* that task or by the host, whatever threads and reused pids there are    *)
(* and however full category_flags_map is; if the host replaced or deleted *)
(* the flags since, it did so between the lookup and the update of a       *)
(* file_open of that task.                                                 *)
THEOREM FlagsAlwaysHaveCause == Spec => []FlagsHaveCause
<1>1. Init => BirthInv /\ FlagInv
  BY InitInv
<1>2. BirthInv /\ FlagInv /\ [Next]_vars => BirthInv' /\ FlagInv'
  BY NextBirthInv, NextFlagSteps, NextFlagInv
<1>3. BirthInv /\ FlagInv => FlagsHaveCause
  BY KeyIdentifies DEF BirthInv, FlagInv, FlagsHaveCause
<1> QED
  BY <1>1, <1>2, <1>3, PTL DEF Spec
-----------------------------------------------------------------------------
(* A key that a task has had stays known. *)
LEMMA NextBorn == ASSUME [Next]_vars PROVE born \subseteq born'
BY DEF Next, LsmHook, Tracepoint, Exit, ExecFails, ExecSucceeds, StartTask, Host,
   DeleteMapEntry, UpdateMapEntry, AddSensitiveInode, AddTrustedExecInode, SetConfigValue,
   HandleRingBufferEvent, processes, vars

(* With room for every task a map of some tasks has room for another one. *)
LEMMA RoomForTask ==
    ASSUME MaxStart <= MapCap, BirthInv, NEW D \in SUBSET born, NEW k \in born
    PROVE  k \in D \/ Cardinality(D) < MapCap
<1> SUFFICES ASSUME k \notin D PROVE Cardinality(D) < MapCap
  OBVIOUS
<1>1. D \subseteq born /\ D # born
  OBVIOUS
<1>2. /\ IsFiniteSet(D) /\ Cardinality(D) <= Cardinality(born)
      /\ Cardinality(D) = Cardinality(born) => D = born
  BY <1>1, FS_Subset DEF BirthInv
<1>3. Cardinality(D) \in Nat /\ Cardinality(born) \in Nat
  BY <1>2, FS_CardinalityType DEF BirthInv
<1>4. Cardinality(born) <= MaxStart
  BY DEF BirthInv
<1> QED
  BY SMT, <1>1, <1>2, <1>3, <1>4, HooksAssumption

(* What is left of ConfinedInv to show when thresholds do not change. *)
LEMMA SameThresholds ==
    ASSUME ConfinedInv, UNCHANGED <<process_threshold_map, confined, misfiled>>,
           born \subseteq born', \A t \in tasks' : t \in confined => t \in tasks,
           \A e \in escaped' : e.misfiled
    PROVE  ConfinedInv'
BY DEF ConfinedInv, Untrusted

(* A hook that would veto an untrusted task lets a confined one past only  *)
(* if that got another key since.                                          *)
LEMMA PermitIsSafe ==
    ASSUME BirthInv, ConfinedInv, NEW t \in tasks, Permit(t),
           ~Veto(get_current_process_key(t))
    PROVE  \A e \in escaped' : e.misfiled
<1>1. get_current_process_key(t) = t
  BY KeyIdentifies DEF BirthInv
<1>2. CASE Blocking /\ t \in confined /\ ~Trusted(t)
  <2>1. t \in misfiled
    BY <1>1, <1>2 DEF ConfinedInv, Veto
  <2>2. escaped' = escaped \cup {[task |-> t, misfiled |-> t \in misfiled]}
    BY <1>1, <1>2 DEF Permit
  <2>3. [task |-> t, misfiled |-> t \in misfiled].misfiled = (t \in misfiled)
    OBVIOUS
  <2> QED
    BY <2>1, <2>2, <2>3 DEF ConfinedInv
<1>3. CASE ~(Blocking /\ t \in confined /\ ~Trusted(t))
  BY <1>1, <1>3 DEF Permit, ConfinedInv
<1> QED
  BY <1>2, <1>3

(* The threshold of one task is set to v and the history says so. *)
LEMMA ThresholdSet ==
    ASSUME ConfinedInv, NEW k \in born, NEW v,
           process_threshold_map' = [j \in DOMAIN process_threshold_map \cup {k} |->
                                        IF j = k THEN v ELSE process_threshold_map[j]],
           Given(k, v),
           UNCHANGED <<tasks, born, escaped>>
    PROVE  ConfinedInv'
BY DEF ConfinedInv, Untrusted, Given

(* Every LSM hook keeps the invariant. *)
LEMMA HookConfinedInv ==
    ASSUME MaxStart <= MapCap, BirthInv, ConfinedInv, NEW t \in tasks, LsmHook(t)
    PROVE  ConfinedInv'
<1>1. get_current_process_key(t) = t /\ t \in born
  BY KeyIdentifies DEF BirthInv
<1>2. UNCHANGED <<tasks, born>>
  BY DEF LsmHook
<1>3. CASE /\ UNCHANGED <<process_threshold_map, confined, misfiled>>
           /\ \A e \in escaped' : e.misfiled
  BY <1>2, <1>3, SameThresholds
<1>4. ASSUME NEW i \in Inode, bprm_creds_for_exec(t, i) PROVE ConfinedInv'
  <2> DEFINE v == IF i \in DOMAIN trusted_exec_inodes THEN trusted_exec_inodes[i] ELSE 1
  <2>1. escaped' = escaped
    BY <1>4 DEF bprm_creds_for_exec
  <2>2. CASE UNCHANGED <<process_threshold_map, confined, misfiled>>
    BY <1>3, <2>1, <2>2 DEF ConfinedInv
  <2>3. CASE /\ process_threshold_map' = update_elem(process_threshold_map, t, v)
             /\ Given(t, v)
    <3> HIDE DEF v
    <3>1. t \in DOMAIN process_threshold_map
             \/ Cardinality(DOMAIN process_threshold_map) < MapCap
      BY <1>1, RoomForTask DEF ConfinedInv
    <3>2. process_threshold_map' = [j \in DOMAIN process_threshold_map \cup {t} |->
                                       IF j = t THEN v ELSE process_threshold_map[j]]
      BY <2>3, <3>1 DEF update_elem
    <3> QED
      BY <1>1, <1>2, <2>1, <2>3, <3>2, ThresholdSet
  <2> QED
    BY <1>1, <1>4, <2>2, <2>3 DEF bprm_creds_for_exec, thresholds
<1>5. ASSUME NEW i \in Inode, file_open(t, i) PROVE ConfinedInv'
  <2>1. UNCHANGED <<process_threshold_map, confined, misfiled>>
    BY <1>5 DEF file_open, file_open_device, file_open_denied, file_open_lookup, perProcess,
                thresholds
  <2>2. \A e \in escaped' : e.misfiled
    BY <1>5, PermitIsSafe DEF file_open, file_open_device, file_open_denied,
                              file_open_lookup, ConfinedInv
  <2> QED
    BY <1>3, <2>1, <2>2
<1>6. ASSUME file_permission(t) PROVE ConfinedInv'
  BY <1>3, <1>6 DEF file_permission, perProcess, thresholds, ConfinedInv
<1>7. ASSUME socket_connect(t) PROVE ConfinedInv'
  <2>1. UNCHANGED <<process_threshold_map, confined, misfiled>>
    BY <1>7 DEF socket_connect, socket_connect_unix, socket_connect_inet, perProcess,
                thresholds
  <2>2. \A e \in escaped' : e.misfiled
    BY <1>7, PermitIsSafe DEF socket_connect, socket_connect_unix, socket_connect_inet,
                              ConfinedInv
  <2> QED
    BY <1>3, <2>1, <2>2
<1>8. ASSUME ptrace_access_check(t) PROVE ConfinedInv'
  BY <1>3, <1>8, PermitIsSafe DEF ptrace_access_check, perProcess, thresholds, ConfinedInv
<1>9. ASSUME NEW anonymous \in BOOLEAN, file_mprotect(t, anonymous) PROVE ConfinedInv'
  BY <1>3, <1>9, PermitIsSafe DEF file_mprotect, perProcess, thresholds, ConfinedInv
<1>10. ASSUME socket_listen(t) PROVE ConfinedInv'
  BY <1>3, <1>10, PermitIsSafe DEF socket_listen, perProcess, thresholds
<1>11. ASSUME file_open_update(t) PROVE ConfinedInv'
  BY <1>3, <1>11 DEF file_open_update, thresholds, ConfinedInv
<1> QED
  BY <1>4, <1>5, <1>6, <1>7, <1>8, <1>9, <1>10, <1>11 DEF LsmHook

(* The host confines and releases through process_threshold_map alone. *)
LEMMA HostConfinedInv ==
    ASSUME MaxStart <= MapCap, BirthInv, ConfinedInv, Host
    PROVE  ConfinedInv'
<1>1. UNCHANGED <<tasks, born, escaped>>
  BY DEF Host, DeleteMapEntry, UpdateMapEntry, AddSensitiveInode, history, processes,
         AddTrustedExecInode, SetConfigValue, HandleRingBufferEvent
<1>2. CASE UNCHANGED <<process_threshold_map, confined, misfiled>>
  BY <1>1, <1>2, SameThresholds DEF ConfinedInv
<1>3. ASSUME NEW k \in born, NEW v \in Level, UpdateThreshold(k, v) PROVE ConfinedInv'
  <2>1. process_threshold_map' = update_elem(process_threshold_map, k, v)
    BY <1>3 DEF UpdateThreshold
  <2>2. process_threshold_map' = [j \in DOMAIN process_threshold_map \cup {k} |->
                                     IF j = k THEN v ELSE process_threshold_map[j]]
    <3>1. k \in DOMAIN process_threshold_map
             \/ Cardinality(DOMAIN process_threshold_map) < MapCap
      BY RoomForTask DEF ConfinedInv
    <3> QED
      BY <2>1, <3>1 DEF update_elem
  <2>3. k \in DOMAIN process_threshold_map'
    BY <2>2
  <2>4. Given(k, v)
    BY <1>3, <2>3 DEF UpdateThreshold
  <2> QED
    BY <1>1, <2>2, <2>4, ThresholdSet
<1>4. ASSUME NEW k \in born,
             process_threshold_map' = delete_elem(process_threshold_map, k),
             confined' = confined \ {k}, misfiled' = misfiled \ {k}
      PROVE  ConfinedInv'
  BY <1>1, <1>4 DEF ConfinedInv, Untrusted, delete_elem
<1>5. ASSUME NEW k \in born, DeleteMapEntry(k) PROVE ConfinedInv'
  BY <1>2, <1>4, <1>5 DEF DeleteMapEntry, thresholds
<1>6. ASSUME NEW k \in born, UpdateMapEntry(k) PROVE ConfinedInv'
  BY <1>2, <1>3, <1>6 DEF UpdateMapEntry, UpdateCategoryFlags, UpdatePending,
                          UpdateTrusted, UpdateTainted, thresholds
<1> QED
  BY <1>2, <1>5, <1>6 DEF Host, AddSensitiveInode, AddTrustedExecInode,
     SetConfigValue, HandleRingBufferEvent, perProcess, thresholds

(* An exit may delete the entry of the task that exits, a start adds a     *)
(* task that nobody has confined yet, a tracepoint lets everything pass; a *)
(* task that gets another key takes its confinement along as misfiled.     *)
LEMMA NextConfinedInv ==
    ASSUME MaxStart <= MapCap, BirthInv, ConfinedInv, [Next]_vars
    PROVE  ConfinedInv'
<1> SUFFICES ASSUME Next PROVE ConfinedInv'
  BY SameThresholds DEF vars, processes, perProcess, thresholds, history, ConfinedInv
<1>1. ASSUME NEW t \in tasks, LsmHook(t) PROVE ConfinedInv'
  BY <1>1, HookConfinedInv
<1>2. ASSUME NEW t \in tasks, Tracepoint(t) PROVE ConfinedInv'
  BY <1>2, SameThresholds DEF Tracepoint, sys_enter_connect, perProcess, thresholds,
                              ConfinedInv
<1>3. ASSUME NEW t \in tasks, Exit(t) PROVE ConfinedInv'
  <2>1. tasks' = tasks \ {t} /\ UNCHANGED <<born, escaped>>
    BY <1>3 DEF Exit, history
  <2>2. CASE UNCHANGED <<process_threshold_map, confined, misfiled>>
    BY <2>1, <2>2, SameThresholds DEF ConfinedInv
  <2>3. CASE /\ process_threshold_map' = delete_elem(process_threshold_map, t)
             /\ confined' = confined \ {t} /\ misfiled' = misfiled \ {t}
    BY <2>1, <2>3 DEF ConfinedInv, Untrusted, delete_elem
  <2>4. get_current_process_key(t) = t
    BY KeyIdentifies DEF BirthInv
  <2> QED
    BY <1>3, <2>2, <2>3, <2>4 DEF Exit, perProcess, thresholds, sched_process_exit
<1>4. ASSUME NEW t \in tasks, NEW p \in Pid, StartTask(t, p) PROVE ConfinedInv'
  <2>1. PICK new : new \notin born /\ tasks' = tasks \cup {new} /\ born' = born \cup {new}
    BY <1>4, StartIsFresh
  <2>2. UNCHANGED <<process_threshold_map, confined, misfiled, escaped>>
    BY <1>4 DEF StartTask, perProcess, thresholds, history
  <2> QED
    BY <2>1, <2>2, SameThresholds DEF ConfinedInv
<1>5. ASSUME Host PROVE ConfinedInv'
  BY <1>5, HostConfinedInv
<1>6. ASSUME NEW t \in tasks, ExecFails(t) PROVE ConfinedInv'
  BY <1>6, SameThresholds DEF ExecFails, perProcess, thresholds, history, ConfinedInv
<1>7. ASSUME NEW t \in tasks, ExecSucceeds(t) PROVE ConfinedInv'
  <2> DEFINE first == [pid |-> t.pid, start_time |-> leader[t.pid]]
  <2>1. /\ tasks' = (tasks \ {t}) \cup {first}
        /\ confined' = IF t \in confined THEN confined \cup {first} ELSE confined \ {first}
        /\ misfiled' = IF t \in confined /\ t # first THEN misfiled \cup {first} ELSE misfiled
        /\ UNCHANGED <<born, process_threshold_map, escaped>>
    BY <1>7 DEF ExecSucceeds, perProcess
  <2>2. first \in born
    BY DEF BirthInv
  <2> HIDE DEF first
  <2>3. ASSUME NEW u \in tasks', u \in confined' \ misfiled' PROVE Untrusted(u)
    <3>1. CASE u = first
      BY <2>1, <2>3, <3>1 DEF ConfinedInv
    <3>2. CASE u # first
      BY <2>1, <2>3, <3>2 DEF ConfinedInv
    <3> QED
      BY <3>1, <3>2
  <2> QED
    BY <2>1, <2>2, <2>3 DEF ConfinedInv, Untrusted
<1> QED
  BY <1>1, <1>2, <1>3, <1>4, <1>5, <1>6, <1>7 DEF Next

(* If the maps have room for every task, then while blocking is on no LSM  *)
(* hook lets a confined task do what it is meant to keep from it, unless   *)
(* that task got another key by execve(2) since it was confined, as a      *)
(* thread other than the first of its process does.                        *)
THEOREM UntrustedAlwaysContained ==
    ASSUME MaxStart <= MapCap
    PROVE  Spec => []UntrustedIsContained
<1>1. Init => BirthInv /\ ConfinedInv
  BY InitInv
<1>2. BirthInv /\ ConfinedInv /\ [Next]_vars => BirthInv' /\ ConfinedInv'
  BY NextBirthInv, NextConfinedInv
<1>3. ConfinedInv => UntrustedIsContained
  BY DEF ConfinedInv, UntrustedIsContained
<1> QED
  BY <1>1, <1>2, <1>3, PTL DEF Spec
-----------------------------------------------------------------------------
(* What a task opened, and the host has not written over, is among its     *)
(* flags, and among those that a file_open under way will write.           *)
CompleteInv ==
    /\ DOMAIN category_flags_map \subseteq born
    /\ \A k, c : <<k, c>> \in kept =>
           k \in DOMAIN category_flags_map /\ c \in category_flags_map[k]
    /\ \A t \in DOMAIN new_flags : \A c : <<t, c>> \in kept => c \in new_flags[t]

(* Attributed: what stays of the flags of k, and of those of the others. *)
LEMMA AttributedKept ==
    ASSUME NEW k, NEW m, Attributed(k, m)
    PROVE  /\ \A c : <<k, c>> \in kept' => c \in m /\ k \notin DOMAIN new_flags
           /\ \A j, c : j # k /\ <<j, c>> \in kept' => <<j, c>> \in kept
<1>1. \A j, c : <<j, c>>[1] = j
  BY SMT
<1>2. \A j, c : <<j, c>> \in {k} \X m => j = k /\ c \in m
  OBVIOUS
<1>3. kept' \subseteq {o \in kept : o[1] # k} \cup ({k} \X m)
  BY DEF Attributed
<1>4. k \in DOMAIN new_flags => kept' = {o \in kept : o[1] # k}
  BY DEF Attributed
<1> QED
  BY <1>1, <1>2, <1>3, <1>4

(* file_open finds room for the flags and keeps the old ones; what the     *)
(* host writes or deletes it writes or deletes for good, unless a          *)
(* file_open is under way; an exit deletes the flags of its task.          *)
LEMMA NextComplete ==
    ASSUME MaxStart <= MapCap, BirthInv, CompleteInv, FlagStep, born \subseteq born'
    PROVE  CompleteInv'
<1>1. ASSUME NEW t \in tasks, NEW i \in Inode, file_open_lookup(t, i) PROVE CompleteInv'
  <2> DEFINE c == sensitive_inodes_map[i]
             flags == IF t \in DOMAIN category_flags_map THEN category_flags_map[t] ELSE {}
  <2>1. get_current_process_key(t) = t
    BY KeyIdentifies DEF BirthInv
  <2>2. /\ new_flags' = [u \in DOMAIN new_flags \cup {t} |->
                            IF u = t THEN flags \cup {c} ELSE new_flags[u]]
        /\ UNCHANGED <<category_flags_map, kept>>
    BY <1>1, <2>1 DEF file_open_lookup, perProcess
  <2>3. \A d : <<t, d>> \in kept => d \in flags
    BY DEF CompleteInv
  <2> HIDE DEF c, flags
  <2>4. \A u \in DOMAIN new_flags' : \A d : <<u, d>> \in kept => d \in new_flags'[u]
    BY <2>2, <2>3 DEF CompleteInv
  <2> QED
    BY <2>2, <2>4 DEF CompleteInv
<1>2. ASSUME NEW t \in tasks, file_open_update(t) PROVE CompleteInv'
  <2>1. get_current_process_key(t) = t /\ t \in born
    BY KeyIdentifies DEF BirthInv
  <2>2. t \in DOMAIN category_flags_map \/ Cardinality(DOMAIN category_flags_map) < MapCap
    BY <2>1, RoomForTask DEF CompleteInv
  <2>3. /\ t \in DOMAIN new_flags /\ kept' = kept \cup ({t} \X new_flags[t])
        /\ new_flags' = [u \in DOMAIN new_flags \ {t} |-> new_flags[u]]
        /\ category_flags_map' = [j \in DOMAIN category_flags_map \cup {t} |->
              IF j = t THEN new_flags[t] ELSE category_flags_map[j]]
    BY <1>2, <2>1, <2>2 DEF file_open_update, update_elem, delete_elem
  <2>4. /\ \A c : <<t, c>> \in kept' => c \in new_flags[t]
        /\ \A j, c : j # t /\ <<j, c>> \in kept' => <<j, c>> \in kept
    BY <2>3 DEF CompleteInv
  <2>5. ASSUME NEW k, NEW c, <<k, c>> \in kept'
        PROVE  k \in DOMAIN category_flags_map' /\ c \in category_flags_map'[k]
    <3>1. CASE k = t
      BY <2>3, <2>4, <2>5, <3>1
    <3>2. CASE k # t
      BY <2>3, <2>4, <2>5, <3>2 DEF CompleteInv
    <3> QED
      BY <3>1, <3>2
  <2>6. \A u \in DOMAIN new_flags' : \A c : <<u, c>> \in kept' => c \in new_flags'[u]
    BY <2>3, <2>4 DEF CompleteInv
  <2>7. DOMAIN category_flags_map' \subseteq born'
    BY <2>1, <2>3 DEF CompleteInv
  <2> QED
    BY <2>5, <2>6, <2>7 DEF CompleteInv
<1>3. ASSUME NEW t \in tasks, ExitFlags(t) PROVE CompleteInv'
  <2>1. \A k, c : <<k, c>> \in kept' => <<k, c>> \in kept /\ k # t
    <3>1. \A k, c : <<k, c>>[1] = k
      BY SMT
    <3> QED
      BY <1>3, <3>1 DEF ExitFlags
  <2> QED
    BY <1>3, <2>1 DEF ExitFlags, delete_elem, CompleteInv
<1>4. ASSUME NEW k \in born, NEW m \in SUBSET Category, UpdateCategoryFlags(k, m)
      PROVE  CompleteInv'
  <2>1. k \in DOMAIN category_flags_map \/ Cardinality(DOMAIN category_flags_map) < MapCap
    BY RoomForTask DEF CompleteInv
  <2>2. category_flags_map' = [j \in DOMAIN category_flags_map \cup {k} |->
            IF j = k THEN m ELSE category_flags_map[j]]
    BY <1>4, <2>1 DEF UpdateCategoryFlags, update_elem
  <2>3. Attributed(k, m) /\ new_flags' = new_flags
    BY <1>4, <2>2 DEF UpdateCategoryFlags
  <2>4. /\ \A c : <<k, c>> \in kept' => c \in m /\ k \notin DOMAIN new_flags
        /\ \A j, c : j # k /\ <<j, c>> \in kept' => <<j, c>> \in kept
    BY <2>3, AttributedKept
  <2>5. ASSUME NEW j, NEW c, <<j, c>> \in kept'
        PROVE  j \in DOMAIN category_flags_map' /\ c \in category_flags_map'[j]
    <3>1. CASE j = k
      BY <2>2, <2>4, <2>5, <3>1
    <3>2. CASE j # k
      BY <2>2, <2>4, <2>5, <3>2 DEF CompleteInv
    <3> QED
      BY <3>1, <3>2
  <2>6. DOMAIN category_flags_map' \subseteq born'
    BY <2>2 DEF CompleteInv
  <2> QED
    BY <2>3, <2>4, <2>5, <2>6 DEF CompleteInv
<1>5. ASSUME NEW k \in born, DeleteFlags(k) PROVE CompleteInv'
  <2>1. Attributed(k, {})
    BY <1>5 DEF DeleteFlags
  <2>2. /\ \A c : <<k, c>> \in kept' => c \in {} /\ k \notin DOMAIN new_flags
        /\ \A j, c : j # k /\ <<j, c>> \in kept' => <<j, c>> \in kept
    BY <2>1, AttributedKept
  <2>3. \A c : <<k, c>> \notin kept'
    BY <2>2
  <2> QED
    BY <1>5, <2>2, <2>3 DEF DeleteFlags, delete_elem, CompleteInv
<1>6. CASE UNCHANGED <<category_flags_map, new_flags, opened, kept>>
  BY <1>6 DEF CompleteInv
<1> QED
  BY <1>1, <1>2, <1>3, <1>4, <1>5, <1>6 DEF FlagStep

(* If the maps have room for every task, every category that a live task   *)
(* opened through file_open, or that the host wrote for it, is a flag of   *)
(* that task until the host changes its flags; of what the host wrote,     *)
(* only what it wrote while a file_open of that task was between its       *)
(* lookup and its update may be lost.                                      *)
THEOREM FlagsAlwaysComplete ==
    ASSUME MaxStart <= MapCap
    PROVE  Spec => []FlagsComplete
<1>1. Init => BirthInv /\ CompleteInv
  BY InitInv DEF Init, CompleteInv, Empty
<1>2. BirthInv /\ CompleteInv /\ [Next]_vars => BirthInv' /\ CompleteInv'
  BY NextBirthInv, NextBorn, NextFlagSteps, NextComplete
<1>3. BirthInv /\ CompleteInv => FlagsComplete
  BY KeyIdentifies DEF BirthInv, CompleteInv, FlagsComplete
<1> QED
  BY <1>1, <1>2, <1>3, PTL DEF Spec
-----------------------------------------------------------------------------
(* What a step may do to a map keyed by process: nothing, delete the entry *)
(* of a task, or write a T for one; in fallback mode, for one that is      *)
(* alive or that the host names although it has exited.                    *)
MapStep(map, next, T) ==
    \/ next = map
    \/ \E k \in born : next = delete_elem(map, k)
    \/ \E k \in born, v \in T : /\ next = update_elem(map, k, v)
                                /\ LsmMode \/ k \in tasks' \cup orphans'

(* No map holds a key that was never a task's. *)
DomainInv ==
    /\ DOMAIN category_flags_map \subseteq born
    /\ DOMAIN pending_network_connect \subseteq born
    /\ DOMAIN trusted_ancestor_roots \subseteq born
    /\ DOMAIN process_threshold_map \subseteq born
    /\ DOMAIN tainted_process_map \subseteq born

(* Such a step keeps to the keys of tasks, to T and to max_entries. *)
LEMMA MapStepTypeOK ==
    ASSUME BirthInv, NEW map, NEW next, NEW T, MapStep(map, next, T),
           DOMAIN map \subseteq born, MapTypeOK(map, T)
    PROVE  DOMAIN next \subseteq born /\ MapTypeOK(next, T)
<1>1. born \subseteq Key /\ IsFiniteSet(born) /\ MapCap \in Nat
  BY HooksAssumption DEF BirthInv
<1>2. IsFiniteSet(DOMAIN map)
  BY <1>1, FS_Subset
<1>3. Cardinality(DOMAIN map) \in Nat
  BY <1>2, FS_CardinalityType
<1>4. CASE next = map
  BY <1>4
<1>5. ASSUME NEW k \in born, next = delete_elem(map, k)
      PROVE  DOMAIN next \subseteq born /\ MapTypeOK(next, T)
  <2>1. /\ DOMAIN next = DOMAIN map \ {k}
        /\ \A j \in DOMAIN next : next[j] = map[j]
    BY <1>5 DEF delete_elem
  <2>2. Cardinality(DOMAIN next) <= Cardinality(DOMAIN map)
    BY <1>2, <2>1, FS_Subset
  <2>3. Cardinality(DOMAIN next) \in Nat
    BY <1>2, <2>1, FS_Subset, FS_CardinalityType
  <2>4. Cardinality(DOMAIN next) <= MapCap
    BY SMT, <1>1, <1>3, <2>2, <2>3 DEF MapTypeOK
  <2> QED
    BY <2>1, <2>4 DEF MapTypeOK
<1>6. ASSUME NEW k \in born, NEW v \in T, next = update_elem(map, k, v)
      PROVE  DOMAIN next \subseteq born /\ MapTypeOK(next, T)
  <2>1. CASE next = map
    BY <2>1
  <2>2. CASE /\ k \in DOMAIN map \/ Cardinality(DOMAIN map) < MapCap
             /\ next = [j \in DOMAIN map \cup {k} |-> IF j = k THEN v ELSE map[j]]
    <3>1. DOMAIN next = DOMAIN map \cup {k}
      BY <2>2
    <3>2. CASE k \in DOMAIN map
      <4>1. DOMAIN next = DOMAIN map
        BY <3>1, <3>2
      <4> QED
        BY <2>2, <4>1 DEF MapTypeOK
    <3>3. CASE k \notin DOMAIN map
      <4>1. Cardinality(DOMAIN next) = Cardinality(DOMAIN map) + 1
        BY <1>2, <3>1, <3>3, FS_AddElement
      <4>2. Cardinality(DOMAIN next) <= MapCap
        BY SMT, <1>1, <1>3, <2>2, <3>3, <4>1
      <4> QED
        BY <1>1, <2>2, <3>1, <4>2 DEF MapTypeOK
    <3> QED
      BY <3>2, <3>3
  <2> QED
    BY <1>6, <2>1, <2>2 DEF update_elem
<1> QED
  BY <1>4, <1>5, <1>6 DEF MapStep

(* The five maps and the values they hold. *)
MapSteps ==
    /\ MapStep(category_flags_map, category_flags_map', SUBSET Category)
    /\ MapStep(pending_network_connect, pending_network_connect', Level \cup {1})
    /\ MapStep(trusted_ancestor_roots, trusted_ancestor_roots', Level)
    /\ MapStep(process_threshold_map, process_threshold_map', Level \cup {1})
    /\ MapStep(tainted_process_map, tainted_process_map', Level)

(* What PartialFunctions means. *)
LEMMA PartialFunctionDef ==
    ASSUME NEW S, NEW T, NEW f
    PROVE  f \in PartialFunctions(S, T) <=> DOMAIN f \subseteq S /\ f \in [DOMAIN f -> T]
BY DEF PartialFunctions

(* The hooks write flags, thresholds and pending connects of the task that *)
(* runs them.                                                              *)
LEMMA HookMapSteps ==
    ASSUME BirthInv, TypeOK, NEW t \in tasks, LsmHook(t)
    PROVE  MapSteps
<1>1. get_current_process_key(t) = t /\ t \in born /\ t \in tasks'
  BY KeyIdentifies DEF BirthInv, LsmHook
<1>2. CASE UNCHANGED perProcess
  BY <1>2 DEF perProcess, MapSteps, MapStep
<1>3. ASSUME file_open_update(t) PROVE MapSteps
  <2>1. category_flags_map' = update_elem(category_flags_map, t, new_flags[t])
    BY <1>1, <1>3 DEF file_open_update
  <2>2. new_flags[t] \in SUBSET Category
    <3>1. new_flags \in PartialFunctions(tasks, SUBSET Category)
      BY DEF TypeOK
    <3>2. t \in DOMAIN new_flags
      BY <1>3 DEF file_open_update
    <3>3. new_flags \in [DOMAIN new_flags -> SUBSET Category]
      BY <3>1, PartialFunctionDef
    <3> QED
      BY <3>2, <3>3
  <2>3. UNCHANGED <<pending_network_connect, trusted_ancestor_roots,
                    process_threshold_map, tainted_process_map>>
    BY <1>3 DEF file_open_update
  <2> QED
    BY <1>1, <2>1, <2>2, <2>3 DEF MapSteps, MapStep
<1>4. ASSUME NEW i \in Inode, bprm_creds_for_exec(t, i) PROVE MapSteps
  <2> DEFINE v == IF i \in DOMAIN trusted_exec_inodes THEN trusted_exec_inodes[i] ELSE 1
  <2>1. \/ process_threshold_map' = process_threshold_map
        \/ process_threshold_map' = update_elem(process_threshold_map, t, v)
    BY <1>1, <1>4 DEF bprm_creds_for_exec
  <2>2. v \in Level \cup {1}
    BY SMT DEF TypeOK, PartialFunctions
  <2>3. UNCHANGED <<category_flags_map, pending_network_connect,
                    trusted_ancestor_roots, tainted_process_map>>
    BY <1>4 DEF bprm_creds_for_exec
  <2> HIDE DEF v
  <2> QED
    BY <1>1, <2>1, <2>2, <2>3 DEF MapSteps, MapStep
<1>5. ASSUME socket_connect_inet(t) PROVE MapSteps
  <2>1. pending_network_connect' = update_elem(pending_network_connect, t, 1)
    BY <1>1, <1>5 DEF socket_connect_inet
  <2>2. UNCHANGED <<category_flags_map, trusted_ancestor_roots,
                    process_threshold_map, tainted_process_map>>
    BY <1>5 DEF socket_connect_inet
  <2> QED
    BY <1>1, <2>1, <2>2 DEF MapSteps, MapStep
<1> QED
  BY <1>2, <1>3, <1>4, <1>5 DEF LsmHook, file_open, file_open_device,
     file_open_denied, file_open_lookup, file_permission, socket_connect, socket_connect_unix,
     ptrace_access_check, file_mprotect, socket_listen

(* The host writes any map, for any task it has heard of. *)
LEMMA HostMapSteps == ASSUME Host PROVE MapSteps
<1>1. CASE UNCHANGED perProcess
  BY <1>1 DEF perProcess, MapSteps, MapStep
<1>2. ASSUME NEW k \in born, DeleteMapEntry(k) PROVE MapSteps
  BY <1>2 DEF DeleteMapEntry, MapSteps, MapStep
<1>3. ASSUME NEW k \in born, UpdateMapEntry(k) PROVE MapSteps
  <2>1. LsmMode \/ k \in tasks' \cup orphans'
    BY <1>3 DEF UpdateMapEntry, processes
  <2>2. ASSUME NEW m \in SUBSET Category, UpdateCategoryFlags(k, m) PROVE MapSteps
    BY <2>1, <2>2 DEF UpdateCategoryFlags, MapSteps, MapStep
  <2>3. ASSUME NEW v \in Level, UpdatePending(k, v) PROVE MapSteps
    BY <2>1, <2>3 DEF UpdatePending, MapSteps, MapStep
  <2>4. ASSUME NEW v \in Level, UpdateThreshold(k, v) PROVE MapSteps
    BY <2>1, <2>4 DEF UpdateThreshold, MapSteps, MapStep
  <2>5. ASSUME NEW v \in Level, UpdateTrusted(k, v) PROVE MapSteps
    BY <2>1, <2>5 DEF UpdateTrusted, MapSteps, MapStep
  <2>6. ASSUME NEW v \in Level, UpdateTainted(k, v) PROVE MapSteps
    BY <2>1, <2>6 DEF UpdateTainted, MapSteps, MapStep
  <2> QED
    BY <1>3, <2>2, <2>3, <2>4, <2>5, <2>6 DEF UpdateMapEntry
<1> QED
  BY <1>1, <1>2, <1>3 DEF Host, AddSensitiveInode, AddTrustedExecInode,
     SetConfigValue, HandleRingBufferEvent

(* Every step of the system treats every map in that way. *)
LEMMA NextMapSteps == ASSUME BirthInv, TypeOK, [Next]_vars PROVE MapSteps
<1>1. CASE UNCHANGED perProcess
  BY <1>1 DEF perProcess, MapSteps, MapStep
<1>2. ASSUME NEW t \in tasks, Tracepoint(t) PROVE MapSteps
  <2>1. get_current_process_key(t) = t /\ t \in born /\ t \in tasks'
    BY <1>2, KeyIdentifies DEF BirthInv, Tracepoint
  <2>2. CASE sys_enter_connect(t)
    BY <2>1, <2>2 DEF sys_enter_connect, MapSteps, MapStep
  <2> QED
    BY <1>1, <1>2, <2>2 DEF Tracepoint
<1>3. ASSUME NEW t \in tasks, Exit(t) PROVE MapSteps
  <2>1. get_current_process_key(t) = t /\ t \in born
    BY KeyIdentifies DEF BirthInv
  <2>2. CASE sched_process_exit(t)
    BY <2>1, <2>2 DEF sched_process_exit, MapSteps, MapStep
  <2> QED
    BY <1>1, <1>3, <2>2 DEF Exit
<1> QED
  BY <1>1, <1>2, <1>3, HookMapSteps, HostMapSteps
     DEF Next, StartTask, ExecFails, ExecSucceeds, vars
-----------------------------------------------------------------------------
(* The parts of TypeOK about the ring buffer, the flags, and the rest. *)
RingTypeOK == ring \in Seq([type : EventKind, pid : Pid]) /\ Len(ring) <= RingCap

RestTypeOK ==
    /\ sensitive_inodes_map \in PartialFunctions(Inode, Category)
    /\ trusted_exec_inodes \in PartialFunctions(Inode, Level)
    /\ config \in {0, 1}
    /\ updates \in 0..MaxUpdates
    /\ confined \subseteq Key /\ misfiled \subseteq Key
    /\ escaped \subseteq [task : Key, misfiled : BOOLEAN] /\ orphans \subseteq Key

FlagTypeOK ==
    /\ new_flags \in [DOMAIN new_flags -> SUBSET Category]
    /\ opened \subseteq Key \X Category /\ kept \subseteq opened

(* An event that does not fit is dropped. *)
LEMMA EmitTypeOK ==
    ASSUME RingTypeOK, NEW t \in Key, NEW type \in EventKind,
           Emit(type, get_current_process_key(t))
    PROVE  RingTypeOK'
<1> DEFINE e == [type |-> type, pid |-> t.pid]
<1>1. get_current_process_key(t) = t /\ t.pid \in Pid
  BY KeyIdentifies DEF Key
<1>2. e \in [type : EventKind, pid : Pid]
  BY <1>1
<1>3. ring' = IF Len(ring) < RingCap THEN Append(ring, e) ELSE ring
  BY <1>1 DEF Emit
<1>4. CASE Len(ring) < RingCap
  <2> DEFINE E == [type : EventKind, pid : Pid]
  <2>1. ring \in Seq(E) /\ e \in E /\ ring' = Append(ring, e)
    BY <1>2, <1>3, <1>4 DEF RingTypeOK
  <2> HIDE DEF e, E
  <2>2. ring' \in Seq(E) /\ Len(ring') = Len(ring) + 1 /\ Len(ring) \in Nat
    BY SMT, <2>1
  <2>3. Len(ring') <= RingCap
    BY SMT, <1>4, <2>2, HooksAssumption
  <2> QED
    BY <2>2, <2>3 DEF RingTypeOK, E
<1>5. CASE ~(Len(ring) < RingCap)
  BY <1>3, <1>5 DEF RingTypeOK
<1> QED
  BY <1>4, <1>5

(* Every program emits events of its own kind under its own key. *)
LEMMA NextRingTypeOK == ASSUME BirthInv, RingTypeOK, [Next]_vars PROVE RingTypeOK'
<1>1. CASE UNCHANGED ring
  BY <1>1 DEF RingTypeOK
<1>2. ASSUME NEW t \in tasks, NEW type \in EventKind,
             Emit(type, get_current_process_key(t))
      PROVE  RingTypeOK'
  BY <1>2, EmitTypeOK DEF BirthInv
<1>3. ASSUME NEW t \in tasks, LsmHook(t) PROVE RingTypeOK'
  <2>1. ASSUME NEW i \in Inode, file_open(t, i) PROVE RingTypeOK'
    BY <1>1, <1>2, <2>1 DEF file_open, file_open_device, file_open_denied,
                            file_open_lookup, EventKind
  <2>2. ASSUME NEW i \in Inode, bprm_creds_for_exec(t, i) PROVE RingTypeOK'
    BY <1>2, <2>2 DEF bprm_creds_for_exec, EventKind
  <2>3. ASSUME socket_connect(t) PROVE RingTypeOK'
    BY <1>2, <2>3 DEF socket_connect, socket_connect_unix, socket_connect_inet, EventKind
  <2>4. ASSUME NEW anonymous \in BOOLEAN, file_mprotect(t, anonymous) PROVE RingTypeOK'
    BY <1>2, <2>4 DEF file_mprotect, EventKind
  <2>5. ASSUME file_permission(t) \/ ptrace_access_check(t) \/ socket_listen(t)
        PROVE  RingTypeOK'
    BY <1>1, <1>2, <2>5 DEF file_permission, ptrace_access_check, socket_listen, EventKind
  <2>6. ASSUME file_open_update(t) PROVE RingTypeOK'
    BY <1>2, <2>6 DEF file_open_update, EventKind
  <2> QED
    BY <1>3, <2>1, <2>2, <2>3, <2>4, <2>5, <2>6 DEF LsmHook
<1>4. ASSUME NEW t \in tasks, Tracepoint(t) PROVE RingTypeOK'
  BY <1>2, <1>4 DEF Tracepoint, sys_enter_connect, sys_enter_execve, sys_enter_openat,
     sys_enter_mmap, sys_enter_mprotect, sys_enter_dup, sys_enter_listen, EventKind
<1>5. ASSUME NEW t \in tasks, Exit(t) PROVE RingTypeOK'
  BY <1>1, <1>2, <1>5 DEF Exit, sched_process_exit, EventKind
<1>6. ASSUME HandleRingBufferEvent PROVE RingTypeOK'
  BY SMT, <1>6, HooksAssumption DEF HandleRingBufferEvent, RingTypeOK
<1> QED
  BY <1>1, <1>3, <1>4, <1>5, <1>6 DEF Next, StartTask, ExecFails, ExecSucceeds, Host,
     DeleteMapEntry, UpdateMapEntry, AddSensitiveInode, AddTrustedExecInode, SetConfigValue, vars

(* What is written to the flags is a set of categories, and known to be    *)
(* opened.                                                                 *)
LEMMA NextFlagTypeOK ==
    ASSUME BirthInv, FlagInv, TypeOK, FlagTypeOK, FlagStep
    PROVE  FlagTypeOK'
<1>1. ASSUME NEW t \in tasks, NEW i \in Inode, file_open_lookup(t, i) PROVE FlagTypeOK'
  <2> DEFINE c == sensitive_inodes_map[i]
             flags == IF t \in DOMAIN category_flags_map THEN category_flags_map[t] ELSE {}
             m == flags \cup {c}
  <2>1. get_current_process_key(t) = t /\ t \in Key
    BY KeyIdentifies DEF BirthInv
  <2>2. /\ new_flags' = [u \in DOMAIN new_flags \cup {t} |->
                            IF u = t THEN m ELSE new_flags[u]]
        /\ opened' = opened \cup {<<t, c>>} /\ kept' = kept
    BY <1>1, <2>1 DEF file_open_lookup
  <2>3. c \in Category
    <3>1. sensitive_inodes_map \in PartialFunctions(Inode, Category)
      BY DEF TypeOK
    <3>2. i \in DOMAIN sensitive_inodes_map
      BY <1>1 DEF file_open_lookup
    <3>3. sensitive_inodes_map \in [DOMAIN sensitive_inodes_map -> Category]
      BY <3>1, PartialFunctionDef
    <3> QED
      BY <3>2, <3>3
  <2>4. m \in SUBSET Category
    BY <2>3 DEF TypeOK, MapTypeOK
  <2> HIDE DEF c, m
  <2>5. new_flags' \in [DOMAIN new_flags' -> SUBSET Category]
    BY <2>2, <2>4 DEF FlagTypeOK
  <2>6. <<t, c>> \in Key \X Category
    BY <2>1, <2>3
  <2> QED
    BY <2>2, <2>5, <2>6 DEF FlagTypeOK
<1>2. ASSUME NEW t \in tasks, file_open_update(t) PROVE FlagTypeOK'
  <2>1. /\ t \in DOMAIN new_flags /\ kept' = kept \cup ({t} \X new_flags[t])
        /\ new_flags' = [u \in DOMAIN new_flags \ {t} |-> new_flags[u]] /\ opened' = opened
    BY <1>2 DEF file_open_update, delete_elem
  <2>2. {t} \X new_flags[t] \subseteq opened
    <3>1. \A o \in {t} \X new_flags[t] : \E c \in new_flags[t] : o = <<t, c>>
      BY SMT
    <3> QED
      BY <2>1, <3>1 DEF FlagInv
  <2>3. new_flags' \in [DOMAIN new_flags' -> SUBSET Category]
    BY <2>1 DEF FlagTypeOK
  <2> QED
    BY <2>1, <2>2, <2>3 DEF FlagTypeOK
<1>3. ASSUME NEW t \in tasks, ExitFlags(t) PROVE FlagTypeOK'
  BY <1>3 DEF ExitFlags, FlagTypeOK
<1>4. ASSUME NEW k \in born, NEW m \in SUBSET Category, Attributed(k, m), UNCHANGED new_flags
      PROVE  FlagTypeOK'
  <2>1. {k} \X m \subseteq Key \X Category
    BY DEF BirthInv
  <2>2. \/ opened' = opened \cup ({k} \X m) /\ kept' = {o \in kept : o[1] # k}
        \/ /\ opened' = {o \in opened : o[1] # k} \cup ({k} \X m)
           /\ kept' = {o \in kept : o[1] # k} \cup ({k} \X m)
    BY <1>4 DEF Attributed
  <2>3. opened' \subseteq Key \X Category /\ kept' \subseteq opened'
    BY <2>1, <2>2 DEF FlagTypeOK
  <2> QED
    BY <1>4, <2>3 DEF FlagTypeOK
<1>5. ASSUME NEW k \in born, NEW m \in SUBSET Category, UpdateCategoryFlags(k, m)
      PROVE  FlagTypeOK'
  BY <1>4, <1>5 DEF UpdateCategoryFlags, FlagTypeOK
<1>6. ASSUME NEW k \in born, DeleteFlags(k) PROVE FlagTypeOK'
  BY <1>4, <1>6 DEF DeleteFlags
<1>7. CASE UNCHANGED <<category_flags_map, new_flags, opened, kept>>
  BY <1>7 DEF FlagTypeOK
<1> QED
  BY <1>1, <1>2, <1>3, <1>5, <1>6, <1>7 DEF FlagStep

(* The policy comes from the host, the histories name tasks. *)
LEMMA NextRestTypeOK == ASSUME BirthInv, RestTypeOK, [Next]_vars PROVE RestTypeOK'
<1>1. CASE UNCHANGED <<policy, updates, thresholds, history>>
  BY <1>1 DEF policy, thresholds, history, RestTypeOK
<1>2. ASSUME NEW t \in tasks, LsmHook(t) PROVE RestTypeOK'
  <2>1. UNCHANGED <<sensitive_inodes_map, trusted_exec_inodes, config, updates, orphans>>
    BY <1>2 DEF LsmHook, policy
  <2>2. t \in Key
    BY DEF BirthInv
  <2>3. escaped' = escaped \/ Permit(t)
    BY <1>2 DEF LsmHook, file_open, file_open_device, file_open_denied, file_open_lookup,
       file_open_update, bprm_creds_for_exec, file_permission, socket_connect,
       socket_connect_unix, socket_connect_inet, ptrace_access_check, file_mprotect,
       socket_listen
  <2>4. escaped' \subseteq [task : Key, misfiled : BOOLEAN]
    <3>1. [task |-> t, misfiled |-> t \in misfiled] \in [task : Key, misfiled : BOOLEAN]
      <4>1. (t \in misfiled) \in BOOLEAN
        BY SMT
      <4> QED
        BY <2>2, <4>1
    <3> QED
      BY <2>3, <3>1 DEF Permit, RestTypeOK
  <2>5. UNCHANGED thresholds \/ \E v : Given(t, v)
    BY <1>2 DEF LsmHook, file_open, file_open_device, file_open_denied, file_open_lookup,
       file_open_update, bprm_creds_for_exec, file_permission, socket_connect,
       socket_connect_unix, socket_connect_inet, ptrace_access_check, file_mprotect,
       socket_listen
  <2>6. confined' \subseteq Key /\ misfiled' \subseteq Key
    BY <2>2, <2>5 DEF Given, thresholds, RestTypeOK
  <2> QED
    BY <2>1, <2>2, <2>4, <2>6 DEF RestTypeOK
<1>3. ASSUME NEW t \in tasks, Tracepoint(t) PROVE RestTypeOK'
  BY <1>1, <1>3 DEF Tracepoint, sys_enter_connect, history
<1>4. ASSUME HostCall PROVE updates' \in 0..MaxUpdates
  BY SMT, <1>4, HooksAssumption DEF HostCall, RestTypeOK
<1>5. ASSUME NEW k \in born, UpdateMapEntry(k) PROVE RestTypeOK'
  <2>1. UNCHANGED <<sensitive_inodes_map, trusted_exec_inodes, config, escaped>>
    BY <1>5 DEF UpdateMapEntry, policy
  <2>2. k \in Key /\ orphans' \subseteq orphans \cup {k}
    BY <1>5 DEF UpdateMapEntry, BirthInv
  <2>3. UNCHANGED thresholds \/ \E v : Given(k, v)
    BY <1>5 DEF UpdateMapEntry, UpdateCategoryFlags, UpdatePending, UpdateThreshold,
                UpdateTrusted, UpdateTainted
  <2>4. confined' \subseteq Key /\ misfiled' \subseteq Key
    BY <2>2, <2>3 DEF Given, thresholds, RestTypeOK
  <2>5. updates' \in 0..MaxUpdates
    BY <1>4, <1>5 DEF UpdateMapEntry
  <2> QED
    BY <2>1, <2>2, <2>4, <2>5 DEF RestTypeOK
<1>6. ASSUME NEW k \in born, DeleteMapEntry(k) PROVE RestTypeOK'
  <2>1. UNCHANGED <<sensitive_inodes_map, trusted_exec_inodes, config, escaped, orphans>>
    BY <1>6 DEF DeleteMapEntry, policy, history
  <2>2. confined' \subseteq confined /\ misfiled' \subseteq misfiled
    BY <1>6 DEF DeleteMapEntry, thresholds
  <2>3. updates' \in 0..MaxUpdates
    BY <1>4, <1>6 DEF DeleteMapEntry
  <2> QED
    BY <2>1, <2>2, <2>3 DEF RestTypeOK
<1>7. ASSUME NEW T, NEW map \in PartialFunctions(Inode, T), NEW i \in Inode, NEW v \in T
      PROVE  InodeEntry(map, i, v) \in PartialFunctions(Inode, T)
  <2>1. PICK D \in SUBSET Inode : map \in [D -> T]
    BY DEF PartialFunctions
  <2>2. InodeEntry(map, i, v) \in [D \cup {i} -> T]
    BY <2>1 DEF InodeEntry
  <2> QED
    BY <2>1, <2>2 DEF PartialFunctions
<1>8. ASSUME NEW i \in Inode, NEW c \in Category, AddSensitiveInode(i, c)
      PROVE  RestTypeOK'
  BY <1>4, <1>7, <1>8 DEF AddSensitiveInode, RestTypeOK, thresholds, history
<1>9. ASSUME NEW i \in Inode, NEW v \in Level, AddTrustedExecInode(i, v)
      PROVE  RestTypeOK'
  BY <1>4, <1>7, <1>9 DEF AddTrustedExecInode, RestTypeOK, thresholds, history
<1>10. ASSUME NEW v \in {0, 1}, SetConfigValue(v) PROVE RestTypeOK'
  BY <1>4, <1>10 DEF SetConfigValue, RestTypeOK, thresholds, history
<1>11. ASSUME NEW t \in tasks, Exit(t) PROVE RestTypeOK'
  <2>1. UNCHANGED <<policy, updates, history>>
    BY <1>11 DEF Exit
  <2>2. confined' \subseteq confined /\ misfiled' \subseteq misfiled
    BY <1>11 DEF Exit, thresholds
  <2> QED
    BY <2>1, <2>2 DEF policy, history, RestTypeOK
<1>12. ASSUME NEW t \in tasks, ExecSucceeds(t) PROVE RestTypeOK'
  <2>1. PICK first \in born :
           /\ confined' \subseteq confined \cup {first}
           /\ misfiled' \subseteq misfiled \cup {first}
           /\ orphans' \subseteq orphans \cup {t}
    BY <1>12 DEF ExecSucceeds, BirthInv
  <2>2. first \in Key /\ t \in Key
    BY DEF BirthInv
  <2>3. UNCHANGED <<policy, updates, escaped>>
    BY <1>12 DEF ExecSucceeds
  <2> QED
    BY <2>1, <2>2, <2>3 DEF policy, RestTypeOK
<1> QED
  BY <1>1, <1>2, <1>3, <1>5, <1>6, <1>8, <1>9, <1>10, <1>11, <1>12
     DEF Next, StartTask, ExecFails, Host, HandleRingBufferEvent, vars

(* The maps start empty. *)
LEMMA InitTypeOK == ASSUME Init PROVE BirthInv /\ FlagInv /\ DomainInv /\ TypeOK
<1>1. BirthInv /\ FlagInv
  BY InitInv
<1>2. /\ Empty \in [{} -> Category] /\ Empty \in [{} -> Level]
      /\ DOMAIN Empty = {} /\ Cardinality(DOMAIN Empty) = 0
  BY FS_EmptySet DEF Empty
<1>3. \A T : MapTypeOK(Empty, T)
  BY SMT, <1>2, HooksAssumption DEF MapTypeOK
<1>4. DomainInv
  BY <1>2 DEF Init, DomainInv
<1>5. RingTypeOK
  BY SMT, HooksAssumption DEF Init, RingTypeOK
<1>6. RestTypeOK
  <2>1. /\ Empty \in PartialFunctions(Inode, Category)
        /\ Empty \in PartialFunctions(Inode, Level)
    BY <1>2 DEF PartialFunctions
  <2> QED
    BY SMT, <2>1, HooksAssumption DEF Init, RestTypeOK
<1>7. new_flags \in PartialFunctions(tasks, SUBSET Category)
  <2>1. Empty \in [{} -> SUBSET Category]
    BY DEF Empty
  <2> QED
    BY <2>1 DEF Init, PartialFunctions
<1> QED
  BY <1>1, <1>3, <1>4, <1>5, <1>6, <1>7
     DEF Init, BirthInv, RingTypeOK, RestTypeOK, TypeOK

(* Every step keeps every map to its keys, its values and its size. *)
LEMMA NextTypeOK ==
    ASSUME BirthInv, FlagInv, DomainInv, TypeOK, [Next]_vars
    PROVE  BirthInv' /\ FlagInv' /\ DomainInv' /\ TypeOK'
<1>1. BirthInv' /\ FlagInv'
  BY NextBirthInv, NextFlagSteps, NextFlagInv
<1>2. born \subseteq born'
  BY NextBorn
<1>3. MapSteps
  BY NextMapSteps
<1>4. /\ DOMAIN category_flags_map' \subseteq born
      /\ MapTypeOK(category_flags_map', SUBSET Category)
  BY <1>3, MapStepTypeOK DEF MapSteps, DomainInv, TypeOK
<1>5. /\ DOMAIN pending_network_connect' \subseteq born
      /\ MapTypeOK(pending_network_connect', Level \cup {1})
  <2>1. MapStep(pending_network_connect, pending_network_connect', Level \cup {1})
    BY <1>3 DEF MapSteps
  <2>2. /\ DOMAIN pending_network_connect \subseteq born
        /\ MapTypeOK(pending_network_connect, Level \cup {1})
    BY DEF DomainInv, TypeOK
  <2> QED
    BY <2>1, <2>2, MapStepTypeOK
<1>6. /\ DOMAIN trusted_ancestor_roots' \subseteq born
      /\ MapTypeOK(trusted_ancestor_roots', Level)
  BY <1>3, MapStepTypeOK DEF MapSteps, DomainInv, TypeOK
<1>7. /\ DOMAIN process_threshold_map' \subseteq born
      /\ MapTypeOK(process_threshold_map', Level \cup {1})
  BY <1>3, MapStepTypeOK DEF MapSteps, DomainInv, TypeOK
<1>8. /\ DOMAIN tainted_process_map' \subseteq born
      /\ MapTypeOK(tainted_process_map', Level)
  BY <1>3, MapStepTypeOK DEF MapSteps, DomainInv, TypeOK
<1>9. DomainInv'
  BY <1>2, <1>4, <1>5, <1>6, <1>7, <1>8 DEF DomainInv
<1>10. RingTypeOK' /\ RestTypeOK'
  BY NextRingTypeOK, NextRestTypeOK DEF TypeOK, RingTypeOK, RestTypeOK
<1>11. FlagTypeOK'
  <2>1. new_flags \in PartialFunctions(tasks, SUBSET Category)
    BY DEF TypeOK
  <2>2. FlagTypeOK
    BY <2>1, PartialFunctionDef DEF TypeOK, FlagTypeOK
  <2> QED
    BY <2>2, NextFlagSteps, NextFlagTypeOK
<1>12. (new_flags \in PartialFunctions(tasks, SUBSET Category))'
  BY <1>1, <1>11, PartialFunctionDef DEF BirthInv, FlagTypeOK
<1>13. TypeOK'
  BY <1>1, <1>4, <1>5, <1>6, <1>7, <1>8, <1>10, <1>11, <1>12
     DEF BirthInv, TypeOK, MapTypeOK, RingTypeOK, RestTypeOK, FlagTypeOK
<1> QED
  BY <1>1, <1>9, <1>13

(* No map keyed by process outgrows its max_entries and the ring buffer    *)
(* never holds more than it has room for, although no program checks the   *)
(* result of bpf_map_update_elem; keys and values are of their types.      *)
THEOREM TypeCorrect == Spec => []TypeOK
<1> DEFINE I == BirthInv /\ FlagInv /\ DomainInv /\ TypeOK
<1>1. Init => I
  BY InitTypeOK
<1>2. I /\ [Next]_vars => I'
  BY NextTypeOK
<1>3. I => TypeOK
  OBVIOUS
<1> QED
  BY <1>1, <1>2, <1>3, PTL DEF Spec
-----------------------------------------------------------------------------
(* A map that only held entries of live tasks and of orphans still does. *)
LEMMA MapStepCleans ==
    ASSUME ~LsmMode, NEW map, NEW next, NEW T, MapStep(map, next, T),
           DOMAIN map \subseteq tasks \cup orphans,
           tasks \cup orphans \subseteq tasks' \cup orphans'
    PROVE  DOMAIN next \subseteq tasks' \cup orphans'
<1>1. CASE next = map
  BY <1>1
<1>2. ASSUME NEW k \in born, next = delete_elem(map, k)
      PROVE  DOMAIN next \subseteq tasks' \cup orphans'
  BY <1>2 DEF delete_elem
<1>3. ASSUME NEW k \in born, NEW v \in T, next = update_elem(map, k, v),
             k \in tasks' \cup orphans'
      PROVE  DOMAIN next \subseteq tasks' \cup orphans'
  <2>1. DOMAIN next \subseteq DOMAIN map \cup {k}
    BY <1>3 DEF update_elem
  <2> QED
    BY <1>3, <2>1
<1> QED
  BY <1>1, <1>2, <1>3 DEF MapStep

(* An exit deletes the task from every map at once; no other step ends     *)
(* one, and an execve(2) that changes the key of a task names the old one. *)
LEMMA NextCleans ==
    ASSUME ~LsmMode, BirthInv, TypeOK, ExitCleansUp, [Next]_vars
    PROVE  ExitCleansUp'
<1>1. /\ DOMAIN category_flags_map \subseteq tasks \cup orphans
      /\ DOMAIN pending_network_connect \subseteq tasks \cup orphans
      /\ DOMAIN trusted_ancestor_roots \subseteq tasks \cup orphans
      /\ DOMAIN process_threshold_map \subseteq tasks \cup orphans
      /\ DOMAIN tainted_process_map \subseteq tasks \cup orphans
  BY DEF ExitCleansUp
<1>2. ASSUME NEW t \in tasks, Exit(t) PROVE ExitCleansUp'
  <2>1. get_current_process_key(t) = t
    BY KeyIdentifies DEF BirthInv
  <2>2. tasks' = tasks \ {t} /\ orphans' = orphans
    BY <1>2 DEF Exit, history
  <2>3. /\ DOMAIN category_flags_map' = DOMAIN category_flags_map \ {t}
        /\ DOMAIN pending_network_connect' = DOMAIN pending_network_connect \ {t}
        /\ DOMAIN trusted_ancestor_roots' = DOMAIN trusted_ancestor_roots \ {t}
        /\ DOMAIN process_threshold_map' = DOMAIN process_threshold_map \ {t}
        /\ DOMAIN tainted_process_map' = DOMAIN tainted_process_map \ {t}
    BY <1>2, <2>1 DEF Exit, sched_process_exit, delete_elem
  <2> QED
    BY <1>1, <2>2, <2>3 DEF ExitCleansUp
<1>3. ASSUME tasks \cup orphans \subseteq tasks' \cup orphans' PROVE ExitCleansUp'
  <2>1. MapSteps
    BY NextMapSteps
  <2>2. DOMAIN category_flags_map' \subseteq tasks' \cup orphans'
    BY <1>1, <1>3, <2>1, MapStepCleans DEF MapSteps
  <2>3. DOMAIN pending_network_connect' \subseteq tasks' \cup orphans'
    BY <1>1, <1>3, <2>1, MapStepCleans DEF MapSteps
  <2>4. DOMAIN trusted_ancestor_roots' \subseteq tasks' \cup orphans'
    BY <1>1, <1>3, <2>1, MapStepCleans DEF MapSteps
  <2>5. DOMAIN process_threshold_map' \subseteq tasks' \cup orphans'
    BY <1>1, <1>3, <2>1, MapStepCleans DEF MapSteps
  <2>6. DOMAIN tainted_process_map' \subseteq tasks' \cup orphans'
    BY <1>1, <1>3, <2>1, MapStepCleans DEF MapSteps
  <2> QED
    BY <2>2, <2>3, <2>4, <2>5, <2>6 DEF ExitCleansUp
<1>4. (\E t \in tasks : Exit(t)) \/ tasks \cup orphans \subseteq tasks' \cup orphans'
  BY DEF Next, LsmHook, Tracepoint, ExecFails, ExecSucceeds, StartTask, Host,
     DeleteMapEntry, UpdateMapEntry, AddSensitiveInode, AddTrustedExecInode,
     SetConfigValue, HandleRingBufferEvent, processes, history, vars
<1> QED
  BY <1>2, <1>3, <1>4

(* In fallback mode, where sched_process_exit is attached, no map keeps an *)
(* entry of a task that has exited, except what the host wrote after that, *)
(* and what was written for a thread before it took over another key by    *)
(* execve(2).                                                              *)
THEOREM ExitAlwaysCleansUp ==
    ASSUME ~LsmMode
    PROVE  Spec => []ExitCleansUp
<1>1. Init => ExitCleansUp
  BY DEF Init, ExitCleansUp, Empty
<1>2. BirthInv /\ TypeOK /\ ExitCleansUp /\ [Next]_vars => ExitCleansUp'
  BY NextCleans
<1>3. Spec => []TypeOK
  BY TypeCorrect
<1>4. Init => BirthInv
  BY InitInv
<1>5. BirthInv /\ [Next]_vars => BirthInv'
  BY NextBirthInv
<1> QED
  BY <1>1, <1>2, <1>3, <1>4, <1>5, PTL DEF Spec
=============================================================================

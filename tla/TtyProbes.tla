----------------------------- MODULE TtyProbes -----------------------------
(***************************************************************************)
(* The probes on tty_write and tty_read (kinnector.bpf.c) and the order in *)
(* which EbpfLoader attaches and detaches them.  A read is reported when   *)
(* it returns, with the buffer its entry left in pending_tty_reads under   *)
(* the id of the thread.                                                   *)
(*                                                                         *)
(* External: a return probe fires only for calls entered while it was      *)
(* attached, and misses some when too many calls are in progress.  Thread  *)
(* ids are reused.  An entry or return probe is one step: it touches only  *)
(* the entry of its own thread.                                            *)
(***************************************************************************)
EXTENDS Naturals, Sequences, FiniteSets

CONSTANTS
    Tid,        \* thread ids
    MapCap,     \* max_entries of pending_tty_reads
    RingCap,    \* events tty_ringbuf can hold
    MaxReads,   \* bound: calls of tty_read altogether
    MaxWrites   \* bound: calls of tty_write on a pty

VARIABLES
    attached,           \* the probes that are attached
    loader,             \* step of Start or Stop
    reading,            \* threads: the call of tty_read they are in, or 0
    pty,                \* calls on a slave of a pty
    tracked,            \* calls whose return will be seen
    pending_tty_reads,  \* thread -> call whose buffer is remembered
    tty_ringbuf,
    reads, writes,      \* calls so far
    reported,           \* history: pairs <<n, m>>, the return of n reported m
    missed              \* history: calls whose return is not seen

calls == <<reading, pty, tracked, reads>>
vars == <<attached, loader, calls, pending_tty_reads, tty_ringbuf, writes, reported, missed>>

ASSUME ProbesAssumption ==
    MapCap \in Nat /\ RingCap \in Nat /\ MaxReads \in Nat /\ MaxWrites \in Nat

Read == 1..MaxReads

ProbesTypeOK ==
    /\ attached \subseteq {"tty_write", "tty_read", "ret"}
    /\ loader \in {"write", "read", "ret", "started", "stopRead", "stopRet", "stopped"}
    /\ reading \in [Tid -> 0..MaxReads] /\ reads \in 0..MaxReads /\ writes \in 0..MaxWrites
    /\ pty \subseteq Read /\ tracked \subseteq Read /\ missed \subseteq Read
    /\ DOMAIN pending_tty_reads \subseteq Tid /\ Cardinality(DOMAIN pending_tty_reads) <= MapCap
    /\ \A t \in DOMAIN pending_tty_reads : pending_tty_reads[t] \in pty
    /\ tty_ringbuf \in Seq({0} \cup Read) /\ Len(tty_ringbuf) <= RingCap
    /\ reported \subseteq Read \X Read

Init ==
    /\ attached = {} /\ loader = "write"
    /\ reading = [t \in Tid |-> 0] /\ pty = {} /\ tracked = {} /\ reads = 0 /\ writes = 0
    /\ pending_tty_reads = [t \in {} |-> 0] /\ tty_ringbuf = <<>>
    /\ reported = {} /\ missed = {}
-----------------------------------------------------------------------------
(* EbpfLoader::Start attaches one probe after the other; a probe that does *)
(* not attach is left out.                                                 *)
Attach(step, probe, next) ==
    /\ loader = step /\ loader' = next
    /\ attached' \in {attached, attached \cup {probe}}
    /\ UNCHANGED <<calls, pending_tty_reads, tty_ringbuf, writes, reported, missed>>

Start == \/ Attach("write", "tty_write", "read")
         \/ Attach("read", "tty_read", "ret")
         \/ Attach("ret", "ret", "started")

(* EbpfLoader::Stop: no return is seen once the last link is gone. *)
Detach(step, probe, next) ==
    /\ loader = step /\ loader' = next
    /\ attached' = attached \ {probe}
    /\ IF probe = "ret"
       THEN /\ tracked' = {}
            /\ missed' = missed \cup {reading[t] : t \in {u \in DOMAIN pending_tty_reads :
                                         reading[u] = pending_tty_reads[u]}}
       ELSE UNCHANGED <<tracked, missed>>
    /\ UNCHANGED <<reading, pty, reads, pending_tty_reads, tty_ringbuf, writes, reported>>

Stop == \/ Detach("started", "tty_write", "stopRead")
        \/ Detach("stopRead", "tty_read", "stopRet")
        \/ Detach("stopRet", "ret", "stopped")
-----------------------------------------------------------------------------
(* Reserve, fill, submit: 0 is a write. *)
Emit(item) ==
    tty_ringbuf' = IF Len(tty_ringbuf) < RingCap THEN Append(tty_ringbuf, item)
                                                 ELSE tty_ringbuf

kprobe_tty_write ==
    /\ "tty_write" \in attached /\ writes < MaxWrites /\ writes' = writes + 1
    /\ Emit(0)
    /\ UNCHANGED <<attached, loader, calls, pending_tty_reads, reported, missed>>

(* bpf_map_update_elem, whose result is ignored. *)
RecordRead(t, n) ==
    IF t \in DOMAIN pending_tty_reads \/ Cardinality(DOMAIN pending_tty_reads) < MapCap
    THEN [u \in DOMAIN pending_tty_reads \cup {t} |-> IF u = t THEN n ELSE pending_tty_reads[u]]
    ELSE pending_tty_reads

(* A thread enters tty_read, on a pty or on another terminal. *)
kprobe_tty_read(t, onPty) ==
    /\ reading[t] = 0 /\ reads < MaxReads /\ reads' = reads + 1
    /\ reading' = [reading EXCEPT ![t] = reads + 1]
    /\ pty' = IF onPty THEN pty \cup {reads + 1} ELSE pty
    /\ tracked' \in {tracked} \cup
                    (IF "ret" \in attached THEN {tracked \cup {reads + 1}} ELSE {})
    /\ pending_tty_reads' = IF onPty /\ "tty_read" \in attached
                            THEN RecordRead(t, reads + 1) ELSE pending_tty_reads
    /\ missed' = IF tracked' = tracked THEN missed \cup {reads + 1} ELSE missed
    /\ UNCHANGED <<attached, loader, tty_ringbuf, writes, reported>>

(* Fault: a read that returns nothing keeps its entry. *)
ReturnKeepsEntry(t, ret) ==
    /\ reading[t] \in tracked /\ reading' = [reading EXCEPT ![t] = 0]
    /\ IF t \notin DOMAIN pending_tty_reads \/ ret <= 0
       THEN UNCHANGED <<pending_tty_reads, tty_ringbuf, reported>>
       ELSE LET req == pending_tty_reads[t] IN
            /\ pending_tty_reads' =
                  [u \in DOMAIN pending_tty_reads \ {t} |-> pending_tty_reads[u]]
            /\ Emit(req) /\ reported' = reported \cup {<<reading[t], req>>}
    /\ UNCHANGED <<attached, loader, pty, tracked, reads, writes, missed>>

(* Fault: the entry is left for the next read to overwrite. *)
ReturnKeepsBuffer(t, ret) ==
    /\ reading[t] \in tracked /\ reading' = [reading EXCEPT ![t] = 0]
    /\ IF t \notin DOMAIN pending_tty_reads \/ ret <= 0
       THEN UNCHANGED <<tty_ringbuf, reported>>
       ELSE LET req == pending_tty_reads[t] IN
            Emit(req) /\ reported' = reported \cup {<<reading[t], req>>}
    /\ UNCHANGED <<attached, loader, pty, tracked, reads, pending_tty_reads, writes, missed>>

(* The entry is taken out whatever the read returned. *)
kretprobe_tty_read(t, ret) ==
    /\ reading[t] \in tracked /\ reading' = [reading EXCEPT ![t] = 0]
    /\ IF t \notin DOMAIN pending_tty_reads
       THEN UNCHANGED <<pending_tty_reads, tty_ringbuf, reported>>
       ELSE LET req == pending_tty_reads[t] IN
            /\ pending_tty_reads' =
                  [u \in DOMAIN pending_tty_reads \ {t} |-> pending_tty_reads[u]]
            /\ IF ret <= 0
               THEN UNCHANGED <<tty_ringbuf, reported>>
               ELSE Emit(req) /\ reported' = reported \cup {<<reading[t], req>>}
    /\ UNCHANGED <<attached, loader, pty, tracked, reads, writes, missed>>

(* A read returns without the probe. *)
ReturnUnseen(t) ==
    /\ reading[t] \in Read \ tracked /\ reading' = [reading EXCEPT ![t] = 0]
    /\ UNCHANGED <<attached, loader, pty, tracked, reads, pending_tty_reads, tty_ringbuf,
                   writes, reported, missed>>

HandleTtyRingBufferEvent ==
    /\ loader = "started" /\ tty_ringbuf # <<>> /\ tty_ringbuf' = Tail(tty_ringbuf)
    /\ UNCHANGED <<attached, loader, calls, pending_tty_reads, writes, reported, missed>>

Next == \/ Start \/ Stop \/ kprobe_tty_write \/ HandleTtyRingBufferEvent
        \/ \E t \in Tid, onPty \in BOOLEAN : kprobe_tty_read(t, onPty)
        \/ \E t \in Tid, ret \in {0, 1} : kretprobe_tty_read(t, ret)
        \/ \E t \in Tid : ReturnUnseen(t)

Spec == Init /\ [][Next]_vars
-----------------------------------------------------------------------------
(* A reported buffer is the one of the very read that returned.  Only a    *)
(* pty read whose return was missed (it began before the return probe was  *)
(* attached, after the kprobe, or the kernel had no room for it) can be    *)
(* reported by a later read under the same thread id.                      *)
ReadsPaired == \A r \in reported : r[1] = r[2] \/ r[2] \in missed

(* And no buffer is reported twice, missed return or not: the entry goes   *)
(* before the event is emitted, and an entry is not written again.         *)
ReportedOnce == \A r, s \in reported : r[2] = s[2] => r = s

(* An entry of pending_tty_reads that no read in progress will take out    *)
(* stems from a missed return: without those the map is as large as the    *)
(* number of threads that read.                                            *)
PendingHasReader ==
    \A t \in DOMAIN pending_tty_reads :
       \/ reading[t] = pending_tty_reads[t]
       \/ pending_tty_reads[t] \in missed
=============================================================================

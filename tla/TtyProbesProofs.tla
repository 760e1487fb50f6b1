-------------------------- MODULE TtyProbesProofs --------------------------
(***************************************************************************)
(* Proofs about the tty probes for any number of threads, reads and writes *)
(* and any capacity of the map and the ring buffer: ReadsPaired,           *)
(* ReportedOnce and PendingHasReader are invariants.                       *)
(***************************************************************************)
EXTENDS TtyProbes, TLAPS

(* Reads are numbered in the order of their calls. *)
NumberInv ==
    /\ reads \in Nat
    /\ reading \in [Tid -> Nat]
    /\ DOMAIN pending_tty_reads \subseteq Tid
    /\ \A t \in DOMAIN pending_tty_reads : pending_tty_reads[t] \in 1..reads
    /\ \A r \in reported : r \in Nat \X Nat /\ r[2] <= reads

(* A read whose buffer is remembered will be seen to return, or counts as  *)
(* missed.  Without this a return that no probe sees would leave an entry  *)
(* nobody accounts for.                                                    *)
TrackInv ==
    \A t \in DOMAIN pending_tty_reads : pending_tty_reads[t] \in tracked \cup missed

(* A buffer is under one thread id only, and no longer there when it has   *)
(* been reported.                                                          *)
UniqueInv ==
    /\ \A t, u \in DOMAIN pending_tty_reads :
          pending_tty_reads[t] = pending_tty_reads[u] => t = u
    /\ \A r \in reported : \A t \in DOMAIN pending_tty_reads :
          r[2] # pending_tty_reads[t]

(* The inductive invariant. *)
IInv == /\ NumberInv /\ TrackInv /\ UniqueInv
        /\ PendingHasReader /\ ReadsPaired /\ ReportedOnce

(* No read has begun and nothing is remembered or reported. *)
LEMMA InitIInv == Init => IInv
  BY DEF Init, IInv, NumberInv, TrackInv, UniqueInv, PendingHasReader, ReadsPaired,
     ReportedOnce

(* What bpf_map_update_elem leaves in the map: the old entries, and the new *)
(* one unless the map is full.                                              *)
LEMMA RecordReadMap ==
    ASSUME NEW t, NEW n
    PROVE  LET map == RecordRead(t, n) IN
           /\ DOMAIN map \subseteq DOMAIN pending_tty_reads \cup {t}
           /\ \A u \in DOMAIN map : u # t => /\ u \in DOMAIN pending_tty_reads
                                             /\ map[u] = pending_tty_reads[u]
           /\ t \in DOMAIN map => map[t] = n
  BY DEF RecordRead

(* A read that begins. *)
LEMMA EnterIInv ==
    ASSUME IInv, NEW t \in Tid, NEW onPty \in BOOLEAN, kprobe_tty_read(t, onPty)
    PROVE  IInv'
<1> USE DEF IInv, NumberInv
<1> DEFINE n == reads + 1
<1>1. /\ reading[t] = 0 /\ reads' = n
      /\ reading' = [reading EXCEPT ![t] = n]
      /\ tracked \subseteq tracked' /\ missed \subseteq missed'
      /\ n \in tracked' \cup missed'
      /\ UNCHANGED reported
  BY DEF kprobe_tty_read
<1>2. n \in Nat /\ reads < n /\ reading'[t] = n
      /\ \A u \in Tid : u # t => reading'[u] = reading[u]
  BY <1>1
<1>3. CASE UNCHANGED pending_tty_reads
  <2>1. \A u \in DOMAIN pending_tty_reads : pending_tty_reads[u] # n
    BY <1>2
  <2>2. \A u \in DOMAIN pending_tty_reads :
           u = t => pending_tty_reads[u] \in missed
    BY <1>1 DEF PendingHasReader
  <2>3. PendingHasReader'
    BY <1>1, <1>2, <1>3, <2>2 DEF PendingHasReader
  <2>4. NumberInv' /\ TrackInv' /\ UniqueInv'
    BY <1>1, <1>2, <1>3 DEF TrackInv, UniqueInv
  <2>5. ReadsPaired' /\ ReportedOnce'
    BY <1>1 DEF ReadsPaired, ReportedOnce
  <2> QED
    BY <2>3, <2>4, <2>5
<1>4. CASE pending_tty_reads' = RecordRead(t, n)
  <2>1. /\ DOMAIN pending_tty_reads' \subseteq DOMAIN pending_tty_reads \cup {t}
        /\ \A u \in DOMAIN pending_tty_reads' :
              u # t => /\ u \in DOMAIN pending_tty_reads
                       /\ pending_tty_reads'[u] = pending_tty_reads[u]
        /\ t \in DOMAIN pending_tty_reads' => pending_tty_reads'[t] = n
    BY <1>4, RecordReadMap
  <2> HIDE DEF n
  <2>2. NumberInv' /\ TrackInv'
    BY <1>1, <1>2, <2>1 DEF TrackInv
  <2>3. PendingHasReader'
    BY <1>1, <1>2, <2>1 DEF PendingHasReader
  <2>4. UniqueInv'
    BY <1>1, <1>2, <2>1 DEF UniqueInv
  <2>5. ReadsPaired' /\ ReportedOnce'
    BY <1>1 DEF ReadsPaired, ReportedOnce
  <2> QED
    BY <2>2, <2>3, <2>4, <2>5
<1> QED
  BY <1>3, <1>4 DEF kprobe_tty_read

(* A read whose return the probe sees: its entry goes, and what it reports *)
(* is its own buffer or that of a missed read.                             *)
LEMMA ReturnIInv ==
    ASSUME IInv, NEW t \in Tid, NEW ret \in {0, 1}, kretprobe_tty_read(t, ret)
    PROVE  IInv'
<1> USE DEF IInv, NumberInv
<1>1. /\ reading' = [reading EXCEPT ![t] = 0]
      /\ UNCHANGED <<tracked, reads, missed>>
  BY DEF kretprobe_tty_read
<1>2. CASE t \notin DOMAIN pending_tty_reads
  BY <1>1, <1>2 DEF kretprobe_tty_read, TrackInv, UniqueInv, PendingHasReader,
     ReadsPaired, ReportedOnce
<1>3. CASE t \in DOMAIN pending_tty_reads
  <2> DEFINE req == pending_tty_reads[t]
  <2>1. /\ pending_tty_reads' =
              [u \in DOMAIN pending_tty_reads \ {t} |-> pending_tty_reads[u]]
        /\ UNCHANGED reported \/ reported' = reported \cup {<<reading[t], req>>}
    BY <1>3 DEF kretprobe_tty_read
  <2>2. /\ DOMAIN pending_tty_reads' = DOMAIN pending_tty_reads \ {t}
        /\ \A u \in DOMAIN pending_tty_reads' :
              pending_tty_reads'[u] = pending_tty_reads[u]
    BY <2>1
  <2>3. /\ req \in 1..reads /\ (reading[t] = req \/ req \in missed)
        /\ \A u \in DOMAIN pending_tty_reads' : pending_tty_reads[u] # req
        /\ \A r \in reported : r[2] # req
    BY <1>3, <2>2 DEF PendingHasReader, UniqueInv
  <2> HIDE DEF req
  <2>4. PendingHasReader' /\ TrackInv'
    BY <1>1, <2>2 DEF PendingHasReader, TrackInv
  <2>5. NumberInv' /\ UniqueInv'
    BY <1>1, <2>1, <2>2, <2>3 DEF UniqueInv
  <2>6. ReadsPaired'
    BY <1>1, <2>1, <2>3 DEF ReadsPaired
  <2>7. ReportedOnce'
    <3>1. SUFFICES ASSUME NEW r \in reported', NEW s \in reported', r[2] = s[2]
                   PROVE  r = s
      BY DEF ReportedOnce
    <3>2. \A x \in reported' : x \in reported \/ x = <<reading[t], req>>
      BY <2>1
    <3>7. \A x : x = <<reading[t], req>> => x[2] = req
      OBVIOUS
    <3>3. CASE r \in reported /\ s \in reported
      BY <3>1, <3>3 DEF ReportedOnce
    <3>4. CASE r \notin reported \/ s \notin reported
      <4>1. r[2] = req /\ s[2] = req
        BY <3>1, <3>2, <3>4, <3>7
      <4>2. r \notin reported /\ s \notin reported
        BY <4>1, <2>3
      <4> QED
        BY <3>1, <3>2, <4>2
    <3> QED
      BY <3>3, <3>4
  <2> QED
    BY <2>4, <2>5, <2>6, <2>7
<1> QED
  BY <1>2, <1>3

(* A return that no probe sees leaves the entry of a missed read. *)
LEMMA UnseenIInv ==
    ASSUME IInv, NEW t \in Tid, ReturnUnseen(t)
    PROVE  IInv'
<1> USE DEF IInv, NumberInv
<1>1. /\ reading[t] \notin tracked /\ reading' = [reading EXCEPT ![t] = 0]
      /\ UNCHANGED <<tracked, missed, pending_tty_reads, reported, reads>>
  BY DEF ReturnUnseen
<1>2. PendingHasReader'
  BY <1>1 DEF PendingHasReader, TrackInv
<1> QED
  BY <1>1, <1>2 DEF TrackInv, UniqueInv, ReadsPaired, ReportedOnce

(* Stop: once the return probe is gone, the reads it would have seen count *)
(* as missed.                                                              *)
LEMMA DetachIInv == ASSUME IInv, Stop PROVE IInv'
<1> USE DEF IInv, NumberInv
<1>1. /\ UNCHANGED <<reading, pending_tty_reads, reported, reads>>
      /\ missed \subseteq missed'
      /\ \A t \in DOMAIN pending_tty_reads : pending_tty_reads[t] \in tracked' \cup missed'
  <2>1. ASSUME NEW step, NEW probe, NEW next, Detach(step, probe, next)
        PROVE  <1>1!:
    BY <2>1 DEF Detach, TrackInv, PendingHasReader
  <2> QED
    BY <2>1 DEF Stop
<1> QED
  BY <1>1 DEF TrackInv, UniqueInv, PendingHasReader, ReadsPaired, ReportedOnce

(* Every step of the threads, the probes and the loader preserves IInv. *)
LEMMA NextIInv == IInv /\ [Next]_vars => IInv'
<1> SUFFICES ASSUME IInv, [Next]_vars PROVE IInv'
  OBVIOUS
<1>1. CASE UNCHANGED <<reading, tracked, missed, pending_tty_reads, reported, reads>>
  BY <1>1 DEF IInv, NumberInv, TrackInv, UniqueInv, PendingHasReader, ReadsPaired,
     ReportedOnce
<1>2. CASE Start \/ kprobe_tty_write \/ HandleTtyRingBufferEvent \/ UNCHANGED vars
  BY <1>1, <1>2 DEF Start, Attach, kprobe_tty_write, HandleTtyRingBufferEvent, vars, calls
<1> QED
  BY <1>2, DetachIInv, EnterIInv, ReturnIInv, UnseenIInv DEF Next
-----------------------------------------------------------------------------
(* A buffer reported at the return of tty_read is that of the read that    *)
(* returns, or of one whose return was missed, however the probes are      *)
(* attached and detached and thread ids are reused.                        *)
THEOREM ReadsAlwaysPaired == Spec => []ReadsPaired
<1>1. IInv => ReadsPaired
  BY DEF IInv
<1> QED
  BY <1>1, InitIInv, NextIInv, PTL DEF Spec

(* No buffer is reported twice: kretprobe_tty_read takes the entry out     *)
(* before it reports it, and no read is entered twice.                     *)
THEOREM ReportedAtMostOnce == Spec => []ReportedOnce
<1>1. IInv => ReportedOnce
  BY DEF IInv
<1> QED
  BY <1>1, InitIInv, NextIInv, PTL DEF Spec

(* Only missed returns leave entries in pending_tty_reads behind. *)
THEOREM PendingAlwaysHasReader == Spec => []PendingHasReader
<1>1. IInv => PendingHasReader
  BY DEF IInv
<1> QED
  BY <1>1, InitIInv, NextIInv, PTL DEF Spec
=============================================================================

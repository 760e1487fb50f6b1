-------------------------- MODULE HookStepsProofs --------------------------
(***************************************************************************)
(* The ring buffer and file_open step by step, for any number of tasks,    *)
(* CPUs, calls and records.                                                *)
(*                                                                         *)
(* The ring: a record that has been reserved and not yet submitted is busy *)
(* and has one owner; so nobody writes a record that is complete, and what *)
(* is known of a position of the buffer stays true of it when the consumer *)
(* takes it out.  Rec(p) is the event at position p, wherever it is.       *)
(*                                                                         *)
(* The numbers: a CPU without preemption runs one call at a time, so that  *)
(* its counter says how many of its events are numbered, and the next one  *)
(* is behind them all.                                                     *)
(*                                                                         *)
(* The answer: as long as the host has made at most one update during a    *)
(* call, the values that the call has read so far, together with the       *)
(* present ones of what it has not read yet, were in the maps at one       *)
(* moment of the call.                                                     *)
(***************************************************************************)
EXTENDS HookSteps, Integers, TLAPS

(* Most leaves are first-order; those with arithmetic cite SMT. *)
USE Zenon

(* A record, whatever the numbers in it. *)
Rcd == [busy : BOOLEAN, header : Nat, cpu : Cpu, seq : Nat, kind : Kind,
        details : Nat, file_inode : Nat]

Reading == {"trusted", "mode", "device", "category", "threshold"}
Looking == Reading \cup {"flags", "update"}
Emitting == {"load", "store", "details", "submit"}

ShapeInv ==
    /\ step \in [Task -> Looking \cup Emitting \cup {"idle", "reserve", "return"}]
    /\ call \in [Task -> Nat] /\ cpu \in [Task -> Cpu] /\ kind \in [Task -> Kind]
    /\ count \in [Task -> Nat] /\ position \in [Task -> Nat]
    /\ calls \in Nat /\ seq_counter \in [Cpu -> Nat]
    /\ capacity \in Nat \ {0} /\ head \in Nat /\ tail \in Nat
    /\ tail <= head /\ head <= tail + capacity
    /\ memory \in [0..(capacity - 1) -> Rcd]
    /\ delivered \in Seq(Rcd) /\ Len(delivered) = tail
    /\ lsm \in BOOLEAN

Holding(t) == step[t] \in Emitting

(* The event at a position, in the buffer or taken out; is it complete? *)
Positions == 0..(head - 1)
Rec(p) == IF p < tail THEN delivered[p + 1] ELSE memory[Slot(p)]
Done(p) == p < tail \/ ~memory[Slot(p)].busy

(* An event that is not complete belongs to one task, which is filling it. *)
HoldInv ==
    /\ \A t \in Task : Holding(t) => \E p \in Positions : position[t] = p /\ ~Done(p)
    /\ \A t, u \in Task :
          Holding(t) /\ Holding(u) /\ position[t] = position[u] => t = u
    /\ \A p \in Positions : ~Done(p) => \E t \in Task : Holding(t) /\ position[t] = p

(* A call has its own number. *)
NumberInv ==
    /\ \A t \in Task : step[t] # "idle" => call[t] \in 1..calls
    /\ \A t, u \in Task :
          step[t] # "idle" /\ step[u] # "idle" /\ call[t] = call[u] => t = u

(* What a call has filled in so far is there; what is complete is intact. *)
FillInv ==
    /\ \A t \in Task, p \in Positions :
          position[t] = p /\ step[t] \in {"details", "submit"} =>
             Rec(p).header = call[t] /\ Rec(p).kind = kind[t]
    /\ \A t \in Task, p \in Positions :
          position[t] = p /\ step[t] = "submit" =>
             /\ Rec(p).details = call[t]
             /\ Rec(p).file_inode # call[t] => Rec(p).kind = "mmap"
    /\ \A p \in Positions : Done(p) =>
          /\ ~Rec(p).busy /\ Rec(p).header \in 1..calls
          /\ Rec(p).details = Rec(p).header
          /\ Rec(p).file_inode # Rec(p).header => Rec(p).kind = "mmap"

(* The first call of a pair had its event complete when the second one     *)
(* began, so its position is smaller than any the second one gets.         *)
OrderInv ==
    /\ \A s \in submitted :
          s[2] \in 1..calls /\ \E p \in Positions : Done(p) /\ Rec(p).header = s[1]
    /\ \A t \in Task, p \in Positions :
          step[t] \notin {"idle", "return"} /\ Done(p) => Rec(p).header # call[t]
    /\ \A s \in submitted, p, q \in Positions :
          Done(p) /\ Rec(p).header = s[1] /\ Done(q) /\ Rec(q).header = s[2] => p < q
    /\ \A s \in submitted, p \in Positions, t \in Task :
          Done(p) /\ Rec(p).header = s[1] /\ Holding(t) /\ call[t] = s[2]
          => p < position[t]

(* The number of an event is in its record. *)
Numbered(p) ==
    Done(p) \/ \E t \in Task : position[t] = p /\ step[t] \in {"details", "submit"}

OfCpu(c) == {p \in Positions : Numbered(p) /\ Rec(p).cpu = c}

(* A CPU on which no call preempted another: one call at a time, and the   *)
(* numbers up to its counter are in the records, in the order of these.    *)
AloneOn(c) ==
    /\ \A t, u \in Task :
          step[t] # "idle" /\ step[u] # "idle" /\ cpu[t] = c /\ cpu[u] = c => t = u
    /\ \A t \in Task : step[t] = "store" /\ cpu[t] = c => count[t] = seq_counter[c]
SeqOf(c) ==
    /\ \A t \in Task : step[t] \in {"load", "store"} /\ cpu[t] = c =>
          \A p \in OfCpu(c) : p < position[t]
    /\ \A p \in OfCpu(c) : Rec(p).seq \in 1..seq_counter[c]
    /\ \A p, q \in OfCpu(c) : p < q => Rec(p).seq < Rec(q).seq
    /\ \A n \in 1..seq_counter[c] : \E p \in OfCpu(c) : Rec(p).seq = n

SeqInv == \A c \in Cpu \ preempted : AloneOn(c) /\ SeqOf(c)

RingInv == ShapeInv /\ HoldInv /\ NumberInv /\ FillInv /\ OrderInv
-----------------------------------------------------------------------------
(* What a call of file_open by t has read, in the maps or before that. *)
SeenTrusted(t) ==
    IF step[t] = "trusted" THEN trusted_ancestor_roots ELSE trusted_ancestor_roots \ {t}
SeenMode(t) ==
    IF step[t] \in {"trusted", "mode"} THEN config ELSE blocking_enabled[t]
SeenSensitive(t) ==
    IF step[t] = "threshold" THEN sensitive_inodes_map \cup {inode[t]}
    ELSE sensitive_inodes_map

Now(t) == Answer(t, inode[t], trusted_ancestor_roots, process_threshold_map,
                 sensitive_inodes_map, config)
Seen(t) == Answer(t, inode[t], SeenTrusted(t), process_threshold_map,
                  SeenSensitive(t), SeenMode(t))

Opening(t) == step[t] # "idle" /\ kind[t] = "open"

AnswerShape ==
    /\ config \in BOOLEAN /\ inode = [t \in Opener |-> inode[t]]
    /\ blocking_enabled \in [Opener -> BOOLEAN]
    /\ verdict \in [Opener -> {"none", "permit", "deny"}]
    /\ policy \in [Opener -> SUBSET {"permit", "deny"}] /\ hits \in [Opener -> Nat]

(* What holds of an opener during its call. *)
Due(t) ==
    /\ verdict[t] # "none" \/ hits[t] # 0 => Opening(t)
    /\ Opening(t) => Now(t) \in policy[t]
    /\ step[t] \in Reading =>
          /\ kind[t] = "open" /\ verdict[t] = "none"
          /\ hits[t] = 0 => /\ SeenTrusted(t) = trusted_ancestor_roots
                            /\ SeenSensitive(t) = sensitive_inodes_map
                            /\ SeenMode(t) = config
          /\ hits[t] <= 1 => Seen(t) \in policy[t]
    /\ step[t] \in {"device", "threshold"} => blocking_enabled[t]
    /\ step[t] = "device" => inode[t] \in Device
    /\ step[t] = "category" /\ (~blocking_enabled[t] \/ inode[t] \in Device)
       => "permit" \in policy[t]
    /\ verdict[t] = "permit" => "permit" \in policy[t]
    /\ verdict[t] = "deny" => "deny" \in policy[t] \/ hits[t] >= 2

AnswerInv ==
    /\ \A t \in Task : step[t] \in Reading => t \in Opener
    /\ \A t \in Opener : Due(t)
-----------------------------------------------------------------------------
(* Slot: a position has a record of the ring buffer as its memory. *)
LEMMA SlotInRange ==
    ASSUME NEW n \in Nat \ {0}, NEW p \in Nat
    PROVE p % n \in 0..(n - 1)
BY SMT

(* Slot: positions less than the capacity apart have different memory. *)
LEMMA SlotsDiffer ==
    ASSUME NEW n \in Nat \ {0}, NEW p \in Nat, NEW q \in Nat, p < q, q - p < n
    PROVE p % n # q % n
<1> SUFFICES ASSUME p % n = q % n PROVE FALSE OBVIOUS
<1> DEFINE x == p \div n
           y == q \div n
           r == p % n
<1>1. x \in Int /\ y \in Int /\ r \in Int BY SMT
<1>2. p = n * x + r /\ q = n * y + r BY SMT
<1> HIDE DEF x, y, r
<1>3. q - p = n * (y - x) BY SMT, <1>1, <1>2
<1>4. y - x \in Int /\ n \in Int /\ n > 0 BY SMT, <1>1
<1> DEFINE k == y - x
<1> HIDE DEF k
<1>5. k \in Int /\ q - p = n * k BY <1>3, <1>4 DEF k
<1>6. CASE k <= 0
  <2>1. n * k <= 0 BY SMT, <1>4, <1>5, <1>6
  <2> QED BY SMT, <1>5, <2>1
<1>7. CASE k >= 1
  <2>1. n * k >= n BY SMT, <1>4, <1>5, <1>7
  <2> QED BY SMT, <1>4, <1>5, <2>1
<1> QED BY SMT, <1>5, <1>6, <1>7

(* RingInit gives every task and every record a CPU. *)
LEMMA AnyCpuIsCpu == AnyCpu \in Cpu
BY RingAssumption DEF AnyCpu

(* A position has a record. *)
LEMMA SlotHasRecord ==
    ASSUME ShapeInv, NEW p \in Nat
    PROVE Slot(p) \in 0..(capacity - 1) /\ memory[Slot(p)] \in Rcd
<1>1. Slot(p) \in 0..(capacity - 1) BY SlotInRange DEF ShapeInv, Slot
<1> QED BY <1>1 DEF ShapeInv

(* bpf_ringbuf_reserve marks the record, and changes nothing else in it. *)
LEMMA ReserveWrites ==
    ASSUME ShapeInv, NEW t \in Task, Reserve(t), head - tail < capacity
    PROVE \E r \in Rcd : memory' = [memory EXCEPT ![Slot(head)] = r] /\ r.busy
<1> DEFINE r == [memory[Slot(head)] EXCEPT !.busy = TRUE]
<1>1. memory[Slot(head)] \in Rcd BY SlotHasRecord DEF ShapeInv
<1>2. r \in Rcd /\ r.busy BY <1>1 DEF Rcd
<1>3. memory' = [memory EXCEPT ![Slot(head)] = r] BY DEF Reserve
<1> HIDE DEF r
<1> QED BY <1>2, <1>3

(* fill_header writes the header and leaves the record busy. *)
LEMMA StoreWrites ==
    ASSUME ShapeInv, NEW t \in Task, StoreCounter(t)
    PROVE \E r \in Rcd : /\ memory' = [memory EXCEPT ![Slot(position[t])] = r]
                         /\ r.busy = memory[Slot(position[t])].busy
                         /\ r.header = call[t] /\ r.kind = kind[t]
                         /\ r.cpu = cpu[t] /\ r.seq = count[t] + 1
<1> DEFINE r == [memory[Slot(position[t])] EXCEPT
                   !.header = call[t], !.cpu = cpu[t], !.kind = kind[t],
                   !.seq = count[t] + 1]
<1>1. memory[Slot(position[t])] \in Rcd BY SlotHasRecord DEF ShapeInv
<1>2. call[t] \in Nat /\ cpu[t] \in Cpu /\ kind[t] \in Kind /\ count[t] + 1 \in Nat
  BY SMT DEF ShapeInv
<1>3. r \in Rcd BY <1>1, <1>2 DEF Rcd
<1>4. /\ r.busy = memory[Slot(position[t])].busy /\ r.header = call[t]
      /\ r.kind = kind[t] /\ r.cpu = cpu[t] /\ r.seq = count[t] + 1
  BY <1>1 DEF Rcd
<1>5. memory' = [memory EXCEPT ![Slot(position[t])] = r] BY DEF StoreCounter
<1> HIDE DEF r
<1> QED BY <1>3, <1>4, <1>5

(* The details are written and the header stays. *)
LEMMA FillWrites ==
    ASSUME ShapeInv, NEW t \in Task, FillDetails(t)
    PROVE \E r \in Rcd : /\ memory' = [memory EXCEPT ![Slot(position[t])] = r]
                         /\ r.busy = memory[Slot(position[t])].busy
                         /\ r.header = memory[Slot(position[t])].header
                         /\ r.kind = memory[Slot(position[t])].kind
                         /\ r.cpu = memory[Slot(position[t])].cpu
                         /\ r.seq = memory[Slot(position[t])].seq
                         /\ r.details = call[t]
                         /\ r.file_inode # call[t] => kind[t] = "mmap"
<1> DEFINE e == memory[Slot(position[t])]
           r == [e EXCEPT !.details = call[t],
                          !.file_inode = IF kind[t] = "mmap" THEN e.file_inode
                                         ELSE call[t]]
<1>1. e \in Rcd BY SlotHasRecord DEF ShapeInv
<1>2. call[t] \in Nat BY DEF ShapeInv
<1>5. memory' = [memory EXCEPT ![Slot(position[t])] = r] BY DEF FillDetails
<1> HIDE DEF e
<1>3. r \in Rcd BY <1>1, <1>2 DEF Rcd
<1>4. /\ r.busy = e.busy /\ r.header = e.header /\ r.kind = e.kind
      /\ r.cpu = e.cpu /\ r.seq = e.seq
      /\ r.details = call[t]
      /\ r.file_inode # call[t] => kind[t] = "mmap"
  BY <1>1 DEF Rcd
<1> HIDE DEF r
<1> QED BY <1>3, <1>4, <1>5 DEF e

(* bpf_ringbuf_submit clears the mark and leaves the event. *)
LEMMA SubmitWrites ==
    ASSUME ShapeInv, NEW t \in Task, Submit(t)
    PROVE \E r \in Rcd : /\ memory' = [memory EXCEPT ![Slot(position[t])] = r]
                         /\ ~r.busy
                         /\ r.header = memory[Slot(position[t])].header
                         /\ r.kind = memory[Slot(position[t])].kind
                         /\ r.details = memory[Slot(position[t])].details
                         /\ r.file_inode = memory[Slot(position[t])].file_inode
                         /\ r.cpu = memory[Slot(position[t])].cpu
                         /\ r.seq = memory[Slot(position[t])].seq
<1> DEFINE e == memory[Slot(position[t])]
           r == [e EXCEPT !.busy = FALSE]
<1>1. e \in Rcd BY SlotHasRecord DEF ShapeInv
<1>2. memory' = [memory EXCEPT ![Slot(position[t])] = r] BY DEF Submit
<1> HIDE DEF e
<1>3. r \in Rcd BY <1>1 DEF Rcd
<1>4. /\ ~r.busy /\ r.header = e.header /\ r.kind = e.kind
      /\ r.cpu = e.cpu /\ r.seq = e.seq
      /\ r.details = e.details /\ r.file_inode = e.file_inode
  BY <1>1 DEF Rcd
<1> HIDE DEF r
<1> QED BY <1>2, <1>3, <1>4 DEF e

(* What a step does to the ring, by the kind of step. *)
ReadStep(t) ==
    /\ step[t] \in Looking
    /\ \E next \in Looking \cup {"reserve", "return"} : Go(t, next)
    /\ UNCHANGED emission

BeginStep(t, c, k) ==
    \E first \in {"trusted", "reserve"}, preemptible \in BOOLEAN :
       Begin(t, c, k, first, preemptible)

HostStep ==
    /\ calls' = calls + 1
    /\ UNCHANGED <<step, programs, locals, seq_counter, ringVars, preempted>>

(* Next: to the ring every step is one of these. *)
LEMMA RingSteps ==
    ASSUME [Next]_vars, ShapeInv
    PROVE \/ \E t \in Task : ReadStep(t) \/ Emit(t) \/ End(t)
          \/ \E t \in Task, c \in Cpu, k \in Kind : BeginStep(t, c, k)
          \/ HostStep \/ Consume
          \/ UNCHANGED <<step, emission>>
<1>1. CASE \E t \in Task : Program(t)
  <2>1. PICK t \in Task : Program(t) BY <1>1
  <2>2. CASE ReadTrusted(t) BY <2>2 DEF ReadTrusted, ReadStep, Looking, Reading, Answered
  <2>3. CASE ReadMode(t) BY <2>3 DEF ReadMode, ReadStep, Looking, Reading
  <2>4. CASE ReadDeviceThreshold(t)
    BY <2>4 DEF ReadDeviceThreshold, ReadStep, Looking, Reading, Answered
  <2>5. CASE ReadCategory(t) BY <2>5 DEF ReadCategory, ReadStep, Looking, Reading, Answered
  <2>6. CASE ReadThreshold(t) BY <2>6 DEF ReadThreshold, ReadStep, Looking, Reading, Answered
  <2>7. CASE ReadFlags(t) BY <2>7 DEF ReadFlags, ReadStep, Looking
  <2>8. CASE UpdateFlags(t) BY <2>8 DEF UpdateFlags, ReadStep, Looking
  <2>9. CASE EmitEvent(t) BY <2>9 DEF EmitEvent
  <2>10. CASE Return(t) BY <2>10 DEF Return
  <2> QED BY <2>1, <2>2, <2>3, <2>4, <2>5, <2>6, <2>7, <2>8, <2>9, <2>10 DEF Program
<1>2. CASE \E t \in Opener, i \in Inode, c \in Cpu : file_open(t, i, c)
  BY <1>2, StepsAssumption DEF file_open, BeginStep, Kind
<1>3. CASE \E t \in Task, c \in Cpu : Report(t, c) \/ ReportMmap(t, c)
  <2>1. PICK t \in Task, c \in Cpu : Report(t, c) \/ ReportMmap(t, c) BY <1>3
  <2>2. lsm \in BOOLEAN /\ "report" \in Kind /\ "mmap" \in Kind BY DEF ShapeInv, Kind
  <2>3. CASE Report(t, c)
    <3>1. BeginStep(t, c, "report") BY <2>2, <2>3 DEF Report, BeginStep
    <3> QED BY <2>2, <3>1
  <2>4. CASE ReportMmap(t, c)
    <3>1. BeginStep(t, c, "mmap") BY <2>4 DEF ReportMmap, BeginStep
    <3> QED BY <2>2, <3>1
  <2> QED BY <2>1, <2>3, <2>4
<1>4. CASE Host
  <2>1. CASE HostUpdate BY <2>1 DEF HostUpdate, HostStep
  <2>2. CASE RingBufferPollLoop BY <2>2 DEF RingBufferPollLoop
  <2>3. CASE \E t \in Opener, m \in SUBSET Inode : WriteFlags(t, m)
    BY <2>3 DEF WriteFlags, HostStep
  <2> QED BY <1>4, <2>1, <2>2, <2>3
          DEF Host, SetConfigValue, AddSensitiveInode, UpdateThreshold, UpdateTrusted
<1>5. CASE UNCHANGED vars BY <1>5 DEF vars
<1> QED BY <1>1, <1>2, <1>3, <1>4, <1>5 DEF Next

(* lsm is chosen once. *)
LEMMA LsmFixed == ASSUME [Next]_vars PROVE lsm' = lsm
BY DEF Next, vars, Program, ReadTrusted, ReadMode, ReadDeviceThreshold, ReadCategory,
       ReadThreshold, ReadFlags, UpdateFlags, EmitEvent, Return, file_open, Report,
       ReportMmap, Host, WriteFlags,
       SetConfigValue, AddSensitiveInode, UpdateThreshold, UpdateTrusted, HostUpdate,
       RingBufferPollLoop

(* A step keeps the shapes: the positions stay within the capacity, and    *)
(* the consumer has taken out as many records as its position says.        *)
LEMMA ShapeStep ==
    ASSUME ShapeInv, [Next]_vars
    PROVE ShapeInv'
<1> USE DEF Kind
<1>0. lsm' \in BOOLEAN BY LsmFixed DEF ShapeInv
<1>1. ASSUME NEW t \in Task, ReadStep(t) PROVE ShapeInv'
  BY <1>0, <1>1 DEF ShapeInv, ReadStep, Go, emission, programs, locals, ringVars,
                    Looking, Reading, Emitting
<1>2. ASSUME NEW t \in Task, Reserve(t) PROVE ShapeInv'
  <2>1. CASE head - tail < capacity
    <3>1. memory' \in [0..(capacity - 1) -> Rcd]
      BY <1>2, <2>1, ReserveWrites DEF ShapeInv
    <3>2. /\ head' = head + 1 /\ position' = [position EXCEPT ![t] = head] /\ Go(t, "load")
          /\ UNCHANGED <<programs, calls, count, seq_counter, capacity, tail, delivered>>
      BY <1>2, <2>1 DEF Reserve
    <3> QED BY SMT, <1>0, <2>1, <3>1, <3>2 DEF ShapeInv, Go, programs, Emitting
  <2>2. CASE ~(head - tail < capacity)
    BY <1>0, <1>2, <2>2 DEF ShapeInv, Reserve, Go, programs
  <2> QED BY <2>1, <2>2
<1>3. ASSUME NEW t \in Task, LoadCounter(t) PROVE ShapeInv'
  BY <1>0, <1>3 DEF ShapeInv, LoadCounter, Go, programs, ringVars, Emitting
<1>4. ASSUME NEW t \in Task, StoreCounter(t) PROVE ShapeInv'
  <2>1. memory' \in [0..(capacity - 1) -> Rcd] BY <1>4, StoreWrites DEF ShapeInv
  <2>2. cpu[t] \in Cpu /\ count[t] + 1 \in Nat BY SMT DEF ShapeInv
  <2>3. seq_counter' \in [Cpu -> Nat] BY <1>4, <2>2 DEF ShapeInv, StoreCounter
  <2>4. step' \in [Task -> Looking \cup Emitting \cup {"idle", "reserve", "return"}]
    BY <1>4 DEF ShapeInv, StoreCounter, Go, Emitting
  <2> QED BY <1>0, <1>4, <2>1, <2>3, <2>4 DEF ShapeInv, StoreCounter, programs, locals
<1>5. ASSUME NEW t \in Task, FillDetails(t) PROVE ShapeInv'
  <2>1. memory' \in [0..(capacity - 1) -> Rcd] BY <1>5, FillWrites DEF ShapeInv
  <2> QED BY <1>0, <1>5, <2>1 DEF ShapeInv, FillDetails, Go, programs, locals, Emitting
<1>6. ASSUME NEW t \in Task, Submit(t) PROVE ShapeInv'
  <2>1. memory' \in [0..(capacity - 1) -> Rcd] BY <1>6, SubmitWrites DEF ShapeInv
  <2> QED BY <1>0, <1>6, <2>1 DEF ShapeInv, Submit, Go, programs, locals
<1>7. ASSUME NEW t \in Task, End(t) PROVE ShapeInv'
  BY <1>0, <1>7, AnyCpuIsCpu DEF ShapeInv, End, Go, ringVars
<1>8. ASSUME NEW t \in Task, NEW c \in Cpu, NEW k \in Kind, BeginStep(t, c, k)
      PROVE ShapeInv'
  BY SMT, <1>0, <1>8 DEF ShapeInv, BeginStep, Begin, Go, locals, Looking, Reading
<1>9. CASE HostStep BY SMT, <1>0, <1>9 DEF ShapeInv, HostStep, programs, locals, ringVars
<1>10. CASE Consume
  <2>1. Slot(tail) \in 0..(capacity - 1) BY SlotInRange DEF ShapeInv, Slot
  <2>2. delivered' \in Seq(Rcd) /\ Len(delivered') = tail'
    BY SMT, <1>10, <2>1 DEF ShapeInv, Consume
  <2> QED BY SMT, <1>0, <1>10, <2>2 DEF ShapeInv, Consume, programs, locals
<1>11. CASE UNCHANGED <<step, emission>>
  BY <1>0, <1>11 DEF ShapeInv, emission, programs, locals, ringVars
<1> QED BY <1>1, <1>2, <1>3, <1>4, <1>5, <1>6, <1>7, <1>8, <1>9, <1>10, <1>11,
           RingSteps DEF Emit

(* The programs start with nothing in the ring. *)
LEMMA ShapeInit == Init => ShapeInv
BY SMT, RingAssumption, AnyCpuIsCpu DEF Init, RingInit, ShapeInv, Rcd, Kind
-----------------------------------------------------------------------------
(* Positions within one capacity have different records. *)
LEMMA SlotsApart ==
    ASSUME ShapeInv, NEW p \in tail..(tail + capacity - 1),
           NEW q \in tail..(tail + capacity - 1), p # q
    PROVE Slot(p) # Slot(q)
<1>1. p \in Nat /\ q \in Nat /\ tail \in Nat /\ capacity \in Nat \ {0} BY SMT DEF ShapeInv
<1>2. CASE p < q
  <2>1. q - p < capacity BY SMT, <1>1
  <2>2. p % capacity # q % capacity BY <1>1, <1>2, <2>1, SlotsDiffer
  <2> QED BY <2>2 DEF Slot
<1>3. CASE q < p
  <2>1. p - q < capacity BY SMT, <1>1
  <2>2. q % capacity # p % capacity BY <1>1, <1>3, <2>1, SlotsDiffer
  <2> QED BY <2>2 DEF Slot
<1> QED BY SMT, <1>1, <1>2, <1>3

(* The step leaves the event at position p as it is, wherever it is. *)
Same(p) == (Rec(p))' = Rec(p) /\ ((Done(p))' <=> Done(p))

(* A task that writes its record changes no other event. *)
LEMMA WriteView ==
    ASSUME ShapeInv, NEW p \in tail..(head - 1), NEW r \in Rcd,
           memory' = [memory EXCEPT ![Slot(p)] = r],
           UNCHANGED <<capacity, head, tail, delivered>>
    PROVE /\ (Rec(p))' = r /\ ((Done(p))' <=> ~r.busy)
          /\ \A q \in Positions : q # p => Same(q)
<1>1. tail \in Nat /\ head \in Nat /\ capacity \in Nat \ {0} /\ head <= tail + capacity
  BY DEF ShapeInv
<1>2. (Slot(p))' = Slot(p) /\ \A q \in Nat : (Slot(q))' = Slot(q) BY DEF Slot
<1>3. Slot(p) \in 0..(capacity - 1) BY SMT, <1>1, SlotHasRecord
<1>4. memory'[Slot(p)] = r BY <1>3 DEF ShapeInv
<1>5. (Rec(p))' = r /\ ((Done(p))' <=> ~r.busy) BY SMT, <1>1, <1>2, <1>4 DEF Rec, Done
<1>6. ASSUME NEW q \in Positions, q # p PROVE Same(q)
  <2>1. CASE q < tail BY <2>1 DEF Same, Rec, Done
  <2>2. CASE ~(q < tail)
    <3>1. Slot(p) # Slot(q) BY SMT, <1>1, <1>6, <2>2, SlotsApart DEF Positions
    <3>2. Slot(q) \in 0..(capacity - 1) BY SMT, <1>1, SlotHasRecord DEF Positions
    <3>3. memory'[Slot(q)] = memory[Slot(q)] BY <3>1, <3>2 DEF ShapeInv
    <3> QED BY SMT, <1>1, <1>2, <2>2, <3>3 DEF Same, Rec, Done, Positions
  <2> QED BY <2>1, <2>2
<1> QED BY <1>5, <1>6

(* A reservation adds an event that is not complete and changes no other. *)
LEMMA ReserveView ==
    ASSUME ShapeInv, NEW t \in Task, Reserve(t), head - tail < capacity,
           NEW p \in Nat, p = head
    PROVE /\ Positions' = Positions \cup {p} /\ p \notin Positions
          /\ ~(Done(p))' /\ memory'[Slot(p)].busy
          /\ \A q \in Positions : Same(q)
<1>1. tail \in Nat /\ head \in Nat /\ capacity \in Nat \ {0} /\ tail <= head BY DEF ShapeInv
<1>2. PICK r \in Rcd : memory' = [memory EXCEPT ![Slot(head)] = r] /\ r.busy
  BY ReserveWrites
<1>3. head' = head + 1 /\ UNCHANGED <<capacity, tail, delivered>> BY DEF Reserve
<1>4. \A q \in Nat : (Slot(q))' = Slot(q) BY <1>3 DEF Slot
<1>5. memory'[Slot(head)] = r BY <1>1, <1>2, SlotHasRecord DEF ShapeInv
<1>6. ~(Done(p))' BY SMT, <1>1, <1>2, <1>3, <1>4, <1>5 DEF Done
<1>7. ASSUME NEW q \in Positions PROVE Same(q)
  <2>1. CASE q < tail BY <1>3, <2>1 DEF Same, Rec, Done
  <2>2. CASE ~(q < tail)
    <3>1. Slot(head) # Slot(q) BY SMT, <1>1, <2>2, SlotsApart DEF Positions
    <3>2. Slot(q) \in 0..(capacity - 1) BY SMT, <1>1, SlotHasRecord DEF Positions
    <3>3. memory'[Slot(q)] = memory[Slot(q)] BY <1>2, <3>1, <3>2 DEF ShapeInv
    <3> QED BY SMT, <1>1, <1>3, <1>4, <2>2, <3>3 DEF Same, Rec, Done, Positions
  <2> QED BY <2>1, <2>2
<1>8. Positions' = Positions \cup {p} /\ p \notin Positions BY SMT, <1>1, <1>3 DEF Positions
<1> QED BY <1>2, <1>5, <1>6, <1>7, <1>8

(* The consumer takes an event out and changes none. *)
LEMMA ConsumeView ==
    ASSUME ShapeInv, Consume
    PROVE Positions' = Positions /\ \A q \in Positions : Same(q)
<1>1. tail \in Nat /\ head \in Nat /\ delivered \in Seq(Rcd) /\ Len(delivered) = tail
  BY DEF ShapeInv
<1>2. /\ UNCHANGED <<capacity, head, memory>> /\ tail' = tail + 1
      /\ delivered' = Append(delivered, memory[Slot(tail)]) /\ ~memory[Slot(tail)].busy
  BY DEF Consume
<1>3. \A q \in Nat : (Slot(q))' = Slot(q) BY <1>2 DEF Slot
<1>4. memory[Slot(tail)] \in Rcd BY <1>1, SlotHasRecord
<1>5. ASSUME NEW q \in Positions PROVE Same(q)
  <2>0. q \in Nat BY SMT, <1>1 DEF Positions
  <2>1. CASE q < tail
    <3>1. delivered'[q + 1] = delivered[q + 1] BY SMT, <1>1, <1>2, <1>4, <2>0, <2>1
    <3> QED BY SMT, <1>1, <1>2, <2>0, <2>1, <3>1 DEF Same, Rec, Done
  <2>2. CASE q = tail
    <3>1. delivered'[q + 1] = memory[Slot(tail)] BY SMT, <1>1, <1>2, <1>4, <2>2
    <3> QED BY SMT, <1>1, <1>2, <2>0, <2>2, <3>1 DEF Same, Rec, Done
  <2>3. CASE q > tail BY SMT, <1>1, <1>2, <1>3, <2>0, <2>3 DEF Same, Rec, Done
  <2> QED BY SMT, <1>1, <2>0, <2>1, <2>2, <2>3
<1>6. Positions' = Positions BY <1>2 DEF Positions
<1> QED BY <1>5, <1>6

(* A step that leaves the ring alone. *)
LEMMA RestView ==
    ASSUME UNCHANGED <<capacity, head, tail, memory, delivered>>
    PROVE Positions' = Positions /\ \A q \in Positions : Same(q)
BY DEF Positions, Same, Rec, Done, Slot
-----------------------------------------------------------------------------
(* The step completes no event and changes none that is complete; the      *)
(* tasks that are filling an event go on with it.                          *)
RingKept ==
    /\ Positions' = Positions
    /\ \A p \in Positions : /\ (Done(p))' <=> Done(p)
                            /\ Done(p) => (Rec(p))' = Rec(p)
TasksKept ==
    /\ calls <= calls'
    /\ \A t \in Task : (Holding(t))' <=> Holding(t)
    /\ \A t \in Task : Holding(t) =>
          position'[t] = position[t] /\ call'[t] = call[t] /\ kind'[t] = kind[t]

(* A step of one task, or the begin of a call, lets no other task's event go. *)
LEMMA OneTaskKept ==
    ASSUME calls \in Nat, calls' \in {calls, calls + 1}, NEW t \in Task,
           (Holding(t))' <=> Holding(t),
           Holding(t) => position'[t] = position[t] /\ call'[t] = call[t] /\ kind'[t] = kind[t],
           \A u \in Task \ {t} : /\ step'[u] = step[u] /\ position'[u] = position[u]
                                 /\ call'[u] = call[u] /\ kind'[u] = kind[u]
    PROVE TasksKept
<1>1. calls <= calls' BY SMT
<1>2. ASSUME NEW u \in Task \ {t} PROVE (Holding(u))' <=> Holding(u) BY <1>2 DEF Holding
<1> QED BY <1>1, <1>2 DEF TasksKept

(* Such a step keeps the owners of the events that are not complete. *)
LEMMA HoldKept ==
    ASSUME HoldInv, RingKept, TasksKept
    PROVE HoldInv'
<1>1. ASSUME NEW t \in Task, (Holding(t))'
      PROVE \E p \in Positions' : position'[t] = p /\ ~(Done(p))'
  BY <1>1 DEF HoldInv, RingKept, TasksKept
<1>2. ASSUME NEW p \in Positions', ~(Done(p))'
      PROVE \E t \in Task : (Holding(t))' /\ position'[t] = p
  BY <1>2 DEF HoldInv, RingKept, TasksKept
<1>3. ASSUME NEW t \in Task, NEW u \in Task, (Holding(t))', (Holding(u))',
             position'[t] = position'[u]
      PROVE t = u
  BY <1>3 DEF HoldInv, TasksKept
<1> QED BY <1>1, <1>2, <1>3 DEF HoldInv

(* A reservation gives the new event to the task. *)
LEMMA HoldReserve ==
    ASSUME ShapeInv, HoldInv, NEW t \in Task, Reserve(t), head - tail < capacity
    PROVE HoldInv'
<1>1. PICK p \in Nat : p = head BY DEF ShapeInv
<1>2. /\ Positions' = Positions \cup {p} /\ p \notin Positions /\ ~(Done(p))'
      /\ \A q \in Positions : Same(q)
  BY <1>1, ReserveView
<1>3. /\ ~Holding(t) /\ (Holding(t))' /\ position'[t] = p
      /\ \A u \in Task : u # t => position'[u] = position[u] /\ ((Holding(u))' <=> Holding(u))
  BY <1>1 DEF Reserve, Go, Holding, ShapeInv, Emitting
<1>4. \A q \in Positions : (Done(q))' <=> Done(q) BY <1>2 DEF Same
<1>5. ASSUME NEW u \in Task, (Holding(u))'
      PROVE \E q \in Positions' : position'[u] = q /\ ~(Done(q))'
  BY <1>2, <1>3, <1>4, <1>5 DEF HoldInv
<1>6. ASSUME NEW u \in Task, NEW v \in Task, (Holding(u))', (Holding(v))',
             position'[u] = position'[v]
      PROVE u = v
  <2>1. \A w \in Task : w # t /\ (Holding(w))' => position'[w] # p
    BY SMT, <1>2, <1>3 DEF HoldInv
  <2> QED BY <1>3, <1>6, <2>1 DEF HoldInv
<1>7. ASSUME NEW q \in Positions', ~(Done(q))'
      PROVE \E u \in Task : (Holding(u))' /\ position'[u] = q
  BY <1>2, <1>3, <1>4, <1>7 DEF HoldInv
<1> QED BY <1>5, <1>6, <1>7 DEF HoldInv

(* A task that fills its record writes the event it holds, and no other. *)
LEMMA HolderWrites ==
    ASSUME ShapeInv, HoldInv, NEW t \in Task, Holding(t), NEW r \in Rcd,
           memory' = [memory EXCEPT ![Slot(position[t])] = r],
           UNCHANGED <<capacity, head, tail, delivered, position>>
    PROVE \E p \in Positions :
             /\ position[t] = p /\ ~Done(p) /\ Rec(p) = memory[Slot(position[t])]
             /\ Positions' = Positions
             /\ (Rec(p))' = r /\ ((Done(p))' <=> ~r.busy)
             /\ \A q \in Positions : q # p => Same(q)
<1>1. PICK p \in Positions : position[t] = p /\ ~Done(p) BY DEF HoldInv
<1>2. p \in tail..(head - 1) /\ Rec(p) = memory[Slot(position[t])]
  BY SMT, <1>1 DEF Done, Rec, Positions, ShapeInv
<1>3. /\ (Rec(p))' = r /\ ((Done(p))' <=> ~r.busy)
      /\ \A q \in Positions : q # p => Same(q)
  BY <1>1, <1>2, WriteView
<1>4. Positions' = Positions BY DEF Positions
<1> QED BY <1>1, <1>2, <1>3, <1>4

(* A submission ends the hold of the task on its event. *)
LEMMA HoldSubmit ==
    ASSUME ShapeInv, HoldInv, NEW t \in Task, Submit(t)
    PROVE HoldInv'
<1>1. PICK r \in Rcd : memory' = [memory EXCEPT ![Slot(position[t])] = r] /\ ~r.busy
  BY SubmitWrites
<1>2. Holding(t) /\ UNCHANGED <<capacity, head, tail, delivered, position>>
  BY DEF Submit, locals, Holding, Emitting
<1>3. PICK p \in Positions :
         /\ position[t] = p /\ ~Done(p) /\ Positions' = Positions
         /\ (Done(p))' /\ \A q \in Positions : q # p => Same(q)
  BY <1>1, <1>2, HolderWrites
<1>4. ~(Holding(t))' /\ \A u \in Task : u # t => ((Holding(u))' <=> Holding(u))
  BY DEF Submit, Go, Holding, ShapeInv, Emitting
<1>5. \A q \in Positions : q # p => ((Done(q))' <=> Done(q)) BY <1>3 DEF Same
<1>6. ASSUME NEW u \in Task, (Holding(u))'
      PROVE \E q \in Positions' : position'[u] = q /\ ~(Done(q))'
  <2>1. u # t /\ Holding(u) BY <1>4, <1>6
  <2>2. PICK q \in Positions : position[u] = q /\ ~Done(q) BY <2>1 DEF HoldInv
  <2>3. q # p BY <1>2, <1>3, <2>1, <2>2 DEF HoldInv
  <2> QED BY <1>2, <1>3, <1>5, <2>2, <2>3
<1>7. ASSUME NEW u \in Task, NEW v \in Task, (Holding(u))', (Holding(v))',
             position'[u] = position'[v]
      PROVE u = v
  BY <1>2, <1>4, <1>7 DEF HoldInv
<1>8. ASSUME NEW q \in Positions', ~(Done(q))'
      PROVE \E u \in Task : (Holding(u))' /\ position'[u] = q
  <2>1. q \in Positions /\ q # p /\ ~Done(q) BY <1>3, <1>5, <1>8
  <2>2. PICK u \in Task : Holding(u) /\ position[u] = q BY <2>1 DEF HoldInv
  <2>3. u # t BY <1>3, <2>1, <2>2
  <2> QED BY <1>2, <1>4, <2>2, <2>3
<1> QED BY <1>6, <1>7, <1>8 DEF HoldInv

(* Steps that write no record. *)
Quiet ==
    /\ Positions' = Positions /\ \A p \in Positions : Same(p)
    /\ TasksKept
    /\ \A t \in Task : step[t] \in {"details", "submit"} \/ step'[t] \in {"details", "submit"}
          => step'[t] = step[t]

(* Reads, the load of the counter, a failed reservation, begin and end of  *)
(* a call, the host and the consumer write no record.                      *)
LEMMA QuietSteps ==
    ASSUME ShapeInv,
           \/ \E t \in Task : \/ ReadStep(t) \/ LoadCounter(t) \/ End(t)
                              \/ Reserve(t) /\ ~(head - tail < capacity)
           \/ \E t \in Task, c \in Cpu, k \in Kind : BeginStep(t, c, k)
           \/ HostStep \/ Consume \/ UNCHANGED <<step, emission>>
    PROVE Quiet
<1> USE DEF Holding, Emitting
<1>1. ASSUME NEW t \in Task, ReadStep(t) PROVE Quiet
  <2>1. UNCHANGED <<capacity, head, tail, memory, delivered>>
    BY <1>1 DEF ReadStep, emission, ringVars
  <2>2. TasksKept
    BY <1>1, OneTaskKept DEF ReadStep, Go, Looking, Reading, ShapeInv, emission, programs, locals
  <2>3. \A u \in Task :
           step[u] \in {"details", "submit"} \/ step'[u] \in {"details", "submit"}
           => step'[u] = step[u]
    BY <1>1 DEF ReadStep, Go, Looking, Reading, ShapeInv
  <2> QED BY <2>1, <2>2, <2>3, RestView DEF Quiet
<1>2. ASSUME NEW t \in Task, LoadCounter(t) PROVE Quiet
  <2>1. UNCHANGED <<capacity, head, tail, memory, delivered>>
    BY <1>2 DEF LoadCounter, ringVars
  <2>2. TasksKept BY <1>2, OneTaskKept DEF LoadCounter, Go, ShapeInv, programs
  <2>3. \A u \in Task :
           step[u] \in {"details", "submit"} \/ step'[u] \in {"details", "submit"}
           => step'[u] = step[u]
    BY <1>2 DEF LoadCounter, Go, ShapeInv
  <2> QED BY <2>1, <2>2, <2>3, RestView DEF Quiet
<1>3. ASSUME NEW t \in Task, End(t) PROVE Quiet
  <2>1. UNCHANGED <<capacity, head, tail, memory, delivered>>
    BY <1>3 DEF End, ringVars
  <2>2. TasksKept BY <1>3, OneTaskKept DEF End, Go, ShapeInv
  <2>3. \A u \in Task :
           step[u] \in {"details", "submit"} \/ step'[u] \in {"details", "submit"}
           => step'[u] = step[u]
    BY <1>3 DEF End, Go, ShapeInv
  <2> QED BY <2>1, <2>2, <2>3, RestView DEF Quiet
<1>4. ASSUME NEW t \in Task, Reserve(t), ~(head - tail < capacity) PROVE Quiet
  <2>1. UNCHANGED <<capacity, head, tail, memory, delivered>> BY <1>4 DEF Reserve
  <2>2. TasksKept BY <1>4, OneTaskKept DEF Reserve, Go, ShapeInv, programs
  <2>3. \A u \in Task :
           step[u] \in {"details", "submit"} \/ step'[u] \in {"details", "submit"}
           => step'[u] = step[u]
    BY <1>4 DEF Reserve, Go, ShapeInv
  <2> QED BY <2>1, <2>2, <2>3, RestView DEF Quiet
<1>5. ASSUME NEW t \in Task, NEW c \in Cpu, NEW k \in Kind, BeginStep(t, c, k) PROVE Quiet
  <2>1. UNCHANGED <<capacity, head, tail, memory, delivered>> BY <1>5 DEF BeginStep, Begin
  <2>2. PICK first \in {"trusted", "reserve"} :
           /\ step[t] = "idle" /\ step' = [step EXCEPT ![t] = first]
           /\ call' = [call EXCEPT ![t] = calls + 1] /\ kind' = [kind EXCEPT ![t] = k]
           /\ calls' = calls + 1 /\ position' = position
    BY <1>5 DEF BeginStep, Begin, Go, locals
  <2>4. TasksKept BY <2>2, OneTaskKept DEF ShapeInv
  <2>3. \A u \in Task :
           step[u] \in {"details", "submit"} \/ step'[u] \in {"details", "submit"}
           => step'[u] = step[u]
    BY <2>2 DEF ShapeInv
  <2> QED BY <2>1, <2>3, <2>4, RestView DEF Quiet
<1>6. CASE HostStep
  <2>1. UNCHANGED <<capacity, head, tail, memory, delivered>> BY <1>6 DEF HostStep, ringVars
  <2> QED BY SMT, <1>6, <2>1, RestView DEF Quiet, HostStep, TasksKept, ShapeInv, programs, locals
<1>7. CASE Consume
  BY SMT, <1>7, ConsumeView DEF Quiet, Consume, TasksKept, ShapeInv, programs, locals
<1>8. CASE UNCHANGED <<step, emission>>
  <2>1. UNCHANGED <<capacity, head, tail, memory, delivered>> BY <1>8 DEF emission, ringVars
  <2> QED BY SMT, <1>8, <2>1, RestView
          DEF Quiet, TasksKept, ShapeInv, emission, programs, locals
<1> QED BY <1>1, <1>2, <1>3, <1>4, <1>5, <1>6, <1>7, <1>8

(* They keep the ring. *)
LEMMA QuietKeeps == Quiet => RingKept
BY DEF Quiet, RingKept, Same

(* So do the steps that write a record that stays busy. *)
LEMMA WritesKeep ==
    ASSUME ShapeInv, HoldInv, NEW t \in Task, StoreCounter(t) \/ FillDetails(t)
    PROVE RingKept /\ TasksKept
<1>1. PICK r \in Rcd : /\ memory' = [memory EXCEPT ![Slot(position[t])] = r]
                       /\ r.busy = memory[Slot(position[t])].busy
  BY StoreWrites, FillWrites
<1>2. Holding(t) /\ UNCHANGED <<capacity, head, tail, delivered, position>>
  BY DEF StoreCounter, FillDetails, locals, Holding, Emitting
<1>3. PICK p \in Positions :
         /\ position[t] = p /\ ~Done(p) /\ Positions' = Positions
         /\ ((Done(p))' <=> ~r.busy) /\ \A q \in Positions : q # p => Same(q)
  BY <1>1, <1>2, HolderWrites
<1>4. memory[Slot(position[t])].busy BY <1>3 DEF Done
<1>5. RingKept BY <1>1, <1>3, <1>4 DEF RingKept, Same
<1>6. TasksKept
  BY OneTaskKept DEF StoreCounter, FillDetails, Go, Holding, Emitting, ShapeInv, programs, locals
<1> QED BY <1>5, <1>6

(* A step leaves every event that is not complete with one owner. *)
LEMMA HoldStep ==
    ASSUME ShapeInv, HoldInv, [Next]_vars
    PROVE HoldInv'
<1>1. CASE Quiet BY <1>1, QuietKeeps, HoldKept DEF Quiet
<1>2. ASSUME NEW t \in Task, Emit(t) PROVE HoldInv'
  BY <1>1, <1>2, HoldReserve, HoldSubmit, WritesKeep, HoldKept, QuietSteps DEF Emit
<1> QED BY <1>1, <1>2, RingSteps, QuietSteps

(* A call has its own number, and a step gives none twice. *)
LEMMA NumberStep ==
    ASSUME ShapeInv, NumberInv, [Next]_vars
    PROVE NumberInv'
<1>0. calls \in Nat BY DEF ShapeInv
<1>1. ASSUME calls' \in Nat, calls <= calls',
             \A t \in Task : step'[t] # "idle" => step[t] # "idle" /\ call'[t] = call[t]
      PROVE NumberInv'
  BY SMT, <1>0, <1>1 DEF NumberInv
<1>2. ASSUME NEW t \in Task, ReadStep(t) PROVE NumberInv'
  BY SMT, <1>0, <1>1, <1>2 DEF ReadStep, Go, Looking, Reading, ShapeInv, emission, programs
<1>3. ASSUME NEW t \in Task, Emit(t) PROVE NumberInv'
  <2>1. calls' = calls /\ call' = call
    BY <1>3 DEF Emit, Reserve, LoadCounter, StoreCounter, FillDetails, Submit, programs
  <2>2. step[t] # "idle" /\ \A u \in Task : u # t => step'[u] = step[u]
    BY <1>3 DEF Emit, Reserve, LoadCounter, StoreCounter, FillDetails, Submit, Go, ShapeInv
  <2> QED BY SMT, <1>0, <1>1, <2>1, <2>2
<1>4. ASSUME NEW t \in Task, End(t) PROVE NumberInv'
  BY SMT, <1>0, <1>1, <1>4 DEF End, Go, ShapeInv
<1>5. ASSUME NEW t \in Task, NEW c \in Cpu, NEW k \in Kind, BeginStep(t, c, k)
      PROVE NumberInv'
  <2>1. /\ calls' = calls + 1 /\ call'[t] = calls + 1
        /\ \A u \in Task : u # t => step'[u] = step[u] /\ call'[u] = call[u]
    BY <1>5 DEF BeginStep, Begin, Go, ShapeInv
  <2> QED BY SMT, <1>0, <2>1 DEF NumberInv
<1>6. CASE HostStep BY SMT, <1>0, <1>1, <1>6 DEF HostStep, programs
<1>7. CASE Consume BY SMT, <1>0, <1>1, <1>7 DEF Consume, programs
<1>8. CASE UNCHANGED <<step, emission>> BY SMT, <1>0, <1>1, <1>8 DEF emission, programs
<1> QED BY <1>2, <1>3, <1>4, <1>5, <1>6, <1>7, <1>8, RingSteps

(* A step that writes no record keeps what the records say. *)
LEMMA FillQuiet ==
    ASSUME ShapeInv, FillInv, Quiet, calls' \in Nat
    PROVE FillInv'
<1>1. \A p \in Positions : (Rec(p))' = Rec(p) /\ ((Done(p))' <=> Done(p))
  BY DEF Quiet, Same
<1>2. Positions' = Positions /\ calls \in Nat /\ calls <= calls'
  BY DEF Quiet, TasksKept, ShapeInv
<1>3. \A t \in Task : step'[t] \in {"details", "submit"} =>
         /\ step'[t] = step[t] /\ position'[t] = position[t]
         /\ call'[t] = call[t] /\ kind'[t] = kind[t]
  BY DEF Quiet, TasksKept, Holding, Emitting
<1>4. ASSUME NEW t \in Task, NEW p \in Positions', position'[t] = p,
             step'[t] \in {"details", "submit"}
      PROVE (Rec(p))'.header = call'[t] /\ (Rec(p))'.kind = kind'[t]
  BY SMT, <1>1, <1>2, <1>3, <1>4 DEF FillInv
<1>5. ASSUME NEW t \in Task, NEW p \in Positions', position'[t] = p, step'[t] = "submit"
      PROVE /\ (Rec(p))'.details = call'[t]
            /\ (Rec(p))'.file_inode # call'[t] => (Rec(p))'.kind = "mmap"
  BY SMT, <1>1, <1>2, <1>3, <1>5 DEF FillInv
<1>6. ASSUME NEW p \in Positions', (Done(p))'
      PROVE /\ ~(Rec(p))'.busy /\ (Rec(p))'.header \in 1..calls'
            /\ (Rec(p))'.details = (Rec(p))'.header
            /\ (Rec(p))'.file_inode # (Rec(p))'.header => (Rec(p))'.kind = "mmap"
  <2>1. p \in Positions /\ Done(p) /\ (Rec(p))' = Rec(p) BY <1>1, <1>2, <1>6
  <2> QED BY SMT, <1>2, <2>1 DEF FillInv
<1> QED BY <1>4, <1>5, <1>6 DEF FillInv

(* A reservation adds a record about which nothing is claimed yet. *)
LEMMA FillReserve ==
    ASSUME ShapeInv, HoldInv, FillInv, NEW t \in Task, Reserve(t), head - tail < capacity
    PROVE FillInv'
<1>1. PICK n \in Nat : n = head BY DEF ShapeInv
<1>2. /\ Positions' = Positions \cup {n} /\ n \notin Positions /\ ~(Done(n))'
      /\ \A q \in Positions : (Rec(q))' = Rec(q) /\ ((Done(q))' <=> Done(q))
  BY <1>1, ReserveView DEF Same
<1>3. /\ \A u \in Task : step'[u] \in {"details", "submit"} =>
            step'[u] = step[u] /\ position'[u] = position[u] /\ Holding(u)
      /\ UNCHANGED <<calls, call, kind>>
  BY DEF Reserve, Go, ShapeInv, programs, Holding, Emitting
<1>4. \A u \in Task : step'[u] \in {"details", "submit"} => position'[u] \in Positions
  BY SMT, <1>3 DEF HoldInv
<1>5. ASSUME NEW u \in Task, NEW p \in Positions', position'[u] = p,
             step'[u] \in {"details", "submit"}
      PROVE (Rec(p))'.header = call'[u] /\ (Rec(p))'.kind = kind'[u]
  BY SMT, <1>2, <1>3, <1>4, <1>5 DEF FillInv
<1>6. ASSUME NEW u \in Task, NEW p \in Positions', position'[u] = p, step'[u] = "submit"
      PROVE /\ (Rec(p))'.details = call'[u]
            /\ (Rec(p))'.file_inode # call'[u] => (Rec(p))'.kind = "mmap"
  BY SMT, <1>2, <1>3, <1>4, <1>6 DEF FillInv
<1>7. ASSUME NEW p \in Positions', (Done(p))'
      PROVE /\ ~(Rec(p))'.busy /\ (Rec(p))'.header \in 1..calls'
            /\ (Rec(p))'.details = (Rec(p))'.header
            /\ (Rec(p))'.file_inode # (Rec(p))'.header => (Rec(p))'.kind = "mmap"
  <2>1. p \in Positions /\ Done(p) /\ (Rec(p))' = Rec(p) BY <1>2, <1>7
  <2> QED BY SMT, <1>3, <2>1 DEF FillInv
<1> QED BY <1>5, <1>6, <1>7 DEF FillInv

(* What has to be true of the record that a holder writes. *)
LEMMA FillHolder ==
    ASSUME ShapeInv, HoldInv, FillInv, NEW t \in Task, Holding(t), NEW r \in Rcd,
           memory' = [memory EXCEPT ![Slot(position[t])] = r],
           UNCHANGED <<capacity, head, tail, delivered, position, calls, call, kind>>,
           \A u \in Task : u # t => step'[u] = step[u],
           step'[t] \in {"details", "submit"} \/ ~r.busy =>
              r.header = call[t] /\ r.kind = kind[t],
           step'[t] = "submit" \/ ~r.busy =>
              /\ r.details = call[t]
              /\ r.file_inode # call[t] => r.kind = "mmap",
           call[t] \in 1..calls
    PROVE FillInv'
<1>1. PICK n \in Positions :
         /\ position[t] = n /\ Positions' = Positions
         /\ (Rec(n))' = r /\ ((Done(n))' <=> ~r.busy)
         /\ \A q \in Positions : q # n => Same(q)
  BY HolderWrites
<1>2. \A q \in Positions : q # n => (Rec(q))' = Rec(q) /\ ((Done(q))' <=> Done(q))
  BY <1>1 DEF Same
<1>3. \A u \in Task : u # t /\ step'[u] \in {"details", "submit"} => position[u] # n
  BY SMT, <1>1 DEF HoldInv, Holding, Emitting
<1>4. ASSUME NEW u \in Task, NEW p \in Positions', position'[u] = p,
             step'[u] \in {"details", "submit"}
      PROVE (Rec(p))'.header = call'[u] /\ (Rec(p))'.kind = kind'[u]
  <2>1. CASE u = t BY <1>1, <1>4, <2>1
  <2>2. CASE u # t
    <3>1. p \in Positions /\ p # n /\ position[u] = p /\ step[u] \in {"details", "submit"}
      BY <1>1, <1>3, <1>4, <2>2
    <3>2. (Rec(p))' = Rec(p) BY <1>2, <3>1
    <3>3. Rec(p).header = call[u] /\ Rec(p).kind = kind[u] BY <3>1 DEF FillInv
    <3> QED BY <3>2, <3>3
  <2> QED BY <2>1, <2>2
<1>5. ASSUME NEW u \in Task, NEW p \in Positions', position'[u] = p, step'[u] = "submit"
      PROVE /\ (Rec(p))'.details = call'[u]
            /\ (Rec(p))'.file_inode # call'[u] => (Rec(p))'.kind = "mmap"
  <2>1. CASE u = t BY <1>1, <1>5, <2>1
  <2>2. CASE u # t
    <3>1. p \in Positions /\ p # n /\ position[u] = p /\ step[u] = "submit"
      BY <1>1, <1>3, <1>5, <2>2
    <3>2. (Rec(p))' = Rec(p) BY <1>2, <3>1
    <3>3. Rec(p).details = call[u] /\ (Rec(p).file_inode # call[u] => Rec(p).kind = "mmap")
      BY <3>1 DEF FillInv
    <3> QED BY <3>2, <3>3
  <2> QED BY <2>1, <2>2
<1>6. ASSUME NEW p \in Positions', (Done(p))'
      PROVE /\ ~(Rec(p))'.busy /\ (Rec(p))'.header \in 1..calls'
            /\ (Rec(p))'.details = (Rec(p))'.header
            /\ (Rec(p))'.file_inode # (Rec(p))'.header => (Rec(p))'.kind = "mmap"
  <2>1. CASE p = n
    <3>1. (Rec(p))' = r /\ ~r.busy BY <1>1, <1>6, <2>1
    <3> QED BY <3>1
  <2>2. CASE p # n
    <3>1. p \in Positions /\ Done(p) /\ (Rec(p))' = Rec(p) BY <1>1, <1>2, <1>6, <2>2
    <3> QED BY SMT, <3>1 DEF FillInv
  <2> QED BY <2>1, <2>2
<1> QED BY <1>4, <1>5, <1>6 DEF FillInv

(* A step keeps what the records say of the calls that fill them. *)
LEMMA FillStep ==
    ASSUME ShapeInv, HoldInv, NumberInv, FillInv, [Next]_vars
    PROVE FillInv'
<1>0. calls' \in Nat BY ShapeStep DEF ShapeInv
<1>1. CASE Quiet BY <1>0, <1>1, FillQuiet
<1>2. ASSUME NEW t \in Task, StoreCounter(t) PROVE FillInv'
  <2>1. PICK r \in Rcd : /\ memory' = [memory EXCEPT ![Slot(position[t])] = r]
                         /\ r.busy = memory[Slot(position[t])].busy
                         /\ r.header = call[t] /\ r.kind = kind[t]
    BY <1>2, StoreWrites
  <2>2. /\ Holding(t) /\ step'[t] = "details" /\ call[t] \in 1..calls
        /\ \A u \in Task : u # t => step'[u] = step[u]
        /\ UNCHANGED <<capacity, head, tail, delivered, position, calls, call, kind>>
    BY <1>2 DEF StoreCounter, Go, Holding, Emitting, NumberInv, ShapeInv, programs, locals
  <2>3. r.busy BY <2>1, <2>2, HolderWrites DEF Done
  <2> QED BY <2>1, <2>2, <2>3, FillHolder
<1>3. ASSUME NEW t \in Task, FillDetails(t) PROVE FillInv'
  <2>1. PICK r \in Rcd : /\ memory' = [memory EXCEPT ![Slot(position[t])] = r]
                         /\ r.busy = memory[Slot(position[t])].busy
                         /\ r.header = memory[Slot(position[t])].header
                         /\ r.kind = memory[Slot(position[t])].kind
                         /\ r.details = call[t]
                         /\ r.file_inode # call[t] => kind[t] = "mmap"
    BY <1>3, FillWrites
  <2>2. /\ Holding(t) /\ step[t] = "details" /\ call[t] \in 1..calls
        /\ \A u \in Task : u # t => step'[u] = step[u]
        /\ UNCHANGED <<capacity, head, tail, delivered, position, calls, call, kind>>
    BY <1>3 DEF FillDetails, Go, Holding, Emitting, NumberInv, ShapeInv, programs, locals
  <2>3. PICK p \in Positions : /\ position[t] = p /\ ~Done(p)
                               /\ Rec(p) = memory[Slot(position[t])]
    BY <2>1, <2>2, HolderWrites
  <2>4. r.busy /\ r.header = call[t] /\ r.kind = kind[t]
    BY SMT, <2>1, <2>2, <2>3 DEF Done, FillInv
  <2> QED BY <2>1, <2>2, <2>4, FillHolder
<1>4. ASSUME NEW t \in Task, Submit(t) PROVE FillInv'
  <2>1. PICK r \in Rcd : /\ memory' = [memory EXCEPT ![Slot(position[t])] = r]
                         /\ r.header = memory[Slot(position[t])].header
                         /\ r.kind = memory[Slot(position[t])].kind
                         /\ r.details = memory[Slot(position[t])].details
                         /\ r.file_inode = memory[Slot(position[t])].file_inode
    BY <1>4, SubmitWrites
  <2>2. /\ Holding(t) /\ step[t] = "submit" /\ call[t] \in 1..calls
        /\ \A u \in Task : u # t => step'[u] = step[u]
        /\ UNCHANGED <<capacity, head, tail, delivered, position, calls, call, kind>>
    BY <1>4 DEF Submit, Go, Holding, Emitting, NumberInv, ShapeInv, programs, locals
  <2>3. PICK p \in Positions : position[t] = p /\ Rec(p) = memory[Slot(position[t])]
    BY <2>1, <2>2, HolderWrites
  <2>4. /\ r.header = call[t] /\ r.kind = kind[t] /\ r.details = call[t]
        /\ r.file_inode # call[t] => r.kind = "mmap"
    BY SMT, <2>1, <2>2, <2>3 DEF FillInv
  <2> QED BY <2>1, <2>2, <2>4, FillHolder
<1>5. ASSUME NEW t \in Task, Emit(t) PROVE FillInv'
  BY <1>1, <1>2, <1>3, <1>4, <1>5, FillReserve, QuietSteps DEF Emit
<1> QED BY <1>1, <1>5, RingSteps, QuietSteps
-----------------------------------------------------------------------------
(* Complete: the calls whose events are at a position and complete. *)
LEMMA CompleteAt ==
    ASSUME ShapeInv, NEW m \in Complete
    PROVE \E p \in Positions : Done(p) /\ Rec(p).header = m
<1>1. tail \in Nat /\ head \in Nat /\ tail <= head /\ Len(delivered) = tail BY DEF ShapeInv
<1>2. CASE \E p \in {q \in tail..(head - 1) : ~memory[Slot(q)].busy} :
              memory[Slot(p)].header = m
  BY SMT, <1>1, <1>2 DEF Positions, Done, Rec
<1>3. CASE \E i \in 1..Len(delivered) : delivered[i].header = m
  <2>1. PICK i \in 1..Len(delivered) : delivered[i].header = m BY <1>3
  <2>2. i - 1 \in Positions /\ i - 1 < tail /\ (i - 1) + 1 = i BY SMT, <1>1, <2>1 DEF Positions
  <2>3. Done(i - 1) /\ Rec(i - 1).header = m BY <2>1, <2>2 DEF Done, Rec
  <2> QED BY <2>2, <2>3
<1> QED BY <1>2, <1>3 DEF Complete

(* A step that completes no event and begins no call keeps the order. *)
LEMMA OrderKept ==
    ASSUME ShapeInv, OrderInv, RingKept, TasksKept, submitted' = submitted, calls' \in Nat,
           \A t \in Task : step'[t] \notin {"idle", "return"} =>
              step[t] \notin {"idle", "return"} /\ call'[t] = call[t]
    PROVE OrderInv'
<1>1. calls \in Nat /\ calls <= calls' BY DEF ShapeInv, TasksKept
<1>2. Positions' = Positions BY DEF RingKept
<1>3. \A p \in Positions : ((Done(p))' <=> Done(p)) /\ (Done(p) => (Rec(p))' = Rec(p))
  BY DEF RingKept
<1>4. \A t \in Task : (Holding(t))' =>
         Holding(t) /\ position'[t] = position[t] /\ call'[t] = call[t]
  BY DEF TasksKept
<1>5. ASSUME NEW s \in submitted'
      PROVE s[2] \in 1..calls' /\ \E p \in Positions' : (Done(p))' /\ (Rec(p))'.header = s[1]
  <2>1. s[2] \in 1..calls' BY SMT, <1>1 DEF OrderInv
  <2>2. PICK p \in Positions : Done(p) /\ Rec(p).header = s[1] BY DEF OrderInv
  <2> QED BY <1>2, <1>3, <2>1, <2>2
<1>6. ASSUME NEW t \in Task, NEW p \in Positions', step'[t] \notin {"idle", "return"}, (Done(p))'
      PROVE (Rec(p))'.header # call'[t]
  BY <1>2, <1>3, <1>6 DEF OrderInv
<1>7. ASSUME NEW s \in submitted', NEW p \in Positions', NEW q \in Positions',
             (Done(p))', (Rec(p))'.header = s[1], (Done(q))', (Rec(q))'.header = s[2]
      PROVE p < q
  <2>1. Done(p) /\ Rec(p).header = s[1] /\ Done(q) /\ Rec(q).header = s[2]
    BY <1>2, <1>3, <1>7
  <2> QED BY <1>2, <2>1 DEF OrderInv
<1>8. ASSUME NEW s \in submitted', NEW p \in Positions', NEW t \in Task,
             (Done(p))', (Rec(p))'.header = s[1], (Holding(t))', call'[t] = s[2]
      PROVE p < position'[t]
  <2>1. Done(p) /\ Rec(p).header = s[1] BY <1>2, <1>3, <1>8
  <2> QED BY SMT, <1>2, <1>4, <1>8, <2>1 DEF OrderInv
<1> QED BY <1>5, <1>6, <1>7, <1>8 DEF OrderInv

(* A call that begins is later than every event that is complete, and has  *)
(* no event yet.                                                           *)
LEMMA OrderBegin ==
    ASSUME ShapeInv, NumberInv, FillInv, OrderInv,
           NEW t \in Task, NEW c \in Cpu, NEW k \in Kind, BeginStep(t, c, k)
    PROVE OrderInv'
<1>0. calls \in Nat BY DEF ShapeInv
<1>1. /\ calls' = calls + 1 /\ call'[t] = calls + 1
      /\ submitted' = submitted \cup (Complete \X {calls + 1})
      /\ \A u \in Task : u # t => step'[u] = step[u] /\ call'[u] = call[u]
      /\ step'[t] \in {"trusted", "reserve"} /\ position' = position
  BY DEF BeginStep, Begin, Go, ShapeInv, locals
<1>2. /\ Positions' = Positions
      /\ \A p \in Positions : (Rec(p))' = Rec(p) /\ ((Done(p))' <=> Done(p))
  BY QuietSteps DEF Quiet, Same
<1>3. \A p \in Positions : Done(p) => Rec(p).header \in 1..calls BY DEF FillInv
<1>4. \A u \in Task : (Holding(u))' => Holding(u) /\ u # t /\ call'[u] \in 1..calls
  BY <1>1 DEF Holding, Emitting, NumberInv
<1>5. \A s \in submitted' : s \in submitted \/ (s[1] \in Complete /\ s[2] = calls + 1)
  BY <1>1
<1>6. ASSUME NEW s \in submitted'
      PROVE s[2] \in 1..calls' /\ \E p \in Positions' : (Done(p))' /\ (Rec(p))'.header = s[1]
  <2>1. s[2] \in 1..calls' BY SMT, <1>0, <1>1, <1>5 DEF OrderInv
  <2>2. PICK p \in Positions : Done(p) /\ Rec(p).header = s[1]
    BY <1>5, CompleteAt DEF OrderInv
  <2> QED BY <1>2, <2>1, <2>2
<1>7. ASSUME NEW u \in Task, NEW p \in Positions', step'[u] \notin {"idle", "return"}, (Done(p))'
      PROVE (Rec(p))'.header # call'[u]
  <2>1. p \in Positions /\ Done(p) /\ (Rec(p))' = Rec(p) BY <1>2, <1>7
  <2>2. CASE u = t BY SMT, <1>0, <1>1, <1>3, <2>1, <2>2
  <2>3. CASE u # t BY SMT, <1>1, <1>7, <2>1, <2>3 DEF OrderInv
  <2> QED BY <2>2, <2>3
<1>8. ASSUME NEW s \in submitted', NEW p \in Positions', NEW q \in Positions',
             (Done(p))', (Rec(p))'.header = s[1], (Done(q))', (Rec(q))'.header = s[2]
      PROVE p < q
  <2>1. p \in Positions /\ q \in Positions /\ Done(p) /\ Rec(p).header = s[1]
        /\ Done(q) /\ Rec(q).header = s[2]
    BY <1>2, <1>8
  <2>2. s \in submitted BY SMT, <1>0, <1>3, <1>5, <2>1
  <2> QED BY <2>1, <2>2 DEF OrderInv
<1>9. ASSUME NEW s \in submitted', NEW p \in Positions', NEW u \in Task,
             (Done(p))', (Rec(p))'.header = s[1], (Holding(u))', call'[u] = s[2]
      PROVE p < position'[u]
  <2>1. p \in Positions /\ Done(p) /\ Rec(p).header = s[1] BY <1>2, <1>9
  <2>2. s \in submitted BY SMT, <1>0, <1>4, <1>5, <1>9
  <2> QED BY SMT, <1>1, <1>4, <1>9, <2>1, <2>2 DEF OrderInv
<1> QED BY <1>6, <1>7, <1>8, <1>9 DEF OrderInv

(* A reservation is behind every event there is. *)
LEMMA OrderReserve ==
    ASSUME ShapeInv, OrderInv, NEW t \in Task, Reserve(t), head - tail < capacity
    PROVE OrderInv'
<1>1. PICK n \in Nat : n = head BY DEF ShapeInv
<1>2. /\ Positions' = Positions \cup {n} /\ ~(Done(n))'
      /\ \A q \in Positions : (Rec(q))' = Rec(q) /\ ((Done(q))' <=> Done(q))
  BY <1>1, ReserveView DEF Same
<1>3. /\ step[t] = "reserve" /\ position'[t] = n
      /\ \A u \in Task : u # t => step'[u] = step[u] /\ position'[u] = position[u]
      /\ UNCHANGED <<calls, call, submitted>>
  BY <1>1 DEF Reserve, Go, ShapeInv, programs
<1>4. \A p \in Positions' : (Done(p))' => p \in Positions /\ Done(p) /\ (Rec(p))' = Rec(p)
  BY <1>2
<1>5. ASSUME NEW s \in submitted'
      PROVE s[2] \in 1..calls' /\ \E p \in Positions' : (Done(p))' /\ (Rec(p))'.header = s[1]
  BY SMT, <1>2, <1>3 DEF OrderInv
<1>6. ASSUME NEW u \in Task, NEW p \in Positions', step'[u] \notin {"idle", "return"}, (Done(p))'
      PROVE (Rec(p))'.header # call'[u]
  BY <1>3, <1>4, <1>6 DEF OrderInv
<1>7. ASSUME NEW s \in submitted', NEW p \in Positions', NEW q \in Positions',
             (Done(p))', (Rec(p))'.header = s[1], (Done(q))', (Rec(q))'.header = s[2]
      PROVE p < q
  BY <1>3, <1>4, <1>7 DEF OrderInv
<1>8. ASSUME NEW s \in submitted', NEW p \in Positions', NEW u \in Task,
             (Done(p))', (Rec(p))'.header = s[1], (Holding(u))', call'[u] = s[2]
      PROVE p < position'[u]
  <2>1. CASE u = t BY SMT, <1>1, <1>3, <1>4, <1>8, <2>1 DEF Positions
  <2>2. CASE u # t BY SMT, <1>3, <1>4, <1>8, <2>2 DEF OrderInv, Holding
  <2> QED BY <2>1, <2>2
<1> QED BY <1>5, <1>6, <1>7, <1>8 DEF OrderInv

(* A submission completes the event of a call that was behind every event  *)
(* complete at its beginning, and ahead of none: no call has it as an      *)
(* earlier one yet.                                                        *)
LEMMA OrderSubmit ==
    ASSUME ShapeInv, HoldInv, NumberInv, FillInv, OrderInv, NEW t \in Task, Submit(t)
    PROVE OrderInv'
<1>1. PICK r \in Rcd : /\ memory' = [memory EXCEPT ![Slot(position[t])] = r] /\ ~r.busy
                       /\ r.header = memory[Slot(position[t])].header
  BY SubmitWrites
<1>2. /\ Holding(t) /\ step[t] = "submit" /\ step'[t] = "return"
      /\ \A u \in Task : u # t => step'[u] = step[u]
      /\ UNCHANGED <<capacity, head, tail, delivered, position, calls, call, submitted>>
  BY DEF Submit, Go, Holding, Emitting, ShapeInv, programs, locals
<1>3. PICK n \in Positions :
         /\ position[t] = n /\ ~Done(n) /\ Positions' = Positions
         /\ Rec(n) = memory[Slot(position[t])] /\ (Rec(n))' = r /\ (Done(n))'
         /\ \A q \in Positions : q # n => Same(q)
  BY <1>1, <1>2, HolderWrites
<1>4. (Rec(n))'.header = call[t] BY SMT, <1>1, <1>2, <1>3 DEF FillInv
<1>5. \A q \in Positions : q # n => (Rec(q))' = Rec(q) /\ ((Done(q))' <=> Done(q))
  BY <1>3 DEF Same
<1>6. \A s \in submitted : s[1] # call[t] BY <1>2 DEF OrderInv
<1>7. \A u \in Task : u # t /\ step[u] # "idle" => call[u] # call[t] BY <1>2 DEF NumberInv
<1>8. ASSUME NEW s \in submitted'
      PROVE s[2] \in 1..calls' /\ \E p \in Positions' : (Done(p))' /\ (Rec(p))'.header = s[1]
  <2>1. PICK p \in Positions : Done(p) /\ Rec(p).header = s[1] BY <1>2 DEF OrderInv
  <2> QED BY <1>2, <1>3, <1>5, <2>1 DEF OrderInv
<1>9. ASSUME NEW u \in Task, NEW p \in Positions', step'[u] \notin {"idle", "return"}, (Done(p))'
      PROVE (Rec(p))'.header # call'[u]
  <2>1. u # t /\ step[u] \notin {"idle", "return"} /\ call'[u] = call[u] BY <1>2, <1>9
  <2>2. CASE p = n BY <1>4, <1>7, <2>1, <2>2
  <2>3. CASE p # n BY <1>3, <1>5, <1>9, <2>1, <2>3 DEF OrderInv
  <2> QED BY <2>2, <2>3
<1>10. ASSUME NEW s \in submitted', NEW p \in Positions', NEW q \in Positions',
              (Done(p))', (Rec(p))'.header = s[1], (Done(q))', (Rec(q))'.header = s[2]
       PROVE p < q
  <2>1. s \in submitted /\ p # n BY <1>2, <1>4, <1>6, <1>10
  <2>2. p \in Positions /\ Done(p) /\ Rec(p).header = s[1] BY <1>3, <1>5, <1>10, <2>1
  <2>3. CASE q = n
    <3>1. call[t] = s[2] BY <1>4, <1>10, <2>3
    <3> QED BY <1>2, <1>3, <2>1, <2>2, <2>3, <3>1 DEF OrderInv
  <2>4. CASE q # n
    <3>1. q \in Positions /\ Done(q) /\ Rec(q).header = s[2] BY <1>3, <1>5, <1>10, <2>4
    <3> QED BY <2>1, <2>2, <3>1 DEF OrderInv
  <2> QED BY <2>3, <2>4
<1>11. ASSUME NEW s \in submitted', NEW p \in Positions', NEW u \in Task,
              (Done(p))', (Rec(p))'.header = s[1], (Holding(u))', call'[u] = s[2]
       PROVE p < position'[u]
  <2>1. s \in submitted /\ p # n BY <1>2, <1>4, <1>6, <1>11
  <2>2. p \in Positions /\ Done(p) /\ Rec(p).header = s[1] BY <1>3, <1>5, <1>11, <2>1
  <2>3. Holding(u) BY <1>2, <1>11 DEF Holding
  <2> QED BY <1>2, <1>11, <2>1, <2>2, <2>3 DEF OrderInv
<1> QED BY <1>8, <1>9, <1>10, <1>11 DEF OrderInv

(* A step keeps the order of the events. *)
LEMMA OrderStep ==
    ASSUME ShapeInv, HoldInv, NumberInv, FillInv, OrderInv, [Next]_vars
    PROVE OrderInv'
<1>0. calls' \in Nat BY ShapeStep DEF ShapeInv
<1>1. ASSUME NEW t \in Task, ReadStep(t) PROVE OrderInv'
  <2>1. /\ submitted' = submitted /\ call' = call
        /\ \A u \in Task : step'[u] \notin {"idle", "return"} => step[u] \notin {"idle", "return"}
    BY <1>1 DEF ReadStep, Go, Looking, Reading, ShapeInv, emission, programs, ringVars
  <2> QED BY <1>0, <1>1, <2>1, QuietSteps, QuietKeeps, OrderKept DEF Quiet
<1>2. ASSUME NEW t \in Task, Emit(t) PROVE OrderInv'
  <2>1. CASE Reserve(t) /\ head - tail < capacity BY <2>1, OrderReserve
  <2>2. CASE Submit(t) BY <2>2, OrderSubmit
  <2>3. CASE ~(Reserve(t) /\ head - tail < capacity) /\ ~Submit(t)
    <3>1. /\ submitted' = submitted /\ call' = call
          /\ step[t] \notin {"idle", "return"}
          /\ \A u \in Task : u # t => step'[u] = step[u]
      BY <1>2 DEF Emit, Reserve, LoadCounter, StoreCounter, FillDetails, Submit, Go,
                  ShapeInv, programs, ringVars
    <3>2. RingKept /\ TasksKept
      BY <1>2, <2>3, QuietSteps, QuietKeeps, WritesKeep DEF Emit, Quiet
    <3> QED BY <1>0, <3>1, <3>2, OrderKept
  <2> QED BY <2>1, <2>2, <2>3
<1>3. ASSUME NEW t \in Task, End(t) PROVE OrderInv'
  <2>1. /\ submitted' = submitted
        /\ \A u \in Task : step'[u] \notin {"idle", "return"} =>
              step[u] \notin {"idle", "return"} /\ call'[u] = call[u]
    BY <1>3 DEF End, Go, ShapeInv, ringVars
  <2> QED BY <1>0, <1>3, <2>1, QuietSteps, QuietKeeps, OrderKept DEF Quiet
<1>4. CASE HostStep \/ Consume \/ UNCHANGED <<step, emission>>
  <2>1. UNCHANGED <<submitted, call, step>>
    BY <1>4 DEF HostStep, Consume, emission, programs, ringVars
  <2> QED BY <1>0, <1>4, <2>1, QuietSteps, QuietKeeps, OrderKept DEF Quiet
<1> QED BY <1>1, <1>2, <1>3, <1>4, OrderBegin, RingSteps

(* The inductive invariant of the ring: every event that is not complete   *)
(* has one owner, every complete one is intact and in its place.           *)
THEOREM RingAlwaysKept == Spec => []RingInv
<1>1. Init => RingInv
  <2> SUFFICES ASSUME Init PROVE RingInv OBVIOUS
  <2>1. ShapeInv BY ShapeInit
  <2>2. /\ Positions = {} /\ submitted = {}
        /\ \A t \in Task : step[t] = "idle" /\ ~Holding(t)
    BY SMT DEF Init, RingInit, Positions, Holding, Emitting
  <2> QED BY <2>1, <2>2 DEF RingInv, HoldInv, NumberInv, FillInv, OrderInv
<1>2. RingInv /\ [Next]_vars => RingInv'
  BY ShapeStep, HoldStep, NumberStep, FillStep, OrderStep DEF RingInv
<1> QED BY <1>1, <1>2, PTL DEF Spec

(* The step numbers no event, and changes no number. *)
NumbersKept ==
    \A c \in Cpu : /\ (OfCpu(c))' = OfCpu(c)
                   /\ \A p \in OfCpu(c) : (Rec(p))'.seq = Rec(p).seq

(* Only StoreCounter numbers an event. *)
LEMMA NumbersKeptSteps ==
    ASSUME ShapeInv, HoldInv, [Next]_vars, \A t \in Task : ~StoreCounter(t)
    PROVE NumbersKept
<1>1. CASE Quiet
  <2>1. /\ Positions' = Positions
        /\ \A p \in Positions : (Rec(p))' = Rec(p) /\ ((Done(p))' <=> Done(p))
    BY <1>1 DEF Quiet, Same
  <2>2. \A t \in Task :
           step[t] \in {"details", "submit"} \/ step'[t] \in {"details", "submit"}
           => step'[t] = step[t] /\ position'[t] = position[t]
    BY <1>1 DEF Quiet, TasksKept, Holding, Emitting
  <2>3. \A p \in Positions : (Numbered(p))' <=> Numbered(p) BY <2>1, <2>2 DEF Numbered
  <2> QED BY <2>1, <2>3 DEF NumbersKept, OfCpu
<1>2. ASSUME NEW t \in Task, Reserve(t), head - tail < capacity PROVE NumbersKept
  <2>1. PICK n \in Nat : n = head BY DEF ShapeInv
  <2>2. /\ Positions' = Positions \cup {n} /\ n \notin Positions /\ ~(Done(n))'
        /\ \A p \in Positions : (Rec(p))' = Rec(p) /\ ((Done(p))' <=> Done(p))
    BY <1>2, <2>1, ReserveView DEF Same
  <2>3. \A u \in Task :
           step[u] \in {"details", "submit"} \/ step'[u] \in {"details", "submit"}
           => step'[u] = step[u] /\ position'[u] = position[u] /\ Holding(u)
    BY <1>2 DEF Reserve, Go, ShapeInv, Holding, Emitting
  <2>4. \A p \in Positions : (Numbered(p))' <=> Numbered(p) BY <2>2, <2>3 DEF Numbered
  <2>5. ~(Numbered(n))' BY SMT, <2>2, <2>3 DEF Numbered, HoldInv
  <2> QED BY <2>2, <2>4, <2>5 DEF NumbersKept, OfCpu
<1>3. ASSUME NEW t \in Task, FillDetails(t) \/ Submit(t) PROVE NumbersKept
  <2>1. PICK r \in Rcd : /\ memory' = [memory EXCEPT ![Slot(position[t])] = r]
                         /\ r.cpu = memory[Slot(position[t])].cpu
                         /\ r.seq = memory[Slot(position[t])].seq
                         /\ Submit(t) => ~r.busy
    BY <1>3, FillWrites, SubmitWrites DEF FillDetails, Submit
  <2>2. /\ Holding(t) /\ step[t] \in {"details", "submit"}
        /\ step'[t] = "submit" \/ Submit(t)
        /\ \A u \in Task : u # t => step'[u] = step[u]
        /\ UNCHANGED <<capacity, head, tail, delivered, position>>
    BY <1>3 DEF FillDetails, Submit, Go, Holding, Emitting, ShapeInv, locals
  <2>3. PICK n \in Positions :
           /\ position[t] = n /\ Rec(n) = memory[Slot(position[t])] /\ Positions' = Positions
           /\ (Rec(n))' = r /\ ((Done(n))' <=> ~r.busy)
           /\ \A q \in Positions : q # n => Same(q)
    BY <2>1, <2>2, HolderWrites
  <2>4. Numbered(n) /\ (Numbered(n))' BY <2>1, <2>2, <2>3 DEF Numbered
  <2>5. \A p \in Positions : p # n =>
           ((Done(p))' <=> Done(p)) /\ (Rec(p))' = Rec(p)
    BY <2>3 DEF Same
  <2>6. \A p \in Positions : p # n => ((Numbered(p))' <=> Numbered(p))
    BY <2>2, <2>3, <2>5 DEF Numbered
  <2>7. (Rec(n))'.cpu = Rec(n).cpu /\ (Rec(n))'.seq = Rec(n).seq BY <2>1, <2>3
  <2> QED BY <2>3, <2>4, <2>5, <2>6, <2>7 DEF NumbersKept, OfCpu
<1>4. ASSUME NEW t \in Task, Emit(t) PROVE NumbersKept
  BY <1>1, <1>2, <1>3, <1>4, QuietSteps DEF Emit
<1> QED BY <1>1, <1>4, RingSteps, QuietSteps

(* preempted: a CPU is alone with one call until a call preempts another,  *)
(* so that the counter does not change between its load and its store.     *)
LEMMA AloneStep ==
    ASSUME ShapeInv, SeqInv, [Next]_vars
    PROVE preempted \subseteq preempted' /\ \A c \in Cpu \ preempted' : (AloneOn(c))'
<1> DEFINE Goal == /\ preempted \subseteq preempted'
                   /\ \A c \in Cpu \ preempted' : (AloneOn(c))'
<1>1. ASSUME preempted' = preempted,
             \A t \in Task : step'[t] # "idle" => step[t] # "idle" /\ cpu'[t] = cpu[t],
             \A t \in Task : step'[t] = "store" => step[t] = "store" /\ count'[t] = count[t],
             seq_counter' = seq_counter
      PROVE Goal
  BY SMT, <1>1 DEF SeqInv, AloneOn
<1>2. ASSUME NEW t \in Task, ReadStep(t) PROVE Goal
  BY <1>1, <1>2 DEF ReadStep, Go, Looking, Reading, ShapeInv, emission, programs, locals
<1>3. ASSUME NEW t \in Task, End(t) PROVE Goal
  BY <1>1, <1>3 DEF End, Go, ShapeInv
<1>4. ASSUME NEW t \in Task, Reserve(t) \/ FillDetails(t) \/ Submit(t)
      PROVE Goal
  <2>1. /\ UNCHANGED <<preempted, cpu, count, seq_counter>>
        /\ step[t] # "idle" /\ step'[t] # "store"
        /\ \A u \in Task : u # t => step'[u] = step[u]
    BY <1>4 DEF Reserve, FillDetails, Submit, Go, ShapeInv, programs, locals
  <2> QED BY <1>1, <2>1
<1>5. ASSUME NEW t \in Task, LoadCounter(t) PROVE Goal
  <2>1. /\ UNCHANGED <<preempted, cpu, seq_counter>> /\ step[t] # "idle"
        /\ count'[t] = seq_counter[cpu[t]]
        /\ \A u \in Task : u # t => step'[u] = step[u] /\ count'[u] = count[u]
    BY <1>5 DEF LoadCounter, Go, ShapeInv, programs
  <2> QED BY SMT, <2>1 DEF SeqInv, AloneOn
<1>6. ASSUME NEW t \in Task, StoreCounter(t) PROVE Goal
  <2>1. /\ UNCHANGED <<preempted, cpu, count>> /\ step[t] = "store" /\ step'[t] = "details"
        /\ \A u \in Task : u # t => step'[u] = step[u]
        /\ \A c \in Cpu : c # cpu[t] => seq_counter'[c] = seq_counter[c]
    BY <1>6 DEF StoreCounter, Go, ShapeInv, programs, locals
  <2> QED BY SMT, <2>1 DEF SeqInv, AloneOn
<1>7. ASSUME NEW t \in Task, NEW d \in Cpu, NEW k \in Kind, BeginStep(t, d, k)
      PROVE Goal
  <2>1. /\ UNCHANGED <<count, seq_counter>> /\ cpu'[t] = d
        /\ step[t] = "idle" /\ step'[t] # "store"
        /\ \A u \in Task : u # t => step'[u] = step[u] /\ cpu'[u] = cpu[u]
        /\ preempted \subseteq preempted'
        /\ On(d) = {} \/ d \in preempted'
    BY <1>7 DEF BeginStep, Begin, Go, ShapeInv, locals
  <2>2. d \notin preempted' => \A u \in Task : step[u] # "idle" => cpu[u] # d
    BY <2>1 DEF On, Active
  <2>3. ASSUME NEW c \in Cpu \ preempted' PROVE (AloneOn(c))'
    BY SMT, <2>1, <2>2 DEF SeqInv, AloneOn
  <2> QED BY <2>1, <2>3
<1>8. CASE HostStep \/ Consume \/ UNCHANGED <<step, emission>>
  <2>1. UNCHANGED <<step, cpu, count, seq_counter, preempted>>
    BY <1>8 DEF HostStep, Consume, emission, programs, locals
  <2> QED BY <1>1, <2>1
<1> QED BY <1>2, <1>3, <1>4, <1>5, <1>6, <1>7, <1>8, RingSteps DEF Emit

(* A step that numbers no event keeps the numbers of a CPU. *)
LEMMA SeqKept ==
    ASSUME NumbersKept, NEW c \in Cpu, SeqOf(c), seq_counter'[c] = seq_counter[c],
           \A t \in Task : step'[t] \in {"load", "store"} /\ cpu'[t] = c =>
              \/ step[t] \in {"load", "store"} /\ cpu[t] = c /\ position'[t] = position[t]
              \/ \A p \in OfCpu(c) : p < position'[t]
    PROVE (SeqOf(c))'
<1>1. (OfCpu(c))' = OfCpu(c) /\ \A p \in OfCpu(c) : (Rec(p))'.seq = Rec(p).seq
  BY DEF NumbersKept
<1>2. \A t \in Task : step'[t] \in {"load", "store"} /\ cpu'[t] = c =>
         \A p \in (OfCpu(c))' : p < position'[t]
  BY <1>1 DEF SeqOf
<1>3. \A p \in (OfCpu(c))' : (Rec(p))'.seq \in 1..seq_counter'[c] BY <1>1 DEF SeqOf
<1>4. \A p, q \in (OfCpu(c))' : p < q => (Rec(p))'.seq < (Rec(q))'.seq BY SMT, <1>1 DEF SeqOf
<1>5. \A n \in 1..seq_counter'[c] : \E p \in (OfCpu(c))' : (Rec(p))'.seq = n
  BY <1>1 DEF SeqOf
<1> QED BY <1>2, <1>3, <1>4, <1>5 DEF SeqOf

(* next_seq gives the event of the only call on its CPU the next number;   *)
(* its record is behind those of the CPU that have one.                    *)
LEMMA SeqStore ==
    ASSUME ShapeInv, HoldInv, NEW t \in Task, StoreCounter(t),
           NEW c \in Cpu, AloneOn(c), SeqOf(c)
    PROVE (SeqOf(c))'
<1>1. PICK r \in Rcd : /\ memory' = [memory EXCEPT ![Slot(position[t])] = r]
                       /\ r.busy = memory[Slot(position[t])].busy
                       /\ r.cpu = cpu[t] /\ r.seq = count[t] + 1
  BY StoreWrites
<1>2. /\ Holding(t) /\ step[t] = "store" /\ step'[t] = "details" /\ cpu' = cpu
      /\ \A u \in Task : u # t => step'[u] = step[u]
      /\ UNCHANGED <<capacity, head, tail, delivered, position>>
      /\ seq_counter' = [seq_counter EXCEPT ![cpu[t]] = count[t] + 1]
  BY DEF StoreCounter, Go, Holding, Emitting, ShapeInv, programs, locals
<1>3. PICK n \in Positions :
         /\ position[t] = n /\ ~Done(n) /\ Positions' = Positions /\ (Rec(n))' = r
         /\ \A q \in Positions : q # n => Same(q)
  BY <1>1, <1>2, HolderWrites
<1>4. \A p \in Positions : p # n => ((Done(p))' <=> Done(p)) /\ (Rec(p))' = Rec(p)
  BY <1>3 DEF Same
<1>5. (Numbered(n))' BY <1>2, <1>3 DEF Numbered
<1>6. ~Numbered(n) BY <1>2, <1>3 DEF Numbered, HoldInv, Holding, Emitting
<1>7. \A p \in Positions : p # n => ((Numbered(p))' <=> Numbered(p))
  BY <1>2, <1>3, <1>4 DEF Numbered
<1>8. CASE cpu[t] # c
  <2>1. /\ (OfCpu(c))' = OfCpu(c) /\ \A p \in OfCpu(c) : (Rec(p))' = Rec(p)
    BY <1>1, <1>3, <1>4, <1>6, <1>7, <1>8 DEF OfCpu
  <2>2. seq_counter'[c] = seq_counter[c] BY <1>2, <1>8 DEF ShapeInv
  <2>3. \A u \in Task : step'[u] \in {"load", "store"} /\ cpu'[u] = c =>
           \A p \in (OfCpu(c))' : p < position'[u]
    BY <1>2, <2>1 DEF SeqOf
  <2>4. \A p \in (OfCpu(c))' : (Rec(p))'.seq \in 1..seq_counter'[c] BY <2>1, <2>2 DEF SeqOf
  <2>5. \A p, q \in (OfCpu(c))' : p < q => (Rec(p))'.seq < (Rec(q))'.seq BY SMT, <2>1 DEF SeqOf
  <2>6. \A m \in 1..seq_counter'[c] : \E p \in (OfCpu(c))' : (Rec(p))'.seq = m
    BY <2>1, <2>2 DEF SeqOf
  <2> QED BY <2>3, <2>4, <2>5, <2>6 DEF SeqOf
<1>9. CASE cpu[t] = c
  <2>1. seq_counter[c] \in Nat /\ count[t] = seq_counter[c] BY <1>2, <1>9 DEF ShapeInv, AloneOn
  <2>2. seq_counter'[c] = seq_counter[c] + 1 BY <1>2, <1>9, <2>1 DEF ShapeInv
  <2>3. /\ (OfCpu(c))' = OfCpu(c) \cup {n} /\ n \notin OfCpu(c)
        /\ \A p \in OfCpu(c) : (Rec(p))' = Rec(p)
    BY <1>1, <1>3, <1>4, <1>5, <1>6, <1>7, <1>9 DEF OfCpu
  <2>4. (Rec(n))'.seq = seq_counter[c] + 1 BY <1>1, <1>3, <2>1
  <2>5. \A p \in OfCpu(c) : p < n BY <1>2, <1>3, <1>9 DEF SeqOf
  <2>6. \A u \in Task : step'[u] \in {"load", "store"} /\ cpu'[u] = c => FALSE
    BY <1>2, <1>9 DEF AloneOn
  <2>7. \A p \in OfCpu(c) : Rec(p).seq \in 1..seq_counter[c] BY DEF SeqOf
  <2>8. \A p \in (OfCpu(c))' : (Rec(p))'.seq \in 1..seq_counter'[c]
    BY SMT, <2>1, <2>2, <2>3, <2>4, <2>7
  <2>9. ASSUME NEW p \in (OfCpu(c))', NEW q \in (OfCpu(c))', p < q
        PROVE (Rec(p))'.seq < (Rec(q))'.seq
    <3>0. n \in Int /\ \A i \in OfCpu(c) : i \in Int BY SMT DEF OfCpu, Positions
    <3>1. p \in OfCpu(c) BY SMT, <2>3, <2>5, <2>9, <3>0
    <3>2. CASE q = n BY SMT, <2>1, <2>3, <2>4, <2>7, <3>1, <3>2
    <3>3. CASE q # n BY <2>3, <2>9, <3>1, <3>3 DEF SeqOf
    <3> QED BY <3>2, <3>3
  <2>10. ASSUME NEW m \in 1..seq_counter'[c]
         PROVE \E p \in (OfCpu(c))' : (Rec(p))'.seq = m
    <3>1. CASE m = seq_counter[c] + 1 BY <2>3, <2>4, <3>1
    <3>2. CASE m # seq_counter[c] + 1
      <4>1. m \in 1..seq_counter[c] BY SMT, <2>1, <2>2, <3>2
      <4> QED BY <2>3, <4>1 DEF SeqOf
    <3> QED BY <3>1, <3>2
  <2> QED BY <2>6, <2>8, <2>9, <2>10 DEF SeqOf
<1> QED BY <1>8, <1>9

(* A step keeps the numbers of every CPU without preemption. *)
LEMMA SeqStep ==
    ASSUME ShapeInv, HoldInv, SeqInv, [Next]_vars
    PROVE SeqInv'
<1>0. preempted \subseteq preempted' /\ \A c \in Cpu \ preempted' : (AloneOn(c))'
  BY AloneStep
<1> SUFFICES ASSUME NEW c \in Cpu \ preempted' PROVE (SeqOf(c))' BY <1>0 DEF SeqInv
<1>1. AloneOn(c) /\ SeqOf(c) BY <1>0 DEF SeqInv
<1>2. CASE \E t \in Task : StoreCounter(t) BY <1>1, <1>2, SeqStore
<1>3. CASE \A t \in Task : ~StoreCounter(t)
  <2>1. NumbersKept BY <1>3, NumbersKeptSteps
  <2>2. ASSUME seq_counter' = seq_counter,
               \A t \in Task : step'[t] \in {"load", "store"} =>
                  step[t] \in {"load", "store"} /\ cpu'[t] = cpu[t] /\ position'[t] = position[t]
        PROVE (SeqOf(c))'
    BY <1>1, <2>1, <2>2, SeqKept
  <2>3. ASSUME NEW t \in Task, ReadStep(t) PROVE (SeqOf(c))'
    BY <2>2, <2>3 DEF ReadStep, Go, Looking, Reading, ShapeInv, emission, programs, locals
  <2>4. ASSUME NEW t \in Task, Reserve(t) PROVE (SeqOf(c))'
    <3>1. /\ UNCHANGED <<seq_counter, cpu>>
          /\ \A u \in Task : u # t => step'[u] = step[u] /\ position'[u] = position[u]
          /\ step'[t] \in {"load", "store"} => position'[t] = head
      BY <2>4 DEF Reserve, Go, ShapeInv, programs
    <3>2. \A p \in OfCpu(c) : p < head BY SMT DEF OfCpu, Positions, ShapeInv
    <3> QED BY <1>1, <2>1, <3>1, <3>2, SeqKept
  <2>5. ASSUME NEW t \in Task, LoadCounter(t) \/ FillDetails(t) \/ Submit(t)
        PROVE (SeqOf(c))'
    <3>1. /\ UNCHANGED <<seq_counter, cpu, position>>
          /\ \A u \in Task : u # t => step'[u] = step[u]
          /\ step'[t] \in {"load", "store"} => step[t] = "load"
      BY <2>5 DEF LoadCounter, FillDetails, Submit, Go, ShapeInv, programs, locals
    <3> QED BY <2>2, <3>1
  <2>6. ASSUME NEW t \in Task, End(t) PROVE (SeqOf(c))'
    BY <2>2, <2>6 DEF End, Go, ShapeInv
  <2>7. ASSUME NEW t \in Task, NEW d \in Cpu, NEW k \in Kind, BeginStep(t, d, k)
        PROVE (SeqOf(c))'
    <3>1. /\ UNCHANGED <<seq_counter, position>> /\ step'[t] \notin {"load", "store"}
          /\ \A u \in Task : u # t => step'[u] = step[u] /\ cpu'[u] = cpu[u]
      BY <2>7 DEF BeginStep, Begin, Go, ShapeInv, locals
    <3> QED BY <2>2, <3>1
  <2>8. CASE HostStep \/ Consume \/ UNCHANGED <<step, emission>>
    <3>1. UNCHANGED <<step, cpu, position, seq_counter>>
      BY <2>8 DEF HostStep, Consume, emission, programs, locals
    <3> QED BY <2>2, <3>1
  <2> QED BY <1>3, <2>3, <2>4, <2>5, <2>6, <2>7, <2>8, RingSteps DEF Emit
<1> QED BY <1>2, <1>3

(* What has been taken out is what is at the positions before tail. *)
LEMMA DeliveredAt ==
    ASSUME ShapeInv, NEW i \in 1..Len(delivered)
    PROVE \E p \in Positions : p = i - 1 /\ Done(p) /\ Rec(p) = delivered[i]
<1>1. tail \in Nat /\ head \in Nat /\ tail <= head /\ Len(delivered) = tail BY DEF ShapeInv
<1>2. i - 1 \in Positions /\ i - 1 < tail /\ (i - 1) + 1 = i BY SMT, <1>1 DEF Positions
<1> QED BY <1>2 DEF Done, Rec

(* DeliveredIntact: HandleRingBufferEvent is only given events that one    *)
(* call wrote from beginning to end.                                       *)
THEOREM AlwaysDeliveredIntact == Spec => []DeliveredIntact
<1>1. RingInv => DeliveredIntact
  <2> SUFFICES ASSUME RingInv, NEW i \in 1..Len(delivered)
               PROVE /\ ~delivered[i].busy /\ delivered[i].header # 0
                     /\ delivered[i].details = delivered[i].header
                     /\ delivered[i].file_inode # delivered[i].header =>
                           delivered[i].kind = "mmap"
    BY DEF DeliveredIntact
  <2>1. PICK p \in Positions : Done(p) /\ Rec(p) = delivered[i]
    BY DeliveredAt DEF RingInv
  <2>2. /\ ~Rec(p).busy /\ Rec(p).header \in 1..calls
        /\ Rec(p).details = Rec(p).header
        /\ Rec(p).file_inode # Rec(p).header => Rec(p).kind = "mmap"
    BY <2>1 DEF RingInv, FillInv
  <2> QED BY SMT, <2>1, <2>2 DEF RingInv, ShapeInv
<1> QED BY <1>1, RingAlwaysKept, PTL

(* DeliveredInOrder: an event submitted before a call began is delivered   *)
(* before the event of that call.                                          *)
THEOREM AlwaysDeliveredInOrder == Spec => []DeliveredInOrder
<1>1. RingInv => DeliveredInOrder
  <2> SUFFICES ASSUME RingInv, NEW i \in 1..Len(delivered), NEW j \in 1..Len(delivered),
                      <<delivered[i].header, delivered[j].header>> \in submitted
               PROVE i < j
    BY DEF DeliveredInOrder
  <2>1. PICK p \in Positions : p = i - 1 /\ Done(p) /\ Rec(p) = delivered[i]
    BY DeliveredAt DEF RingInv
  <2>2. PICK q \in Positions : q = j - 1 /\ Done(q) /\ Rec(q) = delivered[j]
    BY DeliveredAt DEF RingInv
  <2>3. PICK s \in submitted : s[1] = delivered[i].header /\ s[2] = delivered[j].header
    OBVIOUS
  <2>4. p < q BY <2>1, <2>2, <2>3 DEF RingInv, OrderInv
  <2> QED BY SMT, <2>1, <2>2, <2>4 DEF RingInv, ShapeInv
<1> QED BY <1>1, RingAlwaysKept, PTL

(* BusyIsOwned: the record at which the ring buffer thread waits belongs   *)
(* to a call that is still running.                                        *)
THEOREM BusyAlwaysOwned == Spec => []BusyIsOwned
<1>1. RingInv => BusyIsOwned
  <2> SUFFICES ASSUME RingInv, NEW p \in tail..(head - 1), memory[Slot(p)].busy
               PROVE \E t \in Active :
                        /\ position[t] = p
                        /\ step[t] \in {"load", "store", "details", "submit"}
    BY DEF BusyIsOwned
  <2>1. p \in Positions /\ ~Done(p) BY SMT DEF RingInv, ShapeInv, Positions, Done
  <2>2. PICK t \in Task : Holding(t) /\ position[t] = p BY <2>1 DEF RingInv, HoldInv
  <2> QED BY <2>2 DEF Active, Holding, Emitting
<1> QED BY <1>1, RingAlwaysKept, PTL

(* NumbersWithoutGap: on a CPU where no call preempted another the events  *)
(* are delivered with the numbers 1, 2, 3...                               *)
THEOREM NumbersNeverGap == Spec => []NumbersWithoutGap
<1>1. Init => SeqInv
  <2> SUFFICES ASSUME Init, NEW c \in Cpu PROVE AloneOn(c) /\ SeqOf(c) BY DEF SeqInv
  <2>1. /\ Positions = {} /\ seq_counter[c] = 0 /\ \A t \in Task : step[t] = "idle"
    BY SMT DEF Init, RingInit, Positions
  <2>2. OfCpu(c) = {} BY <2>1 DEF OfCpu
  <2>3. AloneOn(c) BY <2>1 DEF AloneOn
  <2>4. 1..seq_counter[c] = {} BY SMT, <2>1
  <2>5. SeqOf(c) BY <2>1, <2>2, <2>4 DEF SeqOf
  <2> QED BY <2>3, <2>5
<1>2. RingInv /\ SeqInv /\ [Next]_vars => SeqInv' BY SeqStep DEF RingInv
<1>3. RingInv /\ SeqInv => NumbersWithoutGap
  <2> SUFFICES ASSUME RingInv, SeqInv, NEW c \in Cpu \ preempted,
                      NEW i \in 1..Len(delivered), delivered[i].cpu = c
               PROVE /\ delivered[i].seq # 0
                     /\ {delivered[j].seq : j \in {k \in {l \in 1..Len(delivered) :
                              delivered[l].cpu = c} : k < i}} = 1..(delivered[i].seq - 1)
    BY DEF NumbersWithoutGap
  <2>0. /\ SeqOf(c) /\ seq_counter[c] \in Nat
        /\ Len(delivered) = tail /\ tail \in Nat /\ head \in Nat
    BY DEF RingInv, ShapeInv, SeqInv
  <2>1. ASSUME NEW j \in 1..Len(delivered), delivered[j].cpu = c
        PROVE \E p \in OfCpu(c) : p = j - 1 /\ Rec(p) = delivered[j]
    <3>1. PICK p \in Positions : p = j - 1 /\ Done(p) /\ Rec(p) = delivered[j]
      BY DeliveredAt DEF RingInv
    <3> QED BY <2>1, <3>1 DEF OfCpu, Numbered
  <2>2. PICK p \in OfCpu(c) : p = i - 1 /\ Rec(p) = delivered[i] BY <2>1
  <2>3. Rec(p).seq \in 1..seq_counter[c] BY <2>0 DEF SeqOf
  <2>4. ASSUME NEW j \in 1..Len(delivered), delivered[j].cpu = c, j < i
        PROVE delivered[j].seq \in 1..(delivered[i].seq - 1)
    <3>1. PICK q \in OfCpu(c) : q = j - 1 /\ Rec(q) = delivered[j] BY <2>1, <2>4
    <3>2. q < p BY SMT, <2>0, <2>2, <2>4, <3>1
    <3>3. Rec(q).seq \in 1..seq_counter[c] /\ Rec(q).seq < Rec(p).seq BY <2>0, <3>2 DEF SeqOf
    <3> QED BY SMT, <2>0, <2>2, <2>3, <3>1, <3>3
  <2>5. ASSUME NEW n \in 1..(delivered[i].seq - 1)
        PROVE \E j \in 1..Len(delivered) : /\ delivered[j].cpu = c /\ j < i
                                           /\ delivered[j].seq = n
    <3>1. n \in 1..seq_counter[c] /\ n < Rec(p).seq BY SMT, <2>0, <2>2, <2>3
    <3>2. PICK q \in OfCpu(c) : Rec(q).seq = n BY <2>0, <3>1 DEF SeqOf
    <3>3. p \in Int /\ q \in Int /\ q >= 0 BY SMT DEF OfCpu, Positions
    <3>4. ~(p < q) BY SMT, <2>0, <2>3, <3>1, <3>2 DEF SeqOf
    <3>5. q < p BY SMT, <3>1, <3>2, <3>3, <3>4
    <3>6. q + 1 \in 1..Len(delivered) /\ q + 1 < i /\ q < tail BY SMT, <2>0, <2>2, <3>3, <3>5
    <3>7. Rec(q) = delivered[q + 1] BY <3>6 DEF Rec
    <3> QED BY <3>2, <3>6, <3>7 DEF OfCpu
  <2>6. delivered[i].seq # 0 BY SMT, <2>0, <2>2, <2>3
  <2> QED BY SMT, <2>4, <2>5, <2>6
<1> QED BY <1>1, <1>2, <1>3, RingAlwaysKept, PTL DEF Spec
-----------------------------------------------------------------------------
(* The step leaves the call of t as it is, if t is opening a file. *)
OpenKept(t) ==
    /\ inode'[t] = inode[t] /\ blocking_enabled'[t] = blocking_enabled[t]
    /\ verdict'[t] = verdict[t]
    /\ (Opening(t))' <=> Opening(t)
    /\ step'[t] \in Reading => step'[t] = step[t]

(* If it leaves the maps as well, what is known of the answer stays so. *)
LEMMA DueKept ==
    ASSUME NEW t \in Opener, Due(t), OpenKept(t), UNCHANGED maps,
           policy'[t] = policy[t], hits'[t] = hits[t]
    PROVE (Due(t))'
<1>1. /\ UNCHANGED <<trusted_ancestor_roots, process_threshold_map, sensitive_inodes_map, config>>
      /\ inode'[t] = inode[t] /\ blocking_enabled'[t] = blocking_enabled[t]
      /\ verdict'[t] = verdict[t]
  BY DEF OpenKept, maps
<1>2. (Opening(t))' <=> Opening(t) BY DEF OpenKept
<1>3. step'[t] \in Reading =>
         step[t] \in Reading /\ step'[t] = step[t] /\ kind'[t] = "open"
  BY <1>2 DEF OpenKept, Due, Opening, Reading
<1>4. (Now(t))' = Now(t) BY <1>1 DEF Now, Answer
<1>5. step'[t] \in Reading =>
         /\ (SeenTrusted(t))' = SeenTrusted(t) /\ (SeenSensitive(t))' = SeenSensitive(t)
         /\ (SeenMode(t))' = SeenMode(t)
  BY <1>1, <1>3 DEF SeenTrusted, SeenSensitive, SeenMode
<1>6. step'[t] \in Reading => (Seen(t))' = Seen(t) BY <1>1, <1>5 DEF Seen, Answer
<1>7. step'[t] \in {"device", "threshold", "category"} => step'[t] \in Reading BY DEF Reading
<1> QED BY <1>1, <1>2, <1>3, <1>4, <1>5, <1>6, <1>7 DEF Due

(* A call of the host changes one map.  A value that was read stays read,  *)
(* and the answer of the old maps or that of the new ones is what the call *)
(* has seen, as long as this is the only update.                           *)
LEMMA DueUpdate ==
    ASSUME AnswerShape, HostUpdate, NEW t \in Opener, Due(t),
           \/ UNCHANGED <<process_threshold_map, sensitive_inodes_map, config>>
           \/ UNCHANGED <<trusted_ancestor_roots, sensitive_inodes_map, config>>
           \/ UNCHANGED <<trusted_ancestor_roots, process_threshold_map, config>>
           \/ UNCHANGED <<trusted_ancestor_roots, process_threshold_map, sensitive_inodes_map>>
    PROVE (Due(t))'
<1>1. /\ UNCHANGED <<step, kind, inode, blocking_enabled, verdict>>
      /\ (Opening(t))' <=> Opening(t)
  BY DEF HostUpdate, programs, Opening
<1>2. /\ hits[t] \in Nat
      /\ Opening(t) => hits'[t] = hits[t] + 1 /\ policy'[t] = policy[t] \cup {(Now(t))'}
      /\ ~Opening(t) => hits'[t] = hits[t] /\ policy'[t] = policy[t]
  BY <1>1, StepsAssumption DEF HostUpdate, Active, Opening, Now, Answer, AnswerShape
<1>3. CASE ~Opening(t) BY <1>1, <1>2, <1>3 DEF Due, Opening, Reading
<1>4. CASE Opening(t)
  <2>1. hits'[t] = hits[t] + 1 /\ policy'[t] = policy[t] \cup {(Now(t))'} BY <1>2, <1>4
  <2>2. ASSUME step'[t] \in Reading, hits'[t] <= 1 PROVE (Seen(t))' \in policy'[t]
    <3>1. hits[t] = 0 /\ step[t] \in Reading BY SMT, <1>1, <1>2, <2>1, <2>2
    <3>2. /\ SeenTrusted(t) = trusted_ancestor_roots
          /\ SeenSensitive(t) = sensitive_inodes_map /\ SeenMode(t) = config
          /\ Now(t) \in policy[t]
      BY <1>4, <3>1 DEF Due
    <3>3. (Seen(t))' = (Now(t))' \/ (Seen(t))' = Now(t)
      BY SMT, <1>1, <3>1, <3>2
         DEF Seen, Now, Answer, SeenTrusted, SeenSensitive, SeenMode
    <3> QED BY <2>1, <3>2, <3>3
  <2>3. /\ step'[t] \in Reading => kind'[t] = "open" /\ verdict'[t] = "none"
        /\ step'[t] \in {"device", "threshold"} => blocking_enabled'[t]
        /\ step'[t] = "device" => inode'[t] \in Device
    BY <1>1 DEF Due
  <2>4. /\ step'[t] = "category" /\ (~blocking_enabled'[t] \/ inode'[t] \in Device)
           => "permit" \in policy'[t]
        /\ verdict'[t] = "permit" => "permit" \in policy'[t]
    BY <1>1, <2>1 DEF Due
  <2>5. verdict'[t] = "deny" => "deny" \in policy'[t] \/ hits'[t] >= 2
    <3>1. verdict'[t] = "deny" => "deny" \in policy[t] \/ hits[t] >= 2 BY <1>1 DEF Due
    <3>2. hits[t] >= 2 => hits[t] + 1 >= 2 BY SMT, <1>2
    <3>3. "deny" \in policy[t] => "deny" \in policy'[t] BY <2>1
    <3> QED BY <2>1, <3>1, <3>2, <3>3
  <2>6. hits'[t] # 0
    <3>1. hits[t] \in Nat BY <1>2
    <3> HIDE <1>2
    <3> QED BY SMT, <2>1, <3>1
  <2> QED BY <1>1, <1>4, <2>1, <2>2, <2>3, <2>4, <2>5, <2>6 DEF Due
<1> QED BY <1>3, <1>4

(* What the five lookups leave alone; they differ in step, verdict and     *)
(* blocking_enabled.                                                       *)
Lookup(t) == \/ ReadTrusted(t) \/ ReadMode(t) \/ ReadDeviceThreshold(t)
             \/ ReadCategory(t) \/ ReadThreshold(t)

LookupFrame(t) ==
    /\ UNCHANGED <<maps, kind, inode, policy, hits>>
    /\ step[t] \in Reading /\ step'[t] # "idle" /\ step'[t] # "trusted"
    /\ \A u \in Opener : u # t => OpenKept(u)

(* Every lookup stays within this frame. *)
LEMMA LookupSteps ==
    ASSUME ShapeInv, AnswerShape, NEW t \in Opener, Lookup(t)
    PROVE LookupFrame(t)
<1>1. UNCHANGED <<maps, kind, inode, policy, hits>>
  BY DEF Lookup, ReadTrusted, ReadMode, ReadDeviceThreshold, ReadCategory, ReadThreshold,
         emission, programs
<1>2. step[t] \in Reading /\ step'[t] # "idle" /\ step'[t] # "trusted"
  BY StepsAssumption DEF Lookup, ReadTrusted, ReadMode, ReadDeviceThreshold, ReadCategory,
         ReadThreshold, Answered, Go, ShapeInv, Reading
<1>3. \A u \in Opener : u # t => step'[u] = step[u]
  BY StepsAssumption DEF Lookup, ReadTrusted, ReadMode, ReadDeviceThreshold, ReadCategory,
         ReadThreshold, Answered, Go, ShapeInv
<1>4. \A u \in Opener : u # t =>
         verdict'[u] = verdict[u] /\ blocking_enabled'[u] = blocking_enabled[u]
  BY DEF Lookup, ReadTrusted, ReadMode, ReadDeviceThreshold, ReadCategory,
         ReadThreshold, Answered, AnswerShape
<1>5. \A u \in Opener : u # t => OpenKept(u) BY <1>1, <1>3, <1>4 DEF OpenKept, Opening
<1> QED BY <1>1, <1>2, <1>5 DEF LookupFrame

(* A lookup that answers gives an answer that was due... *)
LEMMA DueAnswered ==
    ASSUME NEW t \in Opener, Due(t), LookupFrame(t), step'[t] \in {"flags", "reserve", "return"},
           \/ verdict'[t] = "permit" /\ "permit" \in policy[t]
           \/ verdict'[t] = "deny" /\ ("deny" \in policy[t] \/ hits[t] >= 2)
    PROVE (Due(t))'
<1>1. /\ UNCHANGED <<trusted_ancestor_roots, process_threshold_map, sensitive_inodes_map, config,
                     kind, inode, policy, hits>>
      /\ step[t] \in Reading
  BY DEF LookupFrame, maps
<1>2. Opening(t) /\ (Opening(t))' BY <1>1 DEF Due, Opening, Reading
<1>3. (Now(t))' = Now(t) BY <1>1 DEF Now, Answer
<1>4. step'[t] \notin Reading BY DEF Reading
<1>5. step'[t] \notin {"device", "threshold", "category"} OBVIOUS
<1> QED BY <1>1, <1>2, <1>3, <1>4, <1>5 DEF Due

(* ...and one that goes on has seen a value that is in the map right now. *)
LEMMA DueGoesOn ==
    ASSUME NEW t \in Opener, Due(t), LookupFrame(t), step'[t] \in Reading,
           verdict'[t] = verdict[t],
           step[t] = "trusted" => t \notin trusted_ancestor_roots,
           IF step[t] = "mode" THEN blocking_enabled'[t] = config
           ELSE blocking_enabled'[t] = blocking_enabled[t],
           IF step'[t] = "mode" THEN step[t] = "trusted" ELSE step[t] # "trusted",
           step'[t] = "threshold" => inode[t] \in sensitive_inodes_map,
           step[t] # "threshold",
           step'[t] \in {"device", "threshold"} => blocking_enabled'[t],
           step'[t] = "device" => inode[t] \in Device,
           step'[t] = "category" /\ (~blocking_enabled'[t] \/ inode[t] \in Device)
           => "permit" \in policy[t]
    PROVE (Due(t))'
<1>1. /\ UNCHANGED <<trusted_ancestor_roots, process_threshold_map, sensitive_inodes_map, config,
                     kind, inode, policy, hits>>
      /\ step[t] \in Reading /\ step'[t] # "trusted"
  BY DEF LookupFrame, maps
<1>2. Opening(t) /\ (Opening(t))' BY <1>1 DEF Due, Opening, Reading
<1>3. (Now(t))' = Now(t) BY <1>1 DEF Now, Answer
<1>4. (SeenTrusted(t))' = SeenTrusted(t) BY <1>1 DEF SeenTrusted
<1>5. (SeenSensitive(t))' = SeenSensitive(t) BY <1>1 DEF SeenSensitive
<1>6. (SeenMode(t))' = SeenMode(t) BY <1>1 DEF SeenMode
<1>7. (Seen(t))' = Seen(t) BY <1>1, <1>4, <1>5, <1>6 DEF Seen, Answer
<1>8. kind[t] = "open" /\ verdict[t] = "none" BY <1>1 DEF Due
<1> QED BY <1>1, <1>2, <1>3, <1>4, <1>5, <1>6, <1>7, <1>8 DEF Due

(* What the present maps allow or forbid was due. *)
LEMMA NowDue ==
    ASSUME NEW t \in Opener, Due(t), step[t] \in Reading,
           \/ ~config \/ t \in trusted_ancestor_roots \/ t \notin process_threshold_map
           \/ inode[t] \notin sensitive_inodes_map \cup Device
    PROVE "permit" \in policy[t]
<1>1. Opening(t) BY DEF Due, Opening, Reading
<1>2. Now(t) = "permit" BY DEF Now, Answer
<1> QED BY <1>1, <1>2 DEF Due

(* Each lookup of file_open keeps what is known of the answer of its task. *)
LEMMA DueLookup ==
    ASSUME ShapeInv, AnswerShape, NEW t \in Opener, Due(t), Lookup(t)
    PROVE (Due(t))'
<1>0. LookupFrame(t) /\ t \in Task BY LookupSteps, StepsAssumption
<1>1. CASE ReadTrusted(t)
  <2>1. CASE t \in trusted_ancestor_roots
    <3>1. step'[t] = "return" /\ verdict'[t] = "permit"
      BY <1>0, <1>1, <2>1 DEF ReadTrusted, Answered, Go, ShapeInv, AnswerShape
    <3>2. "permit" \in policy[t] BY <1>0, <2>1, NowDue DEF LookupFrame
    <3> QED BY <1>0, <3>1, <3>2, DueAnswered
  <2>2. CASE t \notin trusted_ancestor_roots
    <3>1. /\ step[t] = "trusted" /\ step'[t] = "mode"
          /\ verdict'[t] = verdict[t] /\ blocking_enabled'[t] = blocking_enabled[t]
      BY <1>0, <1>1, <2>2 DEF ReadTrusted, Go, ShapeInv
    <3> QED BY <1>0, <2>2, <3>1, DueGoesOn DEF Reading
  <2> QED BY <2>1, <2>2
<1>2. CASE ReadMode(t)
  <2>1. /\ step[t] = "mode" /\ verdict'[t] = verdict[t] /\ blocking_enabled'[t] = config
        /\ step'[t] = IF config /\ inode[t] \in Device THEN "device" ELSE "category"
    BY <1>0, <1>2 DEF ReadMode, Go, ShapeInv, AnswerShape
  <2>2. ~config => "permit" \in policy[t] BY <1>0, NowDue DEF LookupFrame
  <2>3. CASE config /\ inode[t] \in Device
    BY <1>0, <2>1, <2>3, DueGoesOn DEF Reading
  <2>4. CASE ~(config /\ inode[t] \in Device)
    <3>1. step'[t] = "category" BY <2>1, <2>4
    <3>2. ~blocking_enabled'[t] \/ inode[t] \in Device => "permit" \in policy[t]
      BY <2>1, <2>2, <2>4
    <3> QED BY <1>0, <2>1, <3>1, <3>2, DueGoesOn DEF Reading
  <2> QED BY <2>3, <2>4
<1>3. CASE ReadDeviceThreshold(t)
  <2>1. /\ step[t] = "device" /\ blocking_enabled'[t] = blocking_enabled[t]
        /\ blocking_enabled[t] /\ inode[t] \in Device
    BY <1>3 DEF ReadDeviceThreshold, Due
  <2>2. CASE t \in process_threshold_map
    <3>1. step'[t] = "return" /\ verdict'[t] = "deny"
      BY <1>0, <1>3, <2>2 DEF ReadDeviceThreshold, Answered, Go, ShapeInv, AnswerShape
    <3>2. Seen(t) = "deny"
      BY <2>1, <2>2 DEF Seen, Answer, SeenTrusted, SeenMode, SeenSensitive
    <3>3. hits[t] <= 1 => "deny" \in policy[t] BY <2>1, <3>2 DEF Due, Reading
    <3>4. hits[t] \in Nat BY DEF AnswerShape
    <3>5. "deny" \in policy[t] \/ hits[t] >= 2 BY SMT, <3>3, <3>4
    <3> QED BY <1>0, <3>1, <3>5, DueAnswered
  <2>3. CASE t \notin process_threshold_map
    <3>1. step'[t] = "category" /\ verdict'[t] = verdict[t]
      BY <1>0, <1>3, <2>3 DEF ReadDeviceThreshold, Go, ShapeInv
    <3>2. "permit" \in policy[t] BY <1>0, <2>3, NowDue DEF LookupFrame
    <3> QED BY <1>0, <2>1, <3>1, <3>2, DueGoesOn DEF Reading
  <2> QED BY <2>2, <2>3
<1>4. CASE ReadCategory(t)
  <2>1. step[t] = "category" /\ blocking_enabled'[t] = blocking_enabled[t]
    BY <1>4 DEF ReadCategory
  <2>2. ~blocking_enabled[t] \/ inode[t] \in Device => "permit" \in policy[t]
    BY <2>1 DEF Due
  <2>3. CASE inode[t] \notin sensitive_inodes_map
    <3>1. step'[t] = "return" /\ verdict'[t] = "permit"
      BY <1>0, <1>4, <2>3 DEF ReadCategory, Answered, Go, ShapeInv, AnswerShape
    <3>2. "permit" \in policy[t] BY <1>0, <2>2, <2>3, NowDue DEF LookupFrame
    <3> QED BY <1>0, <3>1, <3>2, DueAnswered
  <2>4. CASE inode[t] \in sensitive_inodes_map /\ blocking_enabled[t]
    <3>1. step'[t] = "threshold" /\ verdict'[t] = verdict[t]
      BY <1>0, <1>4, <2>4 DEF ReadCategory, Go, ShapeInv
    <3> QED BY <1>0, <2>1, <2>4, <3>1, DueGoesOn DEF Reading
  <2>5. CASE inode[t] \in sensitive_inodes_map /\ ~blocking_enabled[t]
    <3>1. step'[t] = "flags" /\ verdict'[t] = "permit"
      BY <1>0, <1>4, <2>5 DEF ReadCategory, Answered, Go, ShapeInv, AnswerShape
    <3> QED BY <1>0, <2>2, <2>5, <3>1, DueAnswered
  <2> QED BY <2>3, <2>4, <2>5
<1>5. CASE ReadThreshold(t)
  <2>1. step[t] = "threshold" /\ blocking_enabled[t] BY <1>5 DEF ReadThreshold, Due
  <2>2. CASE t \in process_threshold_map
    <3>1. step'[t] = "reserve" /\ verdict'[t] = "deny"
      BY <1>0, <1>5, <2>2 DEF ReadThreshold, Answered, Go, ShapeInv, AnswerShape
    <3>2. Seen(t) = "deny"
      BY <2>1, <2>2 DEF Seen, Answer, SeenTrusted, SeenMode, SeenSensitive
    <3>3. hits[t] <= 1 => "deny" \in policy[t] BY <2>1, <3>2 DEF Due, Reading
    <3>4. hits[t] \in Nat BY DEF AnswerShape
    <3>5. "deny" \in policy[t] \/ hits[t] >= 2 BY SMT, <3>3, <3>4
    <3> QED BY <1>0, <3>1, <3>5, DueAnswered
  <2>3. CASE t \notin process_threshold_map
    <3>1. step'[t] = "flags" /\ verdict'[t] = "permit"
      BY <1>0, <1>5, <2>3 DEF ReadThreshold, Answered, Go, ShapeInv, AnswerShape
    <3>2. "permit" \in policy[t] BY <1>0, <2>3, NowDue DEF LookupFrame
    <3> QED BY <1>0, <3>1, <3>2, DueAnswered
  <2> QED BY <2>2, <2>3
<1> QED BY <1>1, <1>2, <1>3, <1>4, <1>5 DEF Lookup

(* lsm/file_open begins a call about which the present maps have a say. *)
LEMMA DueBegins ==
    ASSUME ShapeInv, AnswerShape, NEW t \in Opener, NEW i \in Inode, NEW c \in Cpu,
           file_open(t, i, c), Due(t)
    PROVE (Due(t))'
<1>0. t \in Task BY StepsAssumption
<1>1. /\ step[t] = "idle" /\ step'[t] = "trusted" /\ kind'[t] = "open" /\ inode'[t] = i
      /\ UNCHANGED <<trusted_ancestor_roots, process_threshold_map, sensitive_inodes_map, config,
                     verdict, hits>>
  BY <1>0 DEF file_open, Begin, Go, ShapeInv, AnswerShape, maps
<1>2. verdict[t] = "none" /\ hits[t] = 0 BY <1>1 DEF Due, Opening
<1>3. policy'[t] = {(Now(t))'}
  BY <1>1 DEF file_open, AnswerShape, Now, Answer
<1>4. /\ (SeenTrusted(t))' = trusted_ancestor_roots'
      /\ (SeenSensitive(t))' = sensitive_inodes_map' /\ (SeenMode(t))' = config'
  BY <1>1 DEF SeenTrusted, SeenSensitive, SeenMode
<1>5. (Seen(t))' = (Now(t))' BY <1>4 DEF Seen, Now, Answer
<1>6. (Opening(t))' BY <1>1 DEF Opening
<1> QED BY <1>1, <1>2, <1>3, <1>4, <1>5, <1>6 DEF Due

(* The end of an open leaves nothing behind. *)
LEMMA DueEnds ==
    ASSUME ShapeInv, AnswerShape, NEW t \in Opener, Return(t), kind[t] = "open"
    PROVE (Due(t))'
<1>0. t \in Task BY StepsAssumption
<1>1. step'[t] = "idle" /\ verdict'[t] = "none" /\ hits'[t] = 0
  BY <1>0 DEF Return, End, Go, ShapeInv, AnswerShape
<1>2. ~(Opening(t))' BY <1>1 DEF Opening
<1> QED BY <1>1, <1>2 DEF Due, Reading

(* The flags, the reservation and what follows it, a report, the end of a  *)
(* report and the consumer do not concern the answer of file_open.         *)
Aside ==
    \/ \E t \in Task : EmitEvent(t) \/ (Return(t) /\ kind[t] # "open")
    \/ \E t \in Task : ReadFlags(t) \/ UpdateFlags(t)
    \/ \E t \in Opener, m \in SUBSET Inode : WriteFlags(t, m)
    \/ \E t \in Task, c \in Cpu : Report(t, c) \/ ReportMmap(t, c)
    \/ RingBufferPollLoop \/ UNCHANGED vars

LEMMA AsideSteps ==
    ASSUME ShapeInv, Aside
    PROVE UNCHANGED <<maps, opens>> /\ \A u \in Task : OpenKept(u)
<1>1. UNCHANGED <<maps, opens>>
  BY DEF Aside, EmitEvent, Return, ReadFlags, UpdateFlags, WriteFlags, Report, ReportMmap,
         RingBufferPollLoop, vars
<1>2. UNCHANGED <<inode, blocking_enabled, verdict>> BY <1>1 DEF opens
<1>3. ASSUME NEW t \in Task, EmitEvent(t), NEW u \in Task PROVE OpenKept(u)
  <2>1. kind' = kind
    BY <1>3 DEF EmitEvent, Emit, Reserve, LoadCounter, StoreCounter, FillDetails, Submit, programs
  <2>2. /\ step[t] # "idle" /\ step'[t] \notin Reading \cup {"idle"}
        /\ u # t => step'[u] = step[u]
    <3>1. PICK next \in Emitting \cup {"return"} : Go(t, next)
      BY <1>3 DEF EmitEvent, Emit, Reserve, LoadCounter, StoreCounter, FillDetails, Submit, Emitting
    <3>2. step[t] # "idle"
      BY <1>3 DEF EmitEvent, Emit, Reserve, LoadCounter, StoreCounter, FillDetails, Submit
    <3> QED BY <3>1, <3>2 DEF Go, ShapeInv, Emitting, Reading
  <2> QED BY <1>2, <2>1, <2>2 DEF OpenKept, Opening
<1>4. ASSUME NEW t \in Task, Return(t), kind[t] # "open", NEW u \in Task PROVE OpenKept(u)
  BY <1>2, <1>4 DEF Return, End, Go, ShapeInv, OpenKept, Opening, Reading
<1>5. ASSUME NEW t \in Task, NEW c \in Cpu, Report(t, c) \/ ReportMmap(t, c), NEW u \in Task
      PROVE OpenKept(u)
  BY <1>2, <1>5 DEF Report, ReportMmap, Begin, Go, ShapeInv, OpenKept, Opening, Reading
<1>6. CASE RingBufferPollLoop \/ UNCHANGED vars
  <2>1. UNCHANGED <<step, kind>>
    BY <1>6 DEF RingBufferPollLoop, Consume, programs, vars, emission
  <2>2. \A u \in Task : OpenKept(u) BY <1>2, <2>1 DEF OpenKept, Opening
  <2> QED BY <1>1, <2>2
<1>7. ASSUME NEW t \in Task, ReadFlags(t) \/ UpdateFlags(t), NEW u \in Task PROVE OpenKept(u)
  <2>1. /\ kind' = kind
        /\ u # t => step'[u] = step[u]
        /\ step[t] # "idle" /\ step'[t] \notin Reading \cup {"idle"}
    BY <1>7 DEF ReadFlags, UpdateFlags, Go, ShapeInv, Reading, emission, programs
  <2> QED BY <1>2, <2>1 DEF OpenKept, Opening
<1>8. ASSUME NEW t \in Opener, NEW m \in SUBSET Inode, WriteFlags(t, m), NEW u \in Task
      PROVE OpenKept(u)
  BY <1>2, <1>8 DEF WriteFlags, programs, OpenKept, Opening
<1> QED BY <1>1, <1>3, <1>4, <1>5, <1>6, <1>7, <1>8 DEF Aside

(* A step keeps the shapes of the history and of the registers. *)
LEMMA AnswerShapeStep ==
    ASSUME AnswerShape, [Next]_vars
    PROVE AnswerShape'
<1>1. CASE Aside
  <2>1. UNCHANGED <<maps, opens>>
    BY <1>1 DEF Aside, EmitEvent, Return, ReadFlags, UpdateFlags, WriteFlags, Report, ReportMmap,
         RingBufferPollLoop, vars
  <2> QED BY <2>1 DEF AnswerShape, maps, opens
<1>2. ASSUME NEW t \in Task, Lookup(t) PROVE AnswerShape'
  <2>1. UNCHANGED <<maps, inode, policy, hits>>
    BY <1>2 DEF Lookup, ReadTrusted, ReadMode, ReadDeviceThreshold, ReadCategory, ReadThreshold
  <2>2. verdict' \in [Opener -> {"none", "permit", "deny"}]
    BY <1>2 DEF Lookup, ReadTrusted, ReadMode, ReadDeviceThreshold, ReadCategory, ReadThreshold,
                Answered, AnswerShape
  <2>3. blocking_enabled' \in [Opener -> BOOLEAN]
    BY <1>2 DEF Lookup, ReadTrusted, ReadMode, ReadDeviceThreshold, ReadCategory, ReadThreshold,
                AnswerShape
  <2> QED BY <2>1, <2>2, <2>3 DEF AnswerShape, maps
<1>3. ASSUME NEW t \in Opener, NEW i \in Inode, NEW c \in Cpu, file_open(t, i, c)
      PROVE AnswerShape'
  <2>1. /\ inode' = [inode EXCEPT ![t] = i] /\ config' = config
        /\ UNCHANGED <<blocking_enabled, verdict, hits>>
    BY <1>3 DEF file_open, maps
  <2>2. policy' \in [Opener -> SUBSET {"permit", "deny"}]
    BY <1>3 DEF file_open, Answer, AnswerShape
  <2> QED BY <2>1, <2>2 DEF AnswerShape
<1>4. ASSUME NEW t \in Task, Return(t), kind[t] = "open" PROVE AnswerShape'
  <2>1. /\ blocking_enabled' = [blocking_enabled EXCEPT ![t] = FALSE]
        /\ \E i : inode' = [inode EXCEPT ![t] = i]
        /\ verdict' = [verdict EXCEPT ![t] = "none"]
        /\ policy' = [policy EXCEPT ![t] = {}] /\ hits' = [hits EXCEPT ![t] = 0]
        /\ config' = config
    BY <1>4 DEF Return, maps
  <2> QED BY <2>1 DEF AnswerShape
<1>5. CASE HostUpdate /\ config' \in BOOLEAN
  BY SMT, <1>5 DEF HostUpdate, Answer, AnswerShape
<1>6. CASE SetConfigValue BY <1>5, <1>6 DEF SetConfigValue
<1>7. CASE (\E i \in Inode : AddSensitiveInode(i))
           \/ (\E t \in Opener : UpdateThreshold(t) \/ UpdateTrusted(t))
  BY <1>5, <1>7 DEF AddSensitiveInode, UpdateThreshold, UpdateTrusted, AnswerShape
<1> QED BY <1>1, <1>2, <1>3, <1>4, <1>6, <1>7 DEF Next, Program, Host, Aside, Lookup

(* A step keeps what is known of every answer. *)
LEMMA AnswerStep ==
    ASSUME ShapeInv, AnswerShape, AnswerInv, [Next]_vars
    PROVE AnswerInv'
<1>0. /\ \A t \in Task : step[t] \in Reading => t \in Opener
      /\ \A t \in Opener : Due(t) /\ t \in Task
  BY StepsAssumption DEF AnswerInv
<1>1. CASE Aside
  <2>1. UNCHANGED <<maps, policy, hits>> /\ \A u \in Task : OpenKept(u)
    BY <1>1, AsideSteps DEF opens
  <2>2. \A u \in Opener : (Due(u))' BY <1>0, <2>1, DueKept
  <2>3. \A u \in Task : step'[u] \in Reading => u \in Opener BY <1>0, <2>1 DEF OpenKept
  <2> QED BY <2>2, <2>3 DEF AnswerInv
<1>2. ASSUME NEW t \in Task, Lookup(t) PROVE AnswerInv'
  <2>1. t \in Opener
    BY <1>0, <1>2 DEF Lookup, ReadTrusted, ReadMode, ReadDeviceThreshold, ReadCategory,
                      ReadThreshold, Reading
  <2>2. LookupFrame(t) BY <1>2, <2>1, LookupSteps
  <2>3. (Due(t))' BY <1>0, <1>2, <2>1, DueLookup
  <2>4. ASSUME NEW u \in Opener, u # t PROVE (Due(u))'
    BY <1>0, <2>2, <2>4, DueKept DEF LookupFrame
  <2>5. \A u \in Task : u # t => step'[u] = step[u]
    BY <1>2 DEF Lookup, ReadTrusted, ReadMode, ReadDeviceThreshold, ReadCategory,
                ReadThreshold, Answered, Go, ShapeInv
  <2> QED BY <1>0, <2>1, <2>3, <2>4, <2>5 DEF AnswerInv
<1>3. ASSUME NEW t \in Opener, NEW i \in Inode, NEW c \in Cpu, file_open(t, i, c)
      PROVE AnswerInv'
  <2>1. (Due(t))' BY <1>0, <1>3, DueBegins
  <2>2. \A u \in Task : u # t => step'[u] = step[u] /\ kind'[u] = kind[u]
    BY <1>3 DEF file_open, Begin, Go, ShapeInv
  <2>3. /\ UNCHANGED <<maps, blocking_enabled, verdict, hits>>
        /\ \A u \in Opener : u # t => inode'[u] = inode[u] /\ policy'[u] = policy[u]
    BY <1>3 DEF file_open, AnswerShape
  <2>4. ASSUME NEW u \in Opener, u # t PROVE (Due(u))'
    <3>1. OpenKept(u) BY <1>0, <2>2, <2>3, <2>4 DEF OpenKept, Opening
    <3> QED BY <1>0, <2>3, <2>4, <3>1, DueKept
  <2> QED BY <1>0, <2>1, <2>2, <2>4 DEF AnswerInv
<1>4. ASSUME NEW t \in Task, Return(t), kind[t] = "open" PROVE AnswerInv'
  <2>1. /\ step'[t] = "idle"
        /\ \A u \in Task : u # t => step'[u] = step[u] /\ kind'[u] = kind[u]
    BY <1>4 DEF Return, End, Go, ShapeInv
  <2>2. /\ UNCHANGED maps
        /\ \A u \in Opener : u # t =>
              /\ inode'[u] = inode[u] /\ blocking_enabled'[u] = blocking_enabled[u]
              /\ verdict'[u] = verdict[u] /\ policy'[u] = policy[u] /\ hits'[u] = hits[u]
    BY <1>4 DEF Return, AnswerShape
  <2>3. ASSUME NEW u \in Opener, u # t PROVE (Due(u))'
    <3>1. OpenKept(u) BY <1>0, <2>1, <2>2, <2>3 DEF OpenKept, Opening
    <3> QED BY <1>0, <2>2, <2>3, <3>1, DueKept
  <2>4. t \in Opener => (Due(t))' BY <1>4, DueEnds
  <2>5. step'[t] \notin Reading BY <2>1 DEF Reading
  <2> QED BY <1>0, <2>1, <2>3, <2>4, <2>5 DEF AnswerInv
<1>5. ASSUME HostUpdate,
             \/ UNCHANGED <<process_threshold_map, sensitive_inodes_map, config>>
             \/ UNCHANGED <<trusted_ancestor_roots, sensitive_inodes_map, config>>
             \/ UNCHANGED <<trusted_ancestor_roots, process_threshold_map, config>>
             \/ UNCHANGED <<trusted_ancestor_roots, process_threshold_map, sensitive_inodes_map>>
      PROVE AnswerInv'
  <2>1. ASSUME NEW u \in Opener PROVE (Due(u))' BY <1>0, <1>5, DueUpdate
  <2>2. step' = step BY <1>5 DEF HostUpdate
  <2> QED BY <1>0, <2>1, <2>2 DEF AnswerInv
<1>6. CASE SetConfigValue BY <1>5, <1>6 DEF SetConfigValue
<1>7. ASSUME NEW i \in Inode, AddSensitiveInode(i) PROVE AnswerInv'
  BY <1>5, <1>7 DEF AddSensitiveInode
<1>8. ASSUME NEW t \in Opener, UpdateThreshold(t) PROVE AnswerInv'
  BY <1>5, <1>8 DEF UpdateThreshold
<1>9. ASSUME NEW t \in Opener, UpdateTrusted(t) PROVE AnswerInv'
  BY <1>5, <1>9 DEF UpdateTrusted
<1> QED BY <1>1, <1>2, <1>3, <1>4, <1>6, <1>7, <1>8, <1>9
        DEF Next, Program, Host, Aside, Lookup

(* AnswerWasDue: what file_open lets through was allowed at some moment of *)
(* the call, and what it denies was forbidden at some moment, unless the   *)
(* host made two updates meanwhile.                                        *)
THEOREM AnswersAlwaysDue == Spec => []AnswerWasDue
<1> DEFINE I == ShapeInv /\ AnswerShape /\ AnswerInv
<1>1. Init => I
  <2> SUFFICES ASSUME Init PROVE AnswerShape /\ AnswerInv BY ShapeInit
  <2>1. AnswerShape BY DEF Init, AnswerShape
  <2>2. /\ \A t \in Task : step[t] = "idle"
        /\ \A t \in Opener : verdict[t] = "none" /\ hits[t] = 0 /\ t \in Task
    BY StepsAssumption DEF Init
  <2> QED BY <2>1, <2>2 DEF AnswerInv, Due, Opening, Reading
<1>2. I /\ [Next]_vars => I' BY ShapeStep, AnswerShapeStep, AnswerStep
<1>3. I => AnswerWasDue BY DEF AnswerInv, Due, AnswerWasDue
<1> QED BY <1>1, <1>2, <1>3, PTL DEF Spec
=============================================================================

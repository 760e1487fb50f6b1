----------------------------- MODULE EventRing -----------------------------
(***************************************************************************)
(* How a program of kinnector.bpf.c puts an event into telemetry_ringbuf   *)
(* and how the ring buffer thread takes it out: bpf_ringbuf_reserve,       *)
(* fill_header with next_seq, the details, bpf_ringbuf_submit.  Calls run  *)
(* on several CPUs at a time, and on one CPU one call may preempt another. *)
(*                                                                         *)
(* External: the ring buffer is memory that is used again and not cleared. *)
(* A record is busy until it is submitted; the consumer stops at a busy    *)
(* one.  Records have one size, so that a position modulo the capacity     *)
(* stands for the memory of a record.                                      *)
(***************************************************************************)
EXTENDS Naturals, Sequences, FiniteSets

CONSTANTS
    Task,       \* tasks that run programs
    Cpu,
    RingCaps,   \* numbers of records telemetry_ringbuf may hold
    MaxCalls    \* bound: calls of programs and of the host altogether

VARIABLES
    step,           \* tasks: where in its program
    call, cpu,      \* tasks: the number of the call, the CPU it runs on
    kind,           \* tasks: the program
    count,          \* tasks: the register between load and store
    position,       \* tasks: the record
    calls,          \* calls so far
    seq_counter,
    capacity,       \* records telemetry_ringbuf holds, fixed
    head, tail,     \* positions of the producers and of the consumer
    memory,         \* records: busy, and which call wrote which part
    delivered,      \* history: what HandleRingBufferEvent was given
    submitted,      \* history: pairs <<m, n>>, m was submitted before n began
    preempted       \* history: CPUs on which a call preempted another

programs == <<call, cpu, kind>>
ringVars == <<capacity, head, tail, memory, delivered, submitted>>
locals == <<count, position>>

ASSUME RingAssumption == RingCaps \subseteq Nat \ {0} /\ MaxCalls \in Nat /\ Cpu # {}

Call == 1..MaxCalls
Slot(p) == p % capacity

(* file_open; a hook that only reports; the mmap and mprotect tracepoints. *)
Kind == {"open", "report", "mmap"}

Record == [busy : BOOLEAN, header : 0..MaxCalls, cpu : Cpu, seq : 0..MaxCalls,
           kind : Kind, details : 0..MaxCalls, file_inode : 0..MaxCalls]

RingTypeOK ==
    /\ call \in [Task -> 0..MaxCalls] /\ cpu \in [Task -> Cpu] /\ kind \in [Task -> Kind]
    /\ count \in [Task -> 0..MaxCalls] /\ position \in [Task -> 0..MaxCalls]
    /\ calls \in 0..MaxCalls /\ seq_counter \in [Cpu -> 0..MaxCalls]
    /\ capacity \in RingCaps /\ tail \in 0..head /\ head \in tail..(tail + capacity)
    /\ memory \in [0..(capacity - 1) -> Record]
    /\ delivered \in Seq(Record)
    /\ submitted \subseteq Call \X Call /\ preempted \subseteq Cpu

AnyCpu == CHOOSE c \in Cpu : TRUE

RingInit ==
    /\ capacity \in RingCaps
    /\ call = [t \in Task |-> 0] /\ kind = [t \in Task |-> "report"]
    /\ cpu = [t \in Task |-> AnyCpu]
    /\ memory = [s \in 0..(capacity - 1) |->
                   [busy |-> FALSE, header |-> 0, cpu |-> AnyCpu, seq |-> 0,
                    kind |-> "report", details |-> 0, file_inode |-> 0]]
    /\ count = [t \in Task |-> 0] /\ position = [t \in Task |-> 0]
    /\ calls = 0 /\ seq_counter = [c \in Cpu |-> 0]
    /\ head = 0 /\ tail = 0
    /\ delivered = <<>> /\ submitted = {} /\ preempted = {}

Active == {t \in Task : step[t] # "idle"}
On(c) == {t \in Active : cpu[t] = c}
Go(t, next) == step' = [step EXCEPT ![t] = next]

(* The calls whose events are in the ring, complete, or taken out. *)
Complete ==
    {memory[Slot(p)].header : p \in {q \in tail..(head - 1) : ~memory[Slot(q)].busy}}
    \cup {delivered[i].header : i \in 1..Len(delivered)}
-----------------------------------------------------------------------------
(* A program begins on a CPU.  An LSM hook may be preempted, a tracepoint  *)
(* runs to its end.                                                        *)
Begin(t, c, k, first, preemptible) ==
    /\ step[t] = "idle" /\ calls < MaxCalls
    /\ On(c) = {} \/ preemptible
    /\ calls' = calls + 1
    /\ call' = [call EXCEPT ![t] = calls + 1]
    /\ cpu' = [cpu EXCEPT ![t] = c] /\ kind' = [kind EXCEPT ![t] = k]
    /\ submitted' = submitted \cup (Complete \X {calls + 1})
    /\ preempted' = IF On(c) = {} THEN preempted ELSE preempted \cup {c}
    /\ Go(t, first)
    /\ UNCHANGED <<locals, seq_counter, capacity, head, tail, memory, delivered>>

(* Fault: the event is numbered before there is room for it. *)
ReserveAfterNumber(t) ==
    /\ step[t] = "reserve"
    /\ IF head - tail < capacity
       THEN /\ position' = [position EXCEPT ![t] = head] /\ head' = head + 1
            /\ memory' = [memory EXCEPT ![Slot(head)].busy = TRUE]
            /\ Go(t, "load")
            /\ UNCHANGED seq_counter
       ELSE /\ Go(t, "return")
            /\ seq_counter' = [seq_counter EXCEPT ![cpu[t]] = @ + 1]
            /\ UNCHANGED <<position, head, memory>>
    /\ UNCHANGED <<programs, calls, count, capacity, tail, delivered, submitted, preempted>>

(* bpf_ringbuf_reserve; without room the event is dropped. *)
Reserve(t) ==
    /\ step[t] = "reserve"
    /\ IF head - tail < capacity
       THEN /\ position' = [position EXCEPT ![t] = head] /\ head' = head + 1
            /\ memory' = [memory EXCEPT ![Slot(head)].busy = TRUE]
            /\ Go(t, "load")
       ELSE Go(t, "return") /\ UNCHANGED <<position, head, memory>>
    /\ UNCHANGED <<programs, calls, count, seq_counter, capacity, tail,
                   delivered, submitted, preempted>>

(* next_seq: the counter of the CPU is loaded... *)
LoadCounter(t) ==
    /\ step[t] = "load" /\ Go(t, "store")
    /\ count' = [count EXCEPT ![t] = seq_counter[cpu[t]]]
    /\ UNCHANGED <<programs, calls, position, seq_counter, ringVars, preempted>>

(* ...and stored; the header gets the number from the register, which the  *)
(* compiled program does not load again.                                   *)
StoreCounter(t) ==
    /\ step[t] = "store" /\ Go(t, "details")
    /\ seq_counter' = [seq_counter EXCEPT ![cpu[t]] = count[t] + 1]
    /\ memory' = [memory EXCEPT ![Slot(position[t])] =
                    [@ EXCEPT !.header = call[t], !.cpu = cpu[t], !.kind = kind[t],
                              !.seq = count[t] + 1]]
    /\ UNCHANGED <<programs, calls, locals, capacity, head, tail, delivered,
                   submitted, preempted>>

(* Fault: the event is submitted before its details are filled in. *)
SubmitEarly(t) ==
    /\ step[t] = "details" /\ Go(t, "submit")
    /\ memory' = [memory EXCEPT ![Slot(position[t])].busy = FALSE]
    /\ UNCHANGED <<programs, calls, locals, seq_counter, capacity, head, tail,
                   delivered, submitted, preempted>>

(* The details; the tracepoints of mmap and mprotect leave file_inode.     *)
FillDetails(t) ==
    /\ step[t] = "details" /\ Go(t, "submit")
    /\ LET e == memory[Slot(position[t])] IN
       memory' = [memory EXCEPT ![Slot(position[t])] =
          [e EXCEPT !.details = call[t],
                    !.file_inode = IF kind[t] = "mmap" THEN e.file_inode ELSE call[t]]]
    /\ UNCHANGED <<programs, calls, locals, seq_counter, capacity, head, tail,
                   delivered, submitted, preempted>>

(* Fault: the record is filled and never submitted. *)
SubmitForgotten(t) ==
    /\ step[t] = "submit" /\ Go(t, "return")
    /\ UNCHANGED <<programs, calls, locals, seq_counter, ringVars, preempted>>

Submit(t) ==
    /\ step[t] = "submit" /\ Go(t, "return")
    /\ memory' = [memory EXCEPT ![Slot(position[t])].busy = FALSE]
    /\ UNCHANGED <<programs, calls, locals, seq_counter, capacity, head, tail,
                   delivered, submitted, preempted>>

(* The call is over; what its registers held does not matter any more. *)
End(t) ==
    /\ step[t] = "return" /\ Go(t, "idle")
    /\ call' = [call EXCEPT ![t] = 0]
    /\ cpu' = [cpu EXCEPT ![t] = AnyCpu] /\ kind' = [kind EXCEPT ![t] = "report"]
    /\ count' = [count EXCEPT ![t] = 0] /\ position' = [position EXCEPT ![t] = 0]
    /\ UNCHANGED <<calls, seq_counter, ringVars, preempted>>

Emit(t) == \/ Reserve(t) \/ LoadCounter(t) \/ StoreCounter(t)
           \/ FillDetails(t) \/ Submit(t)

(* Fault: the newest record is taken first. *)
ConsumeNewest ==
    /\ tail < head /\ ~memory[Slot(head - 1)].busy
    /\ delivered' = Append(delivered, memory[Slot(head - 1)]) /\ head' = head - 1
    /\ UNCHANGED <<step, programs, calls, locals, seq_counter, capacity, tail, memory,
                   submitted, preempted>>

(* ring_buffer__poll hands the oldest record to HandleRingBufferEvent, if  *)
(* it is complete; its size is that of a TelemetryEvent.                   *)
Consume ==
    /\ tail < head /\ ~memory[Slot(tail)].busy
    /\ delivered' = Append(delivered, memory[Slot(tail)]) /\ tail' = tail + 1
    /\ UNCHANGED <<step, programs, calls, locals, seq_counter, capacity, head, memory,
                   submitted, preempted>>
-----------------------------------------------------------------------------
(* A delivered event was written by one call from beginning to end, for    *)
(* the fields its program sets: what an earlier event left in the memory   *)
(* of the record shows through nowhere else.  (A text counts as set once   *)
(* its terminator is; what follows it, and the parts of the details that   *)
(* this kind of event has no use for, are not told apart.)                 *)
DeliveredIntact ==
    \A i \in 1..Len(delivered) : LET e == delivered[i] IN
       /\ ~e.busy /\ e.header # 0 /\ e.details = e.header
       /\ e.file_inode # e.header => e.kind = "mmap"

(* An event whose call had submitted it before another call began is       *)
(* delivered before the event of that call, on whatever CPUs they ran:     *)
(* the consumer never passes a record that is still busy.                  *)
DeliveredInOrder ==
    \A i, j \in 1..Len(delivered) :
       <<delivered[i].header, delivered[j].header>> \in submitted => i < j

(* seq_counter: on a CPU where no call ever preempted another, the events  *)
(* carry 1, 2, 3... in the order of delivery: those before the one with    *)
(* number n carry the numbers below n, each once.  An event is numbered    *)
(* after its reservation, so an event that was dropped leaves no gap.      *)
NumbersWithoutGap ==
    \A c \in Cpu \ preempted :
       LET ofCpu == {i \in 1..Len(delivered) : delivered[i].cpu = c} IN
       \A i \in ofCpu :
          /\ delivered[i].seq # 0
          /\ {delivered[j].seq : j \in {k \in ofCpu : k < i}} = 1..(delivered[i].seq - 1)

(* The consumer waits at a busy record, and with it everything behind it.  *)
(* A busy record always belongs to a call that is still running, so that   *)
(* this ends with that call.                                               *)
BusyIsOwned ==
    \A p \in tail..(head - 1) :
       memory[Slot(p)].busy =>
          \E t \in Active : /\ position[t] = p
                            /\ step[t] \in {"load", "store", "details", "submit"}
=============================================================================

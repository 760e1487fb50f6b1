# Kinnector Core in TLA+

TLA+ models of Kinnector Core on Linux and Windows, the runs with which TLC
checks them on small instances, and TLAPS proofs for every instance. Paths below
are relative to the repository.

## The system

| Part | Source | Module | State |
|---|---|---|---|
| FFI engine (Linux) | `src/ffi.cpp` | `Engine` | modelled |
| Telemetry sender (Linux) | `src/linux/linux_ipc.cpp` | `SocketSender`, `TelemetrySender` | modelled |
| TTY sender | `src/ffi.cpp` (class `LinuxTtyTelemetrySender`) | `SocketSender`, `TtySender` | modelled |
| What a Linux sender promises | `include/kinnector/ipc.h` | `DeliveryChannel` | abstract |
| eBPF loader | `src/linux/ebpf_loader.cpp` | `EbpfLoader`, map calls in `KernelHooks` | modelled |
| Fanotify monitor | `src/linux/fanotify.cpp` | `FanotifyMonitor` (part of `Engine`) | modelled |
| LSM hooks, tracepoints | `src/linux/ebpf/kinnector.bpf.c` | `KernelHooks`, `HookSteps` | partly |
| Event ring buffer, sequence numbers | `src/linux/ebpf/kinnector.bpf.c` | `EventRing` (part of `HookSteps`) | modelled |
| TTY probes | `src/linux/ebpf/kinnector.bpf.c`, `ebpf_loader.cpp` | `TtyProbes` | modelled |
| Event layout | `include/kinnector/telemetry.h`, `src/telemetry.cpp` | kinds in `KernelHooks`, unset fields in `EventRing` | partly |
| FFI engine (Windows) | `src/ffi.cpp` | `WindowsEngine` | modelled |
| Windows sender | `src/windows/windows_ipc.cpp` | `WindowsSender` (part of `WindowsEngine`) | modelled |
| ETW consumer | `src/windows/etw_consumer.cpp` | `EtwConsumer` (part of `WindowsEngine`) | modelled |
| Windows runner, helpers, warden helper, test programs | `src/windows`, `src/linux` | | no state to model |
| macOS | named in `README.md` and `src/ipc.cpp` | | no source |

The agent loads the engine as a library. On Linux `start_telemetry_engine` starts
both senders (a thread each that connects to the agent), then the loader, which
attaches the BPF programs and polls their ring buffers in a thread, then the
fanotify monitor with its thread. The poll and monitor threads, and callers of
`send_telemetry_event`, call `SendEvent`. `stop_telemetry_engine` stops the TTY
sender, the loader, fanotify and the sender, in that order, under `g_ffi_mutex`.

On Windows `initialize_telemetry_engine` creates an ETW session,
`start_telemetry_engine` starts the sender and a trace thread that consumes the
session and calls `SendEvent` from its callback, and `stop_telemetry_engine`
stops the session, waits at most five seconds for that thread, and stops the
sender.

## Modules

**SocketSender** is what both Linux senders share. `running_`, `connected_` and
`socket_fd_` are atomics that producers, the connection thread and the control
thread access without a common lock, so every step is at most one access to an
atomic or one system call. Descriptors are numbers in one table that other
threads of the process use too: a closed number may come back as another file.
A connection is the sequence of what it carried: `"token"`, events, and
`"partial"` for a truncated event. `write` may take a part of an event; the
agent may close at any time. SIGPIPE is taken to be ignored.

**TelemetrySender** adds the permission check and the handshake, and the order
in which `ffi.cpp` starts and stops things: no `SendEvent` overlaps `Start` or
`Stop`. `Engine` checks this assumption (`SendersQuiet`). **TtySender** has no
handshake, and its `Stop` may overlap `SendTtyEvent`, because the engine stops
it before it joins the poll thread.

**DeliveryChannel** is the abstract sender: an event is handed over once, and is
then delivered whole to one connection whose agent accepted it, truncated as the
last thing on a connection, or dropped; it is never kept for later. Both
senders are shown to implement it (`ImplementsChannel`, `TtyImplementsChannel`).
The mapping forgets threads, descriptors and locks: `held` is the set of events
of producers inside `SendEvent` that have not written yet, `log` what the
connections carried.

**EbpfLoader** has `Initialize`, `Start` (LSM, fallback, ring buffer), `Stop` and
the poll thread. libbpf is external: each open, load and attach may fail. The
hooks `Start` does not insist on count as one per kind.

**FanotifyMonitor** has `Initialize`, `Start`, `Stop` and the monitor thread. A
thread blocked in `read(2)` is not woken by `close(2)`. The thread loads
`fanotify_fd_` and then reads, so `Stop` may close the number in between and
another thread of the process may get it: the read then is of somebody else's
file. Each event is either filtered or handed to the callback.

**Engine** instantiates the loader and the monitor and adds `ffi.cpp`. A sender
is reduced to whether it runs and who is inside `SendEvent`.

**KernelHooks** models the programs and the map calls of the host. A hook is one
step of the task that runs it, except for the flags in `file_open`:
`file_open_lookup` reads them and `file_open_update` writes them back
(`kinnector.bpf.c:377` and `:380`), and calls of the host may fall in between.
Tasks are threads: they share a pid and have start times of their own; pids are
reused. `execve(2)` (external) goes on after its hook: it fails, or it succeeds
once the other threads are gone, and the task then has the start time, hence the
key, of the first thread of its process. Maps keyed by process have a
capacity, and so has the ring buffer. Paths, addresses and ports are reduced to
the classes the hooks tell apart, category masks are sets. History variables
record which flags have a cause and which ones must stay (`opened`, `kept`), whom
the code confined (`confined`), whose threshold is under a key they no longer
have (`misfiled`), whom a hook let through nevertheless (`escaped`), and which
keys have no exit to come (`orphans`).

**EventRing** takes the emission of an event apart: reserve, load and store of the
per-CPU counter, details, submit, and the consumer in the poll thread. Programs
run on several CPUs, and one may preempt another on the same CPU between the load
and the store. Memory of the ring buffer is used again without being cleared; a
record remembers which call wrote which part of it.

**HookSteps** adds `file_open` to it, one step per access to a map, the lookup and
the update of the flags included, with the host's calls in between. `policy`
collects the answers the maps called for during the call. Maps have no capacity
here, and the category of a file is the file itself. In both models reading
through the pointer a lookup returns belongs to the lookup.

**TtyProbes** has the probes on `tty_write` and `tty_read`, attached and detached
one after the other by the loader, thread ids that are reused, and returns the
kernel does not report.

**WindowsSender** and **EtwConsumer** are open modules that **WindowsEngine**
composes with the Windows branches of `ffi.cpp`. Handles are reused like
descriptors. `Stop` of the sender does not lock `send_mutex_`; `pipe_handle_` is
a plain member, so that `SendEvent` uses the value it tested or a newer one. A
session outlives its process and is found by name: a crashed process may have
left one. `Stop` of the consumer may give up after five seconds (`overran`).
A connection is reduced to what the agent can make of it: nothing yet, ready for
events, ending in a partial event, or broken.

Operators whose comment starts with "Fault:" are no part of the models. Each is
a plausible mistake in the definition after it; with the mistake in place TLC
finds the property violated that `PROJECT.json` names next to it.

## Runs

Passing runs:

| Run | Checks | Distinct states |
|---|---|---|
| `sender` | `DescriptorsOwned`: nobody writes to or closes a reused descriptor number. `StreamsWellFormed`: token first, events only after acceptance, nothing after a truncated event. `TruncatedStreamCloses`, `StopReturns`, `ImplementsChannel` | 252,304 |
| `tty` | `OnlyStopStrandsDescriptors`, `TruncatedEventIsLast`, `TtyStopReturns`, `TtyImplementsChannel` | 415,344 |
| `engine` | loader: `PollHasRing`, `StopLeavesOnlyFilePermission`; monitor: `StrayReadIsLast`, a reused descriptor number is read at most once; engine: `SendersQuiet`, `IdleEngineHasNoThreads`, `RunningEngineIsHooked`, `StopIsFinal`; `StopReturns` | 533,505 |
| `hooks_lsm` | `FlagsHaveCause`, `FlagsComplete`, `UntrustedIsContained` | 2,938,770 |
| `hooks_fallback` | `ExitCleansUp` | 2,335,818 |
| `hook_steps` | `AnswerWasDue`: an answer was right at some moment of the call. `DeliveredIntact`, `DeliveredInOrder`, `NumbersWithoutGap`, `BusyIsOwned`: events are whole, in order, numbered without a gap where nothing was preempted, and the consumer waits only for calls that run | 4,427,662 |
| `tty_probes` | `ReadsPaired`, `ReportedOnce`, `PendingHasReader`: only a missed return can pair a read with a wrong buffer or leave an entry | 164,343 |
| `windows` | `TracesOwnSession`, `OneConsumer`, `HandlesOwned`, `ConnectedHasPipe`, `WindowsStreams`, `StoppedStaysDeaf`, `CallsReturn`, `TraceThreadEnds` | 273,181 |

The runs `sender`, `engine` and `hooks_lsm` check the type invariant of their
module as well; in the other modules it declares what the variables range over
and no run lists it. The loader has no run of its own: it is checked under the
calls the engine makes.

Several properties hold under a condition that is part of what they say.
`HandlesOwned` and `WindowsStreams` hold as long as no wait for the trace thread
has expired, `ConnectedHasPipe` until the first `Stop`, `NumbersWithoutGap` on
CPUs without preemption, `AnswerWasDue` for a denial with at most one update
during the call. `DeliveredIntact` is about fields: what follows the terminator
of a text and the details this kind of event has no use for are not cleared
either, and the model does not tell them apart.

The properties of the hooks name the cases in which the code does not do what a
reader may expect:

- `FlagsHaveCause`, `FlagsComplete`: a call of the host that falls between the
  lookup and the update of a `file_open` of the same task is undone. A flag the
  host deletes comes back, one it writes is lost. What the open itself adds is not
  lost, and no flag comes from another task.
- `UntrustedIsContained`: an exec by a thread that is not the first of its process
  files the threshold under the key of that thread; the image then runs under the
  key of the first thread, which has the threshold of the old image or none. Such
  a task is let through until its next exec or an update by the host.
- `ExitCleansUp`: what such a thread had in the maps stays there, because its key
  never exits, and so does what the host writes for a task that has exited.

Two properties say that a call returns unless a blocking call never does.
`StopReturns` of the engine: the poll thread looks at `running_` only when
`ring_buffer__poll` comes back, which is when it finds the ring buffers drained.
Its handlers write to standard output and to the agent, `file_permission` reports
those writes into the same ring buffer (unless the host trusts its own process),
and a write to an agent that does not read may block: nothing in the code bounds
either. The monitor thread may stay in `read` on a quiet mount (`engine_close`),
or in a write to the agent. The property says that one of these three is the only
thing that can keep a stop waiting. `CallsReturn` and `TraceThreadEnds` on
Windows likewise except a `WriteFile` to an agent that does not read, which may
hold `send_mutex_` for ever. They do not except the handshake read: it ends when
the agent answers or goes away, which is assumed.

Runs in which TLC refutes what a comment or document says:

| Run | What is said | What happens |
|---|---|---|
| `sender_stop` | `ffi.h:28`, stop disconnects IPC | `Stop` between handshake and `linux_ipc.cpp:104` returns with the connection open |
| `sender_connected` | `ipc.h:34`, "connected and authenticated" | a reconnect between `linux_ipc.cpp:56` and `:58` leaves `connected_` set without a socket; the thread never reconnects |
| `engine_close` | `fanotify.cpp:73`, closing unblocks `read` | `Stop` waits for the next file event |
| `hooks_full` | `kinnector.bpf.c:592`, threshold 1 for untrusted files | in LSM mode exited tasks keep their entries; a full map drops the threshold |

More disagreements were met while modelling and have no run, because one line of
the code shows them or because a passing property states their exact extent:

- `README.md:39` says process termination is monitored; the exit tracepoint is
  attached in fallback mode only (`ebpf_loader.cpp:268`).
- `kinnector.bpf.c:840` says "emit ProcessStop events"; the exit of every thread
  emits one, with the pid of the process (`:854`).
- `kinnector.bpf.c:14` says "must match C++ TelemetryEvent"; `EVT_FILE_WRITE` is
  4 and `EVT_MEMORY_MAP` 5 (`:110`), `FileWrite` is 5 and `FileCreate` 4
  (`telemetry.h:12`).
- `kinnector.bpf.c:258` says "monotonic sequence number"; the increment is a load
  and a store, so a program that preempts another between them makes both use
  one number. `NumbersWithoutGap` excludes just those CPUs. It also shows that
  a dropped event leaves no gap by which the agent could notice it.
- The mmap and mprotect tracepoints leave a field of the event unset, which then
  shows what an earlier event left in the ring buffer (`DeliveredIntact` names
  the field and the programs).
- `ipc.h:25` says `Start` "waits for connection/handshake"; it returns as soon as
  the thread exists, on both systems.
- On Windows a connection published while `Stop` runs leaves `connected_` set
  with an invalid handle, or the pipe open after `Stop`; `ConnectedHasPipe` is
  therefore about the time before the first `Stop`.
- On Windows `start_telemetry_engine` succeeds after a stop, but without a
  session: only `initialize_telemetry_engine` creates one and it does so once
  (`StoppedStaysDeaf`).
- The link of `file_permission` is not stored, so it stays attached after `Stop`
  (`ebpf_loader.cpp:234`, which says so; `StopLeavesOnlyFilePermission` shows that
  it is the only one, unless a failed `Start` is repeated).
- When `LoadAndAttachLsm` fails after some attaches, those programs stay attached
  beside the tracepoints (`ebpf_loader.cpp:81`).
- A denied connect is marked in `pending_network_connect` as well
  (`kinnector.bpf.c:485`), whose comment says "active outbound" (`:145`).

### Bounds

- Senders: two producers contend for the mutex, two descriptor numbers force
  reuse, two connections allow a failure and a reconnect, two events allow one
  after a truncated one. The TTY sender has one producer, as in the engine.
- Engine: three objects allow a partial LSM attach, a fallback and a retry.
- Hooks: `MaxStart` 3 and `MaxLive` 2 allow a thread beside its process and a
  reused pid; `MapCap` 3 gives room for all tasks, 2 does not. `MaxUpdates` 2
  allows blocking to be switched on and a change to one task. Two levels are the
  one that confines and one that does not; level 0, which refuses an image and
  changes nothing, is in `hooks_full`. `RingCap` is 0
  where events do not matter: a full ring buffer and one that drops everything
  look the same to the maps.
- Hook steps: two tasks on two CPUs run at the same time or preempt each other.
  Three calls, counting those of the host, allow a record to be used again in a
  ring buffer of one or two records, and two updates during one `file_open`.
- TTY probes: two thread ids with four reads force reuse of an id while another
  thread reads; a map of one entry and a ring buffer of one event fill up.
- Windows: two starts, with a trace thread each, allow the old thread to live on
  beside the new one; two handles and two instances of the pipe allow reuse and
  a reconnect. A connection may carry any number of events. At most `MaxBuffered`
  (2) events are buffered at a time, but there is no bound on how many are raised
  and handled, so that consumption could go on for ever.

Symmetry is used in the hooks and TTY probe runs only, which check no liveness,
over sets of model values no definition distinguishes. Deadlock is not checked
where the bounds on calls, or a host that makes no more calls, let the system stop.

### Fairness

Linux senders: weak fairness of each thread's steps, the scheduler runs what can
run, except that nothing makes the `write` of a `SendEvent` return. `connect(2)` is
taken to return. The agent answers a token it received or drops the connection;
without that `PerformHandshake` has no timeout and `Stop` may wait for ever
(`StopReturns` of the telemetry sender; the TTY sender has no handshake). Nothing
makes the agent accept or read.

Engine: weak fairness of the threads outside callbacks (`PollRuns`, `MonitorRuns`
and the steps of the call in progress), and strong fairness of the end of a batch
of file events, of which one `read` returns finitely many. No fairness makes a
callback return, the mount be written to, a poll find the ring buffers drained or
the host call anything.

Windows: strong fairness of each thread that is not in `WriteFile` (the thread in
the FFI, the connection thread, the trace threads), which share `send_mutex_`: a
thread that finds the mutex free again and again gets it. A `WriteFile` to an agent
that is gone returns, to one that lives it may block. The agent reads a token and
answers it or goes away; after that it is free to do nothing, and it need not
close a pipe it has accepted.

## Proofs

The theorems hold for every value of the constants: any number of producers,
tasks, CPUs, threads, descriptors, handles, events and calls. Every safety
property of a passing run, and both refinements, has one.

| Module | Theorems (property) |
|---|---|
| `TelemetrySenderProofs` | `TypeCorrect` (`TypeOK`), `DescriptorsAlwaysOwned` (`DescriptorsOwned`), `StreamsAlwaysWellFormed` (`StreamsWellFormed`), `SenderImplementsChannel` (`ImplementsChannel`) |
| `TtySenderProofs` | `OnlyStopEverStrands` (`OnlyStopStrandsDescriptors`), `TruncatedEventAlwaysLast` (`TruncatedEventIsLast`), `TtySenderImplementsChannel` (`TtyImplementsChannel`) |
| `EngineProofs` | `TypeCorrect` (`TypeOK`), `PollAlwaysHasRing` (`PollHasRing`), `StopAlwaysDetaches` (`StopLeavesOnlyFilePermission`), `SendersAlwaysQuiet` (`SendersQuiet`), `IdleNeverHasThreads` (`IdleEngineHasNoThreads`), `RunningAlwaysHooked` (`RunningEngineIsHooked`), `StrayReadAlwaysLast` (`StrayReadIsLast`), `StopAlwaysFinal` (`StopIsFinal`) |
| `KernelHooksProofs` | `TypeCorrect` (`TypeOK`), `FlagsAlwaysHaveCause` (`FlagsHaveCause`), `FlagsAlwaysComplete` (`FlagsComplete`), `UntrustedAlwaysContained` (`UntrustedIsContained`), `ExitAlwaysCleansUp` (`ExitCleansUp`) |
| `HookStepsProofs` | `AlwaysDeliveredIntact` (`DeliveredIntact`), `AlwaysDeliveredInOrder` (`DeliveredInOrder`), `BusyAlwaysOwned` (`BusyIsOwned`), `NumbersNeverGap` (`NumbersWithoutGap`), `AnswersAlwaysDue` (`AnswerWasDue`) |
| `TtyProbesProofs` | `ReadsAlwaysPaired` (`ReadsPaired`), `ReportedAtMostOnce` (`ReportedOnce`), `PendingAlwaysHasReader` (`PendingHasReader`) |
| `WindowsEngineProofs` | `AlwaysTracesOwnSession` (`TracesOwnSession`), `AlwaysOneConsumer` (`OneConsumer`), `StoppedAlwaysDeaf` (`StoppedStaysDeaf`), `HandlesAlwaysOwned` (`HandlesOwned`), `ConnectedAlwaysHasPipe` (`ConnectedHasPipe`), `StreamsNeverBroken` (`WindowsStreams`) |

`SocketSenderProofs` has the lemmas that both Linux senders use.

The assumptions are those of the modules: the special values (`NoFd`, `Nobody`,
...) are not ordinary ones, the holders of a mutex have different names, bounds
are natural numbers, a ring buffer has room for a record, there is a CPU, and on
Windows there is a thread for every start. Three theorems have a hypothesis of their own.
`UntrustedAlwaysContained` and `FlagsAlwaysComplete` assume `MaxStart <= MapCap`,
room in a map for every task there has been: the code ignores the result of an
update, and `hooks_full` shows what happens without room. `ExitAlwaysCleansUp`
assumes fallback mode (`~LsmMode`), the one in which the exit tracepoint is
attached.

The properties are seldom inductive. What each proof adds:

*Telemetry sender.* `DescriptorsOwned` does not say who may close a descriptor.
`OwnerInv` adds that the producer in the critical section is the holder of
`send_mutex_` (`MutexInv`), that no `SendEvent` overlaps `Stop` (`ControlInv`),
that the descriptor a producer works on is an authenticated connection until it
closes it (`ProducerInv`), that so is `socket_fd_` unless a producer is about to
reset it (`SocketInv`), and that the descriptors of `Stop` and of the connection
thread are nobody else's (`StopInv`, `LoopInv`). `StreamInv` adds that a
connection is behind one descriptor at most, that the token is the first item,
and that a truncated connection is one whose producer is about to close it.

*TTY sender.* `Stop` overlaps `SendTtyEvent`, so ownership only holds until the
first `Stop` (`OwnerInv`). That a truncated event is the last thing on its
connection does not need it: a truncated connection that is still open is behind
the descriptor of a producer that holds `send_mutex_` and is about to close it
(`TruncatedInv`), and a connection is behind one descriptor at most (`ConnInv`).

*Refinement.* From these invariants every step of a sender is a step of
`DeliveryChannel` or leaves its variables alone: entering `SendEvent` takes an
event, the write delivers or truncates it, returning without a write drops it. An
event is held by one producer only, which makes it leave `held` at that step.

*Engine.* `LoaderInv` and `FanInv` hold whatever the caller does with loader and
monitor: the flags say which threads and objects exist. `CallInv` ties both to
the place where the call that holds `g_ffi_mutex` is: which backends have been
started by then, and which have been joined.

*Maps of the hooks.* Entries of exited tasks stay, so the invariants are about all
keys in a map, and `BirthInv` says that a new task never gets an old key.
`BirthInv` also says that the key of the first thread, which an exec may take over,
is one of those born. `FlagInv` and `CompleteInv` compare the flags, and what a
`file_open` past its lookup is about to write (`new_flags`), with the opens of the
task and the calls of the host. `ConfinedInv` says that a confined live task has
threshold 1 in the map, unless it is misfiled. That a map with room never refuses a
task follows from counting the tasks born. The type invariant needs `DomainInv`:
the keys of a map are tasks that were born.

*Ring buffer.* `Rec(p)` is the event at position p, in the buffer or already taken
out, and `Done(p)` says that it is complete; the consumer changes neither.
`HoldInv`: an event that is not complete has one owner, so that nobody writes a
complete one. Two positions within the capacity use different memory
(`SlotsDiffer`, about the remainder). `FillInv` says what the owner has filled in
so far. `OrderInv`: if m was complete when n began, m is in front of wherever n
is or gets. `SeqInv`, for a CPU without preemption: one call at a time, the
register still agrees with the counter when it is stored, and the numbers up to
the counter are in the records in the order of their positions.

*Answers.* `Seen(t)` is the answer that follows from what the call has read and,
for what it has not read, from the maps as they are. With no update during the
call it is the present answer; the first update leaves it the old answer or makes
it the new one, depending on whether that map was read already; both were due.
A permission needs less: the lookup that decides it is enough by itself.

*TTY probes.* Reads are numbered, an entry belongs to the read in progress under
its thread id or to one whose return was missed, and no entry is for a read that
was reported.

*Windows.* Three layers. The consumer: a session exists only from initialization
to the first stop, and a trace thread opens it only then. The calls: while `Stop`
of the sender runs nobody is in `SendEvent`, unless `Stop` of the consumer once
waited in vain (`Calm`). The sender: the mutex keeps the pipe that is published,
the one being opened and the one being closed apart (`OwnerInv`, `StreamInv`).

TLC finds no violation of these inductive invariants on the instances of the
passing runs either.

Only model-checked is liveness, which is out of the prover's reach:
`StopReturns`, `TruncatedStreamCloses`, `TtyStopReturns`, `CallsReturn` and
`TraceThreadEnds`; and the four refuted claims, where a counterexample is the
result. The type declarations of the modules without a listed type invariant are
proved only as far as the proofs above need them.

## Not modelled

- The codes, offsets and sizes of the two declarations of `TelemetryEvent`:
  constants to compare, with no behaviour.
- Message texts, parsing of ETW properties, event numbers of the ETW consumer
  (one thread at a time counts, by `OneConsumer`), what the signature and zone
  queries find, the path filter of fanotify.
- Failing probe reads in the hooks. `LookupTrustedExecInode` and `mmap_file` change
  nothing: the one only reads, the other is never attached.
- The senders inside `Engine` step by step: the product is out of TLC's reach.
  `SendersQuiet` is the interface between the two models.
- The steps of the other LSM hooks: `file_open` has the most lookups. Connect,
  ptrace, mprotect and listen look up trust, mode and threshold in the same order;
  exec reads the mode and the one entry it decides on.
- The Windows runner, the driver client and the clipboard guard, the warden helper
  (demonstrations, stubs, a placeholder) and macOS, which has no source here.

-------------------------- MODULE FanotifyMonitor --------------------------
(***************************************************************************)
(* FanotifyMonitor (fanotify.cpp): Initialize, Start, Stop and the thread  *)
(* that reads file events.  fanotify_fd_ is a plain int: the thread may    *)
(* have loaded the number before Stop closes it, and read(2) then finds    *)
(* whatever file has got the number meanwhile.                             *)
(*                                                                         *)
(* External: a thread that is blocked in read(2) keeps the fanotify group  *)
(* alive, so close(2) in another thread neither wakes it nor stops it from *)
(* receiving the next event (close(2), "Multithreaded processes").         *)
(***************************************************************************)
EXTENDS Naturals

VARIABLES
    fan_initialized, fan_running,
    fanotify_fd_,   \* TRUE: the number of the descriptor, FALSE: -1
    fanFile,        \* the file behind that number
    monPc, monFd,   \* monitor_thread_, the number it has loaded
    fanPc,          \* step of Stop
    strays          \* history: reads of a file that is not the fanotify group

flags == <<fan_initialized, fan_running, fanotify_fd_, fanFile, fanPc>>
vars == <<flags, monPc, monFd, strays>>

TypeOK ==
    /\ fan_initialized \in BOOLEAN /\ fan_running \in BOOLEAN
    /\ fanotify_fd_ \in BOOLEAN /\ monFd \in BOOLEAN /\ strays \in Nat
    /\ fanFile \in {"closed", "fanotify", "other"}
    /\ monPc \in {"none", "check", "load", "read", "blocked", "stray", "error", "events", "callback", "done"}
    /\ fanPc \in {"idle", "close", "reset", "join"}

Init ==
    /\ fan_initialized = FALSE /\ fan_running = FALSE /\ fanotify_fd_ = FALSE
    /\ fanFile = "closed" /\ monPc = "none" /\ monFd = FALSE /\ fanPc = "idle"
    /\ strays = 0
-----------------------------------------------------------------------------
(* fanotify_init and fanotify_mark succeed; when one fails nothing changes. *)
Initialize ==
    /\ fanPc = "idle" /\ ~fan_initialized /\ fanFile # "other"
    /\ fan_initialized' = TRUE /\ fanotify_fd_' = TRUE /\ fanFile' = "fanotify"
    /\ UNCHANGED <<fan_running, fanPc, monPc, monFd, strays>>

Start ==
    /\ fanPc = "idle" /\ fan_initialized /\ ~fan_running
    /\ fan_running' = TRUE /\ monPc' = "check"
    /\ UNCHANGED <<fan_initialized, fanotify_fd_, fanFile, fanPc, monFd, strays>>

(* Fault: Stop relies on the closed descriptor to end the thread. *)
StopKeepsRunning ==
    /\ fanPc = "idle" /\ fan_running
    /\ fanPc' = "close"
    /\ UNCHANGED <<fan_initialized, fan_running, fanotify_fd_, fanFile, monPc, monFd, strays>>

(* Stop of a monitor that is not running returns at once. *)
Stop ==
    /\ fanPc = "idle" /\ fan_running
    /\ fan_running' = FALSE /\ fanPc' = "close"
    /\ UNCHANGED <<fan_initialized, fanotify_fd_, fanFile, monPc, monFd, strays>>

StopClose ==
    /\ fanPc = "close"
    /\ fanFile' = "closed" /\ fanPc' = "reset"
    /\ UNCHANGED <<fan_initialized, fan_running, fanotify_fd_, monPc, monFd, strays>>

StopReset ==
    /\ fanPc = "reset"
    /\ fanotify_fd_' = FALSE /\ fanPc' = "join"
    /\ UNCHANGED <<fan_initialized, fan_running, fanFile, monPc, monFd, strays>>

StopJoin ==
    /\ fanPc = "join" /\ monPc = "done"
    /\ monPc' = "none" /\ fan_initialized' = FALSE /\ fanPc' = "idle"
    /\ UNCHANGED <<fan_running, fanotify_fd_, fanFile, monFd, strays>>

StopStep == StopClose \/ StopReset \/ StopJoin
-----------------------------------------------------------------------------
(* MonitorLoop. *)
MonitorGo(from, to) ==
    /\ monPc = from /\ monPc' = to
    /\ UNCHANGED <<flags, monFd, strays>>

MonitorCheck == MonitorGo("check", IF fan_running THEN "load" ELSE "done")

MonitorLoad ==
    /\ monPc = "load" /\ monPc' = "read" /\ monFd' = fanotify_fd_
    /\ UNCHANGED <<flags, strays>>

(* read(2): EBADF ends the loop. *)
MonitorRead ==
    /\ monPc = "read" /\ monFd' = FALSE
    /\ monPc' = IF ~monFd \/ fanFile = "closed" THEN "done"
                ELSE IF fanFile = "fanotify" THEN "blocked" ELSE "stray"
    /\ strays' = IF monPc' = "stray" THEN strays + 1 ELSE strays
    /\ UNCHANGED flags

(* A failed read ends the loop only when running_ is clear by then. *)
MonitorError == MonitorGo("error", IF fan_running THEN "check" ELSE "done")

(* The events of one read: each is skipped or handed to the callback. *)
MonitorHandle == MonitorGo("events", "callback")
MonitorReturn == MonitorGo("callback", "events")
MonitorBatchDone == MonitorGo("events", "check")

MonitorLoop == \/ MonitorCheck \/ MonitorLoad \/ MonitorRead \/ MonitorError
               \/ MonitorHandle \/ MonitorReturn \/ MonitorBatchDone

(* A file is written on the mount; a signal or an error ends the read; so  *)
(* does what the other file has to read, taken for events.                 *)
FileEvent == MonitorGo("blocked", "events")
ReadFails == MonitorGo("blocked", "check") \/ MonitorGo("blocked", "error")
StrayReadEnds == \/ MonitorGo("stray", "events") \/ MonitorGo("stray", "check")
                 \/ MonitorGo("stray", "error")

(* Another thread opens a file under the number Stop has closed. *)
NumberReused ==
    /\ fanPc \in {"reset", "join"} /\ fanFile = "closed" /\ fanFile' = "other"
    /\ UNCHANGED <<fan_initialized, fan_running, fanotify_fd_, fanPc, monPc, monFd, strays>>
-----------------------------------------------------------------------------
(* Stop clears running_ before it closes the descriptor: whatever the read *)
(* finds under the old number, it is the last read of the thread.          *)
StrayReadIsLast == strays <= 1 /\ (monPc = "stray" => ~fan_running)
=============================================================================

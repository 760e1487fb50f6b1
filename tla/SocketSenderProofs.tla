------------------------- MODULE SocketSenderProofs -------------------------
(***************************************************************************)
(* What the proofs about both Linux senders share: who may be where in     *)
(* SendEvent, what a truncated connection is, and the lemmas that show the *)
(* senders to implement DeliveryChannel (which events are in the hands of  *)
(* producers, and that no two producers ever hold the same one).           *)
(***************************************************************************)
EXTENDS SocketSender, SequenceTheorems, TLAPS

Critical == {"write", "failClear", "failClose", "failReset"}
Holding == {"write", "failClear", "failClose"}

(* A failing SendEvent that has closed its descriptor but not reset         *)
(* socket_fd_ yet: only then may socket_fd_ be stale.                       *)
Resetting == \E p \in Producers : pc[p] = "failReset"

Item == Event \cup {"token", "partial"}

Truncated == {c \in Conn : \E i \in 1..Len(stream[c]) : stream[c][i] = "partial"}

(* A connection is behind one descriptor at most, and behind none before   *)
(* connect(2) creates it.                                                  *)
ConnInv ==
    /\ \A f, g \in Fd : files[f] \in Conn /\ files[f] = files[g] => f = g
    /\ \A f \in Fd : files[f] \in Conn => peer[files[f]] # "unused"
    /\ \A c \in Conn : peer[c] = "unused" => stream[c] = <<>>

(* A truncated connection is one its producer is about to close. *)
TruncatedInv ==
    \A f \in Fd : files[f] \in Truncated =>
        \E p \in Producers : pc[p] \in {"failClear", "failClose"} /\ fd[p] = f

(* Producers between the check of connected_ and the return of write(2),   *)
(* and the events they hold.                                               *)
InHand == {q \in Producers : pc[q] \in {"lock", "write"}}
Held == {ev[p] : p \in InHand}

HeldTypes ==
    /\ pc \in [Producers -> ProducerStep]
    /\ ev \in [Producers -> Event \cup {NoEvent}]
    /\ unsent \subseteq Event

(* An event in hand has been taken from the unsent ones, by one producer.  *)
HeldInv ==
    \A p \in InHand : /\ ev[p] \in Event \ unsent
                      /\ \A q \in InHand : ev[p] = ev[q] => p = q
-----------------------------------------------------------------------------
(* What Append does to a connection's stream, element by element. *)
LEMMA AppendItem ==
    ASSUME NEW s \in Seq(Item), NEW x \in Item
    PROVE  /\ Append(s, x) # <<>>
           /\ Len(s) \in Nat /\ Len(Append(s, x)) = Len(s) + 1
           /\ \A i \in 1..Len(s) : Append(s, x)[i] = s[i]
           /\ Append(s, x)[Len(s) + 1] = x
  BY AppendProperties, LenProperties

(* SendEvent is called: the event moves from the unsent to the held ones,  *)
(* or is dropped because there is no connection.                           *)
LEMMA SendCheckHeld ==
    ASSUME HeldTypes, HeldInv, NEW p \in Producers, SendCheck(p)
    PROVE  /\ HeldInv'
           /\ \E e \in unsent : /\ unsent' = unsent \ {e}
                                /\ Held' = Held \cup {e} \/ Held' = Held
<1>1. PICK e \in unsent :
         /\ unsent' = unsent \ {e}
         /\ IF connected_
            THEN pc' = [pc EXCEPT ![p] = "lock"] /\ ev' = [ev EXCEPT ![p] = e]
            ELSE UNCHANGED <<pc, ev>>
  BY DEF SendCheck
<1>2. CASE ~connected_
  BY <1>1, <1>2 DEF HeldInv, Held, InHand, HeldTypes
<1>3. CASE connected_
  <2>1. InHand' = InHand \cup {p} /\ p \notin InHand
    BY <1>1, <1>3 DEF SendCheck, InHand, HeldTypes
  <2>2. ev'[p] = e /\ \A q \in InHand : ev'[q] = ev[q]
    BY <1>1, <1>3, <2>1 DEF InHand, HeldTypes
  <2>3. Held' = Held \cup {e}
    BY <2>1, <2>2 DEF Held
  <2>4. HeldInv'
    BY <1>1, <2>1, <2>2 DEF HeldInv, HeldTypes
  <2> QED
    BY <1>1, <2>3, <2>4
<1> QED
  BY <1>2, <1>3

(* A producer that leaves lock or write gives up its event, for good. *)
LEMMA LeaveHeld ==
    ASSUME HeldTypes, HeldInv, NEW p \in InHand, UNCHANGED unsent,
           NEW s \in ProducerStep \ {"lock", "write"}, pc' = [pc EXCEPT ![p] = s],
           UNCHANGED ev \/ ev' = [ev EXCEPT ![p] = NoEvent]
    PROVE  /\ HeldInv'
           /\ ev[p] \in Held /\ ev[p] \in Event
           /\ Held' = Held \ {ev[p]}
<1>1. InHand' = InHand \ {p}
  BY DEF InHand, HeldTypes
<1>2. \A q \in InHand \ {p} : ev'[q] = ev[q] /\ ev[q] # ev[p]
  BY DEF InHand, HeldTypes, HeldInv
<1>3. Held' = Held \ {ev[p]}
  BY <1>1, <1>2 DEF Held
<1> QED
  BY <1>1, <1>2, <1>3 DEF HeldInv, Held

(* A step that moves no producer into or out of lock and write, and keeps  *)
(* the events of those that are there.                                     *)
LEMMA SameHeld ==
    ASSUME HeldInv, UNCHANGED unsent, InHand' = InHand,
           \A q \in InHand : ev'[q] = ev[q]
    PROVE  HeldInv' /\ Held' = Held
BY DEF HeldInv, Held

(* The rest of SendEvent: waiting for the lock and the handling of a       *)
(* failed write hold no event back, write gives it up.                     *)
LEMMA SendLockHeld ==
    ASSUME HeldTypes, HeldInv, NEW p \in Producers, SendLock(p)
    PROVE  /\ HeldInv' /\ UNCHANGED unsent
           /\ Held' = Held \/ (ev[p] \in Held /\ ev[p] \in Event /\ Held' = Held \ {ev[p]})
<1>1. p \in InHand /\ UNCHANGED unsent
  BY DEF SendLock, InHand
<1>2. CASE socket_fd_ = NoFd
  <2>1. pc' = [pc EXCEPT ![p] = "idle"] /\ ev' = [ev EXCEPT ![p] = NoEvent]
    BY <1>2 DEF SendLock, Return
  <2> QED
    BY <1>1, <2>1, LeaveHeld DEF ProducerStep
<1>3. CASE socket_fd_ # NoFd
  <2>1. pc' = [pc EXCEPT ![p] = "write"] /\ UNCHANGED ev
    BY <1>3 DEF SendLock
  <2>2. InHand' = InHand
    BY <1>1, <2>1 DEF InHand, HeldTypes
  <2> QED
    BY <1>1, <2>1, <2>2, SameHeld
<1> QED
  BY <1>2, <1>3

(* A write, successful or not, takes the event out of the thread's hand. *)
LEMMA WriteHeld ==
    ASSUME HeldTypes, HeldInv, NEW p \in Producers, WriteWhole(p) \/ WriteFails(p)
    PROVE  /\ HeldInv' /\ UNCHANGED unsent
           /\ ev[p] \in Held /\ ev[p] \in Event /\ Held' = Held \ {ev[p]}
<1>1. p \in InHand /\ UNCHANGED unsent
  BY DEF WriteWhole, WriteFails, InHand
<1>2. CASE WriteWhole(p)
  <2>1. pc' = [pc EXCEPT ![p] = "idle"] /\ ev' = [ev EXCEPT ![p] = NoEvent]
    BY <1>2 DEF WriteWhole, Return
  <2> QED
    BY <1>1, <2>1, LeaveHeld DEF ProducerStep
<1>3. CASE WriteFails(p)
  <2>1. pc' = [pc EXCEPT ![p] = "failClear"] /\ UNCHANGED ev
    BY <1>3 DEF WriteFails
  <2> QED
    BY <1>1, <2>1, LeaveHeld DEF ProducerStep
<1> QED
  BY <1>2, <1>3

(* What follows a failed write touches no event any more. *)
LEMMA FailHeld ==
    ASSUME HeldTypes, HeldInv, NEW p \in Producers,
           FailClear(p) \/ FailClose(p) \/ FailReset(p)
    PROVE  HeldInv' /\ UNCHANGED unsent /\ Held' = Held
<1>1. PICK s \in {"failClose", "failReset", "idle"} :
         /\ pc[p] \notin {"lock", "write"} /\ pc' = [pc EXCEPT ![p] = s]
         /\ UNCHANGED ev \/ ev' = [ev EXCEPT ![p] = NoEvent]
         /\ UNCHANGED unsent
  BY DEF FailClear, FailClose, FailReset, Return
<1>2. InHand' = InHand
  BY <1>1 DEF InHand, HeldTypes
<1>3. \A q \in InHand : ev'[q] = ev[q]
  BY <1>1 DEF InHand, HeldTypes
<1> QED
  BY <1>1, <1>2, <1>3, SameHeld
=============================================================================

-------------------------- MODULE DeliveryChannel --------------------------
(***************************************************************************)
(* What every sender of the engine promises about the events handed to     *)
(* SendEvent (ITelemetrySender in ipc.h), whatever threads, descriptors    *)
(* and reconnects are behind it: an event reaches the agent at most once,  *)
(* whole, on a connection whose agent has accepted it; a truncated event   *)
(* ends its connection; and an event that is not delivered is dropped,     *)
(* never kept for later.                                                   *)
(***************************************************************************)
EXTENDS Naturals, Sequences

CONSTANTS Event, Conn

VARIABLES
    fresh,      \* events not yet handed to SendEvent
    held,       \* events in a call of SendEvent
    accepted,   \* connections whose agent has accepted
    log         \* what each connection has carried

vars == <<fresh, held, accepted, log>>

Init ==
    /\ fresh = Event /\ held = {} /\ accepted = {}
    /\ log = [c \in Conn |-> <<>>]

Truncated(c) == log[c] # <<>> /\ log[c][Len(log[c])] = "partial"
-----------------------------------------------------------------------------
(* The sender introduces itself before anything else. *)
Greet(c) ==
    /\ c \notin accepted /\ log[c] = <<>>
    /\ log' = [log EXCEPT ![c] = <<"token">>]
    /\ UNCHANGED <<fresh, held, accepted>>

Accept(c) ==
    /\ accepted' = accepted \cup {c}
    /\ UNCHANGED <<fresh, held, log>>

(* SendEvent is called; it returns at once when there is no connection. *)
Offer(e) ==
    /\ e \in fresh /\ fresh' = fresh \ {e}
    /\ held' = held \cup {e} \/ UNCHANGED held
    /\ UNCHANGED <<accepted, log>>

Deliver(e, c) ==
    /\ e \in held /\ held' = held \ {e}
    /\ c \in accepted /\ ~Truncated(c)
    /\ \E item \in {e, "partial"} : log' = [log EXCEPT ![c] = Append(@, item)]
    /\ UNCHANGED <<fresh, accepted>>

Drop(e) ==
    /\ e \in held /\ held' = held \ {e}
    /\ UNCHANGED <<fresh, accepted, log>>

Next == \/ \E c \in Conn : Greet(c) \/ Accept(c)
        \/ \E e \in Event : Offer(e) \/ Drop(e)
        \/ \E e \in Event, c \in Conn : Deliver(e, c)

Spec == Init /\ [][Next]_vars
=============================================================================

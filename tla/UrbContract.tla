---------------------------- MODULE UrbContract ----------------------------
(***************************************************************************)
(* What the host controller driver promises the USB device drivers about   *)
(* their urbs: a submitted urb waits until it is given to its completion   *)
(* handler, once, one urb at a time, and never before an urb of the same   *)
(* endpoint that was submitted earlier and still waits ("replies to the    *)
(* request have to be on a FIFO basis", portable-ohci-core.c:1253).  An    *)
(* urb that is taken back waits no longer, so it is not given to its       *)
(* handler.  A handler may submit again, and a periodic urb is submitted   *)
(* again when its handler is done.                                         *)
(***************************************************************************)
CONSTANTS
    Urbs,               \* the urbs of the drivers
    EndpointOf,         \* the endpoint each of them is for
    Periodic,           \* those that are submitted again by themselves
    NoUrb               \* not one of them

VARIABLES
    waiting,            \* the urbs submitted and neither returned nor taken back
    before,             \* pairs of them at one endpoint, the earlier one first
    handler             \* the urb whose completion handler runs, or NoUrb

vars == <<waiting, before, handler>>

Init == waiting = {} /\ before = {} /\ handler = NoUrb

(* The urb waits behind all that wait at its endpoint.                     *)
Queue(u) ==
    /\ u \notin waiting
    /\ waiting' = waiting \cup {u}
    /\ before' = before \cup
           {p \in waiting \X {u} : EndpointOf[p[1]] = EndpointOf[u]}

Leave(u) ==
    /\ u \in waiting
    /\ waiting' = waiting \ {u}
    /\ before' = {p \in before : p[1] # u /\ p[2] # u}

Submit(u) == Queue(u) /\ UNCHANGED handler

(* The completion handler is called for an urb nothing is before.          *)
Return(u) ==
    /\ handler = NoUrb /\ handler' = u
    /\ \A v \in waiting : <<v, u>> \notin before
    /\ Leave(u)

HandlerEnd == handler # NoUrb /\ handler' = NoUrb /\ UNCHANGED <<waiting, before>>

(* A periodic urb's handler is done.                                       *)
Requeue(u) ==
    /\ u \in Periodic
    /\ handler = u /\ handler' = NoUrb
    /\ Queue(u)

(* An urb is taken back, wherever it waits.                                *)
Unlink(u) == Leave(u) /\ UNCHANGED handler

Next == \/ \E u \in Urbs : Submit(u) \/ Return(u) \/ Requeue(u) \/ Unlink(u)
        \/ HandlerEnd

Spec == Init /\ [][Next]_vars
=============================================================================

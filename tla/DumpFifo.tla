------------------------------ MODULE DumpFifo ------------------------------
(***************************************************************************)
(* What the side dumper promises its reader, without semaphores, threads   *)
(* or memory: in asynchronous mode "the driver's main thread queues the    *)
(* urb data to an fifo queue" and "a background thread then does the       *)
(* formatting and output" (README.md); in synchronous mode the urb is      *)
(* output at once.  Each captured urb is output at most once, and the      *)
(* queued ones are output in the order in which they were queued.          *)
(***************************************************************************)
EXTENDS Naturals, Sequences

CONSTANTS
    Urbs,               \* the urbs that may be captured
    NoUrb               \* not one of them: the background thread holds none

VARIABLES
    queue,              \* the captured urbs that wait, oldest first
    hand,               \* the urb the background thread is formatting
    out                 \* the urbs output so far

vars == <<queue, hand, out>>

Elements(s) == {s[i] : i \in DOMAIN s}

(* An urb that is neither waiting, nor being formatted, nor output.        *)
Fresh(x) == /\ x # hand
            /\ x \notin Elements(queue) \cup Elements(out)

Init == /\ queue = <<>>
        /\ hand  = NoUrb
        /\ out   = <<>>

(* An urb is queued (asynchronous mode).                                   *)
Put == \E x \in Urbs :
          /\ Fresh(x)
          /\ queue' = Append(queue, x)
          /\ UNCHANGED <<hand, out>>

(* The background thread takes the oldest one.                             *)
Take == /\ hand = NoUrb
        /\ queue # <<>>
        /\ hand'  = Head(queue)
        /\ queue' = Tail(queue)
        /\ UNCHANGED out

(* It outputs what it holds ...                                            *)
Output == /\ hand # NoUrb
          /\ out'  = Append(out, hand)
          /\ hand' = NoUrb
          /\ UNCHANGED queue

(* ... or drops it: its device was disabled meanwhile, or memory is short. *)
Drop == /\ hand # NoUrb
        /\ hand' = NoUrb
        /\ UNCHANGED <<queue, out>>

(* An urb is output at once (synchronous mode).                            *)
Direct == \E x \in Urbs :
             /\ Fresh(x)
             /\ out' = Append(out, x)
             /\ UNCHANGED <<queue, hand>>

(* The module is removed: what waits is thrown away, oldest first.         *)
Discard == /\ hand = NoUrb
           /\ queue # <<>>
           /\ queue' = Tail(queue)
           /\ UNCHANGED <<hand, out>>

Next == Put \/ Take \/ Output \/ Drop \/ Direct \/ Discard

Spec == Init /\ [][Next]_vars
=============================================================================

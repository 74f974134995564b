------------------------------- MODULE Channel -------------------------------
(***************************************************************************)
(* What the bounded queue of src/src/libnffile/queue.c promises its users: *)
(* a FIFO channel of at most Capacity items.  A sent item is received      *)
(* exactly once and in sending order, nothing is sent on a closed channel, *)
(* closing loses nothing that was accepted, and only an empty channel is   *)
(* opened again.                                                           *)
(***************************************************************************)
EXTENDS Naturals, Sequences

CONSTANTS
    Items,      (* the data pointers that may be queued                    *)
    Capacity    (* the largest number of items in the channel              *)

VARIABLES
    chan,       (* the items sent and not yet received, oldest first       *)
    closed,     (* senders are refused                                     *)
    received    (* every item received so far, in order                    *)

vars == <<chan, closed, received>>

Init ==
    /\ chan = <<>>
    /\ closed = FALSE
    /\ received = <<>>

Send(item) ==
    /\ ~closed
    /\ Len(chan) < Capacity
    /\ chan' = Append(chan, item)
    /\ UNCHANGED <<closed, received>>

Receive ==
    /\ chan # <<>>
    /\ chan' = Tail(chan)
    /\ received' = Append(received, Head(chan))
    /\ UNCHANGED closed

Close ==
    /\ closed' = TRUE
    /\ UNCHANGED <<chan, received>>

Open ==
    /\ closed
    /\ chan = <<>>
    /\ closed' = FALSE
    /\ UNCHANGED <<chan, received>>

Next ==
    \/ \E item \in Items : Send(item)
    \/ Receive
    \/ Close
    \/ Open

Spec == Init /\ [][Next]_vars
==============================================================================

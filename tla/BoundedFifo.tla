---------------------------- MODULE BoundedFifo ----------------------------
(***************************************************************************)
(* What RingBuffer promises: a first-in first-out queue of at most Num      *)
(* items, which can be closed.  Closing it takes nothing away from what is  *)
(* in it.                                                                  *)
(***************************************************************************)
EXTENDS Naturals, Sequences

CONSTANTS Data,   \* what is passed through the queue
          Num     \* its capacity

VARIABLES q,      \* the items in the queue, oldest first
          out,    \* the item taken last, or one of Data
          closed  \* the queue was closed

Put(d) == /\ Len(q) < Num
          /\ q' = Append(q, d)
          /\ UNCHANGED <<out, closed>>

Get == /\ q # <<>>
       /\ out' = Head(q) /\ q' = Tail(q)
       /\ UNCHANGED closed

Close == closed' = TRUE /\ UNCHANGED <<q, out>>

Init == q = <<>> /\ out \in Data /\ closed = FALSE

Next == (\E d \in Data : Put(d)) \/ Get \/ Close

Spec == Init /\ [][Next]_<<q, out, closed>>
=============================================================================

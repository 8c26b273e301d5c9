---------------------------- MODULE BoundedFifo ----------------------------
(********************************************************************************)
(* What a packet queue promises its users: a first-in first-out sequence        *)
(* of at most Capacity items that can be closed.  Pushing appends a block       *)
(* of items and stops for good when the queue is closed; popping removes a      *)
(* block from the front and stays possible after the close, so that what        *)
(* is left can be drained.                                                      *)
(********************************************************************************)
EXTENDS Naturals, Sequences

CONSTANTS
    Capacity,   \* number of items the queue holds
    Item        \* the set of items

VARIABLES
    fifo,       \* the queued items, oldest first
    closed      \* the queue accepts no more items

fifoVars == <<fifo, closed>>

Init ==
    /\ fifo = << >>
    /\ closed = FALSE

\* Items are appended, in order, while there is room.
Push ==
    /\ ~closed
    /\ \E n \in 1 .. Capacity - Len(fifo) :
          \E block \in [1 .. n -> Item] : fifo' = fifo \o block
    /\ UNCHANGED closed

\* The oldest n items leave.
Pop ==
    /\ \E n \in 1 .. Len(fifo) : fifo' = SubSeq(fifo, n + 1, Len(fifo))
    /\ UNCHANGED closed

Close ==
    /\ closed' = TRUE
    /\ UNCHANGED fifo

Next == Push \/ Pop \/ Close

Spec == Init /\ [][Next]_fifoVars
=============================================================================

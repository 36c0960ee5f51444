----------------------------- MODULE ItemChannel -----------------------------
(***************************************************************************)
(* What one direction of a connection promises to the code above it, which *)
(* module Wire builds on: what a RecvAll asks for arrives whole and in     *)
(* order, or RecvAll fails; and without a reset it fails only when the     *)
(* peer has closed and everything whole it sent was taken.                 *)
(***************************************************************************)
EXTENDS Naturals

VARIABLES
    pushed,    \* items whose every byte was accepted from the sender
    taken,     \* items a RecvAll returned
    closed,    \* the sender's end is closed
    broken,    \* the connection is reset
    failed     \* a RecvAll returned false

Init == pushed = 0 /\ taken = 0 /\ ~closed /\ ~broken /\ ~failed

\* One send may complete several items.
Push == ~closed /\ pushed' > pushed /\ UNCHANGED <<taken, closed, broken, failed>>

Take ==
    /\ ~failed /\ taken < pushed
    /\ taken' = taken + 1
    /\ UNCHANGED <<pushed, closed, broken, failed>>

\* The error a last send reports may come after bytes it moved.
Close == ~closed /\ closed' /\ pushed' >= pushed /\ UNCHANGED <<taken, broken, failed>>

Break == broken' /\ UNCHANGED <<pushed, taken, closed, failed>>

Fail ==
    /\ broken \/ (closed /\ taken = pushed)
    /\ failed'
    /\ UNCHANGED <<pushed, taken, closed, broken>>

Next == Push \/ Take \/ Close \/ Break \/ Fail

Spec == Init /\ [][Next]_<<pushed, taken, closed, broken, failed>>
=============================================================================

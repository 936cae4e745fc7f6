--------------------------- MODULE DebouncedInbox ---------------------------
(***************************************************************************)
(* What the debounce buffer of a conversation promises its users           *)
(* (docs/spec/02_STATE_MACHINE.md, section 12): what is pushed is handed   *)
(* to interpretation once, in order, in batches of everything accumulated  *)
(* so far, and nothing waits forever.                                      *)
(***************************************************************************)
EXTENDS Naturals, Sequences

CONSTANT Messages

VARIABLES arrived,  \* ids pushed, in order
          handed    \* ids handed to the flush handler, in order

Init == arrived = <<>> /\ handed = <<>>

Push(m) == arrived' = Append(arrived, m) /\ UNCHANGED handed

\* One batch: the next `n' ids not handed over yet.
HandOver ==
    /\ \E n \in Len(handed) + 1..Len(arrived) : handed' = SubSeq(arrived, 1, n)
    /\ UNCHANGED arrived

Next == (\E m \in Messages : Push(m)) \/ HandOver

Safe == Init /\ [][Next]_<<arrived, handed>>

Spec == Safe /\ WF_<<arrived, handed>>(HandOver)
=============================================================================

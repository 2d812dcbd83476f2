---------------------------- MODULE BoundedFifo ----------------------------
(***************************************************************************)
(* What a bounded queue promises: values leave in the order they came in,  *)
(* each once, and there are never more than Capacity of them inside.       *)
(***************************************************************************)
EXTENDS Naturals, Sequences

CONSTANTS Items, NoItem, Capacity

VARIABLES
    queue, \* the values inside, the oldest first
    sent,  \* the values that have come in
    got    \* the value that left last

fifoVars == <<queue, sent, got>>

FifoInit ==
    /\ queue = << >>
    /\ sent = {}
    /\ got = NoItem

Insert(x) ==
    /\ x \notin sent
    /\ Len(queue) < Capacity
    /\ queue' = Append(queue, x)
    /\ sent' = sent \cup {x}
    /\ UNCHANGED got

Extract ==
    /\ queue # << >>
    /\ got' = Head(queue)
    /\ queue' = Tail(queue)
    /\ UNCHANGED sent

FifoNext == Extract \/ \E x \in Items : Insert(x)

FifoSpec == FifoInit /\ [][FifoNext]_fifoVars
=============================================================================

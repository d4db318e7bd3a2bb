---------------------------- MODULE WorkerQueue ----------------------------
(***************************************************************************)
(* What psygo/pool promises of a workerQueue (worker_queue.go): a bounded  *)
(* FIFO of idle workers.  refresh takes a prefix, the workers idle for the *)
(* longest time; reset empties the queue and, if it held a worker, leaves  *)
(* it released, after which every insert fails.                            *)
(*                                                                         *)
(* LoopQueue implements this specification with a ring buffer; Pool is     *)
(* built on the operations of this module.                                 *)
(***************************************************************************)
EXTENDS Naturals, Sequences, SequencesExt

CONSTANTS Worker,   \* the worker objects
          Limit     \* the size the queue is made with (NewPool's size)

VARIABLES fifo,     \* the idle workers, the one inserted first at the head
          size      \* how many workers fit: Limit, or 0 once released

vars == <<fifo, size>>

Init == fifo = <<>> /\ size = Limit

CanInsert == size # 0 /\ Len(fifo) < size

Insert(w) == CanInsert /\ fifo' = Append(fifo, w) /\ UNCHANGED size

Detach(w) ==
    /\ fifo # <<>>
    /\ w = Head(fifo)
    /\ fifo' = Tail(fifo)
    /\ UNCHANGED size

\* The n workers at the front are stale.
Refresh(n) ==
    /\ n \in 1..Len(fifo)
    /\ fifo' = SubSeq(fifo, n + 1, Len(fifo))
    /\ UNCHANGED size

Reset == fifo # <<>> /\ fifo' = <<>> /\ size' = 0

Next ==
    \/ \E w \in Worker \ Range(fifo) : Insert(w)
    \/ \E w \in Worker : Detach(w)
    \/ \E n \in 1..Limit : Refresh(n)
    \/ Reset

Spec == Init /\ [][Next]_vars
=============================================================================

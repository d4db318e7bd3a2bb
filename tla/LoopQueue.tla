----------------------------- MODULE LoopQueue -----------------------------
(***************************************************************************)
(* The ring buffer of idle workers, psygo/pool/worker_loop_queue.go, and   *)
(* the time stamps revertWorker gives the workers it puts there.           *)
(*                                                                         *)
(* insert, detach, refresh and reset run under Pool.lock, so each is one   *)
(* step.  revertWorker reads the pool's clock (pool.go:427) before it      *)
(* takes the lock (pool.go:429): Stamp and Insert are two steps, and two   *)
(* workers may take them in opposite orders.                               *)
(***************************************************************************)
EXTENDS Integers, Sequences, SequencesExt, FiniteSets

CONSTANTS Worker,          \* the worker objects
          Nil,             \* an empty slot
          Size,            \* the size given to newWorkerLoopQueue
          ExpiryDuration,  \* Options.ExpiryDuration
          MaxTime          \* bound on the clock

ASSUME QueueAssumption ==
    /\ Nil \notin Worker
    /\ Size \in Nat \ {0}
    /\ ExpiryDuration \in Nat
    /\ MaxTime \in Nat

VARIABLES items, head, tail, size, isFull,  \* the fields of loopQueue
          lastUsed,   \* goWorker.lastUsed
          stamped,    \* workers between pool.go:427 and pool.go:436
          clock,      \* time.Now()
          now,        \* Pool.now, the time ticktock stored last
          expiry      \* what the last refresh returned

queue == <<items, head, tail, size, isFull>>
vars == <<items, head, tail, size, isFull, lastUsed, stamped, clock, now, expiry>>

newWorkerLoopQueue ==
    /\ items = [i \in 0..Size-1 |-> Nil]
    /\ head = 0 /\ tail = 0
    /\ size = Size
    /\ isFull = FALSE

Init ==
    /\ newWorkerLoopQueue
    /\ lastUsed = [w \in Worker |-> 0]
    /\ stamped = {}
    /\ clock = 0 /\ now = 0
    /\ expiry = <<>>

isEmpty == head = tail /\ ~isFull

len == IF size = 0 \/ isEmpty THEN 0
       ELSE IF head = tail /\ isFull THEN size
       ELSE IF tail > head THEN tail - head
       ELSE size - head + tail

Queued == { items[i] : i \in DOMAIN items } \ {Nil}
----------------------------------------------------------------------------
Tick ==
    /\ clock < MaxTime
    /\ clock' = clock + 1
    /\ UNCHANGED <<queue, lastUsed, stamped, now, expiry>>

\* ticktock's loop body: p.now.Store(time.Now()).
ticktock ==
    /\ now' = clock
    /\ UNCHANGED <<queue, lastUsed, stamped, clock, expiry>>

\* worker.lastUsed = p.nowTime(), outside the lock.
Stamp(w) ==
    /\ w \notin Queued \cup stamped
    /\ lastUsed' = [lastUsed EXCEPT ![w] = now]
    /\ stamped' = stamped \cup {w}
    /\ UNCHANGED <<queue, clock, now, expiry>>

\* Mutant: tail runs past the end of the ring.
InsertWithoutWrap(w) ==
    /\ size # 0 /\ ~isFull
    /\ items' = [items EXCEPT ![tail] = w]
    /\ tail' = tail + 1
    /\ isFull' = (tail' = head)
    /\ UNCHANGED <<head, size>>

\* Mutant: no look at isFull.
InsertDropsFullCheck(w) ==
    /\ size # 0
    /\ items' = [items EXCEPT ![tail] = w]
    /\ tail' = (tail + 1) % size
    /\ isFull' = (tail' = head)
    /\ UNCHANGED <<head, size>>

\* wq.insert returning nil.
insert(w) ==
    /\ size # 0 /\ ~isFull
    /\ items' = [items EXCEPT ![tail] = w]
    /\ tail' = (tail + 1) % size
    /\ isFull' = (tail' = head)
    /\ UNCHANGED <<head, size>>

\* wq.insert returning errQueueIsReleased or errQueueIsFull.
insertFails == (size = 0 \/ isFull) /\ UNCHANGED queue

Insert(w) ==
    /\ w \in stamped
    /\ stamped' = stamped \ {w}
    /\ insert(w) \/ insertFails
    /\ UNCHANGED <<lastUsed, clock, now, expiry>>

\* Mutant: the slot keeps its worker.
DetachKeepsPointer ==
    /\ ~isEmpty
    /\ head' = (head + 1) % size
    /\ isFull' = FALSE
    /\ UNCHANGED <<items, tail, size>>

detach ==
    /\ ~isEmpty
    /\ items' = [items EXCEPT ![head] = Nil]
    /\ head' = (head + 1) % size
    /\ isFull' = FALSE
    /\ UNCHANGED <<tail, size>>

Detach == detach /\ UNCHANGED <<lastUsed, stamped, clock, now, expiry>>

\* Mutant: the loop of binarySearch stops one position early, at l < r.
SearchStopsEarly(n, late) ==
    LET s[lr \in (0..n) \X (-1..n-1)] ==
          LET l == lr[1]
              r == lr[2]
              mid == l + (r - l) \div 2
          IN IF l >= r THEN r
             ELSE IF mid \in late THEN s[<<l, mid - 1>>] ELSE s[<<mid + 1, r>>]
    IN s

\* The loop of binarySearch as a function of l and r: what r ends as, in a ring
\* of n slots, when the workers at the mapped positions late are not expired.
search(n, late) ==
    LET s[lr \in (0..n) \X (-1..n-1)] ==
          LET l == lr[1]
              r == lr[2]
              mid == l + (r - l) \div 2
          IN IF l > r THEN r
             ELSE IF mid \in late THEN s[<<l, mid - 1>>] ELSE s[<<mid + 1, r>>]
    IN s

\* The slot of the last expired worker, -1 if there is none.  items and size
\* shrink together (reset), so nlen = len(wq.items) is size.
binarySearch(expiryTime) ==
    IF isEmpty \/ expiryTime < lastUsed[items[head]] THEN -1
    ELSE LET last == (tail - 1 - head + size) % size
             late == { mid \in 0..last :
                         expiryTime < lastUsed[items[(mid + head + size) % size]] }
         IN (search(size, late)[<<0, last>>] + head + size) % size

\* items[lo:hi]
Slice(lo, hi) == [k \in 1..(hi - lo) |-> items[lo + k - 1]]

refresh ==
    LET index == binarySearch(clock - ExpiryDuration)
        cleared == IF head <= index THEN head..index
                   ELSE 0..index \cup head..size-1
    IN /\ IF index = -1
          THEN /\ expiry' = <<>>
               /\ UNCHANGED queue
          ELSE /\ expiry' = IF head <= index THEN Slice(head, index + 1)
                            ELSE Slice(0, index + 1) \o Slice(head, size)
               /\ items' = [i \in DOMAIN items |->
                              IF i \in cleared THEN Nil ELSE items[i]]
               /\ head' = (index + 1) % size
               /\ isFull' = (isFull /\ expiry' = <<>>)
               /\ UNCHANGED <<tail, size>>
       /\ UNCHANGED <<lastUsed, stamped, clock, now>>

\* The detached workers are told to finish; the queue is left released.
reset ==
    /\ ~isEmpty
    /\ items' = [i \in {} |-> Nil]
    /\ size' = 0 /\ head' = 0 /\ tail' = 0
    /\ isFull' = FALSE
    /\ UNCHANGED <<lastUsed, stamped, clock, now, expiry>>

Next ==
    \/ Tick
    \/ ticktock
    \/ \E w \in Worker : Stamp(w) \/ Insert(w)
    \/ Detach
    \/ refresh
    \/ reset

Spec == Init /\ [][Next]_vars
----------------------------------------------------------------------------
\* The types of the variables: the indices stay inside the ring.
TypeOK ==
    /\ size \in {0, Size}
    /\ items \in [0..size-1 -> Worker \cup {Nil}]
    /\ head \in 0..Size-1 /\ tail \in 0..Size-1
    /\ isFull \in BOOLEAN
    /\ lastUsed \in [Worker -> 0..MaxTime]
    /\ stamped \subseteq Worker
    /\ clock \in 0..MaxTime /\ now \in 0..clock
    /\ expiry \in Seq(Worker)

\* The workers in the ring, oldest first.
Fifo == [k \in 1..len |-> items[(head + k - 1) % size]]

\* The len slots that start at head hold distinct workers and every other
\* slot is nil: no insert overwrites a queued worker, and no pointer to a
\* worker that has left the queue stays behind (worker_loop_queue.go:67-71).
RingHoldsExactlyTheQueued ==
    LET inside == { (head + k) % size : k \in 0..len-1 }
    IN /\ \A i \in DOMAIN items : items[i] # Nil <=> i \in inside
       /\ IsInjective(Fifo)
       /\ Queued \cap stamped = {}

\* The abstract queue whose content is the ring's.
WQ == INSTANCE WorkerQueue WITH fifo <- Fifo, size <- size, Limit <- Size

\* The ring implements the bounded FIFO that Pool relies on: detach returns the
\* worker inserted first, refresh takes a prefix, reset takes all, and an insert
\* that succeeds had room (worker_loop_queue.go:43-164).
ImplementsWorkerQueue == WQ!Spec

Sorted == \A j, k \in 1..len : j < k => lastUsed[Fifo[j]] <= lastUsed[Fifo[k]]

Expired == { w \in Queued : lastUsed[w] <= clock - ExpiryDuration }

\* With the stamps in queue order, a refresh returns every expired worker,
\* no other, none twice, and takes exactly these out of the ring, wrapped or
\* not: binarySearch agrees with a scan of the queue.
RefreshEvictsExpired ==
    [][(refresh /\ Sorted) =>
         /\ Range(expiry') = Expired
         /\ IsInjective(expiry')
         /\ Queued' = Queued \ Expired]_vars
=============================================================================

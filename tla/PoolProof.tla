----------------------------- MODULE PoolProof -----------------------------
(***************************************************************************)
(* What is proved of the goroutine pool: the types of its variables, what  *)
(* its counters count, that a released queue stays empty, that no idle     *)
(* worker is overlooked while callers sleep, that every worker is in       *)
(* exactly one hand until wq.expiry is overwritten (OneHolder), that every *)
(* accepted task runs exactly once, and what a nil from ReleaseTimeout     *)
(* means.                                                                  *)
(*                                                                         *)
(* Types is inductive by itself.  Counters ties running and waiting to the *)
(* goroutines they count, which is what keeps them from becoming negative. *)
(* ReleaseInv says who owns the lock inside each critical section; with it *)
(* Drained is inductive: reset can only end with the lock its own, hence   *)
(* with no goroutine between its second look at the state and its insert.  *)
(* IdleInv adds that the notify list holds sleepers, each once, and that   *)
(* the queue is empty from a submitter's look at it until it sleeps.       *)
(*                                                                         *)
(* Holders(w) counts places; InOneHand speaks of sets: the five kinds of   *)
(* hands partition Worker, and within a kind the hand is unique.  A step   *)
(* moves one worker, or a prefix of the queue, from one set to another.    *)
(* What makes it inductive is SlotsApart, that no two purgers go through   *)
(* one slot of an array: a refresh takes slots nobody goes through, or     *)
(* sets overwritten.  HoldersAt is what the program counters imply whether *)
(* a slot has been overwritten or not.                                     *)
(*                                                                         *)
(* TaskRunsExactlyOnce is inductive together with TaskWhileRunning.        *)
(* PolledAll takes everything proved before: when the loop of              *)
(* ReleaseTimeout reads running = 0, Counters turns this into the absence  *)
(* of working goroutines, the partition of the workers into empty          *)
(* channels, and TaskRunsExactlyOnce both into executed = 1, which stays   *)
(* so until the loop ends.                                                 *)
(***************************************************************************)
EXTENDS Pool, FiniteSetTheorems, SequenceTheorems, TLAPS

\* TypeOK without the two counters.
Types == PoolTypes /\ SubmitTypes /\ WorkerTypes /\ PurgeTypes /\ SliceTypes /\ CtlTypes
----------------------------------------------------------------------------
(* The types *)

\* Signal and Broadcast leave a sequence of submitters.
LEMMA NotifyKeepsType ==
  ASSUME notify \in Seq(Submitter), Signal \/ Broadcast \/ UNCHANGED notify
  PROVE  notify' \in Seq(Submitter)
<1>1. notify # <<>> => Tail(notify) \in Seq(Submitter)
  OBVIOUS
<1>2. <<>> \in Seq(Submitter)
  OBVIOUS
<1> QED
  BY <1>1, <1>2 DEF Signal, Broadcast

\* A step of a submitter keeps every variable in its type.
LEMMA SubmitKeepsTypes ==
  ASSUME Types, NEW s \in Submitter, submitStep(s)
  PROVE  Types'
<1> USE PoolAssumption
<1>0. SliceTypes'
  <2>1. UNCHANGED staleWorkers
    BY DEF submitStep, pvars, Submit, retrieveIdle, retrieveCompare, retrieveFull, condWait,
       condWake, runWorker, inputFunc
  <2> QED
    BY <2>1 DEF staleWorkers, Types, SliceTypes
<1>1. CASE Submit(s)
  BY <1>0, <1>1 DEF Types, PoolTypes, SubmitTypes, WorkerTypes, PurgeTypes, CtlTypes,
      queue, svars, wvars, pvars, cvars, calls, Returned, Submit, spcStep
<1>2. CASE retrieveIdle(s)
  BY <1>0, <1>2 DEF Types, PoolTypes, SubmitTypes, WorkerTypes, PurgeTypes, CtlTypes,
      queue, svars, wvars, pvars, cvars, calls, Returned, retrieveIdle, Retrying, WQ!Detach
<1>3. CASE retrieveCompare(s)
  <2>1. PoolTypes'
    BY <1>3 DEF Types, PoolTypes, queue, retrieveCompare
  <2>2. SubmitTypes'
    BY <1>3 DEF Types, SubmitTypes, Returned, retrieveCompare, Retrying
  <2>3. WorkerTypes'
    BY <1>3 DEF Types, WorkerTypes, wvars, retrieveCompare
  <2>4. PurgeTypes'
    BY <1>3 DEF Types, PurgeTypes, pvars, retrieveCompare
  <2>5. CtlTypes'
    BY <1>3 DEF Types, CtlTypes, cvars, calls, retrieveCompare
  <2> QED
    BY <1>0, <2>1, <2>2, <2>3, <2>4, <2>5 DEF Types
<1>4. CASE retrieveFull(s)
  <2>1. PoolTypes'
    BY <1>4 DEF Types, PoolTypes, queue, retrieveFull, spcStep
  <2>2. SubmitTypes'
    BY <1>4 DEF Types, SubmitTypes, svars, Returned, retrieveFull, spcStep
  <2>3. WorkerTypes'
    BY <1>4 DEF Types, WorkerTypes, wvars, retrieveFull, spcStep
  <2>4. PurgeTypes'
    BY <1>4 DEF Types, PurgeTypes, pvars, retrieveFull, spcStep
  <2>5. CtlTypes'
    BY <1>4 DEF Types, CtlTypes, cvars, calls, retrieveFull, spcStep
  <2> QED
    BY <1>0, <2>1, <2>2, <2>3, <2>4, <2>5 DEF Types
<1>5. CASE condWait(s)
  BY <1>0, <1>5 DEF Types, PoolTypes, SubmitTypes, WorkerTypes, PurgeTypes, CtlTypes,
      queue, svars, wvars, pvars, cvars, calls, Returned, condWait, spcStep
<1>6. CASE condWake(s)
  BY <1>0, <1>6 DEF Types, PoolTypes, SubmitTypes, WorkerTypes, PurgeTypes, CtlTypes,
      queue, svars, wvars, pvars, cvars, calls, Returned, condWake, spcStep
<1>7. CASE runWorker(s)
  BY <1>0, <1>7 DEF Types, PoolTypes, SubmitTypes, WorkerTypes, PurgeTypes, CtlTypes,
      queue, svars, wvars, pvars, cvars, calls, Returned, runWorker, spcStep
<1>8. CASE inputFunc(s)
  <2>1. PoolTypes'
    BY <1>8 DEF Types, PoolTypes, queue, inputFunc, spcStep, SendTo
  <2>2. SubmitTypes'
    BY <1>8 DEF Types, SubmitTypes, svars, Returned, inputFunc, spcStep, SendTo
  <2>3. WorkerTypes'
    BY <1>8 DEF Types, WorkerTypes, wvars, inputFunc, spcStep, SendTo
  <2>4. PurgeTypes'
    BY <1>8 DEF Types, PurgeTypes, pvars, inputFunc, spcStep, SendTo
  <2>5. CtlTypes'
    BY <1>8 DEF Types, CtlTypes, cvars, calls, inputFunc, spcStep, SendTo
  <2> QED
    BY <1>0, <2>1, <2>2, <2>3, <2>4, <2>5 DEF Types
<1> QED
  BY <1>1, <1>2, <1>3, <1>4, <1>5, <1>6, <1>7, <1>8 DEF submitStep

\* A step of a worker goroutine keeps every variable in its type.
LEMMA WorkerKeepsTypes ==
  ASSUME Types, NEW w \in Worker, workerStep(w)
  PROVE  Types'
<1> USE PoolAssumption
<1>0. SliceTypes'
  <2>1. UNCHANGED staleWorkers
    BY DEF workerStep, pvars, workerReceive, workerRun, revertCheck, revertLock, revertInsert,
       workerExit, workerPut
  <2> QED
    BY <2>1 DEF staleWorkers, Types, SliceTypes
<1>1. CASE workerReceive(w)
  BY <1>0, <1>1 DEF Types, PoolTypes, SubmitTypes, WorkerTypes, PurgeTypes, CtlTypes,
      queue, svars, wvars, pvars, cvars, calls, Returned, workerReceive
<1>2. CASE workerRun(w)
  <2>1. PoolTypes'
    BY <1>2 DEF Types, PoolTypes, queue, workerRun
  <2>2. SubmitTypes'
    BY <1>2 DEF Types, SubmitTypes, svars, Returned, workerRun
  <2>3. WorkerTypes'
    <3>1. executed' \in [Submitter -> Nat]
      <4>1. CASE task[w] \in Submitter
        <5>1. executed[task[w]] + 1 \in Nat
          BY <4>1 DEF Types, WorkerTypes
        <5>2. executed' = [executed EXCEPT ![task[w]] = executed[task[w]] + 1]
          BY <1>2 DEF workerRun
        <5> QED
          BY <4>1, <5>1, <5>2 DEF Types, WorkerTypes
      <4>2. CASE task[w] \notin Submitter
        <5>1. executed' = [executed EXCEPT ![task[w]] = executed[task[w]] + 1]
          BY <1>2 DEF workerRun
        <5>2. executed' = executed
          BY <4>2, <5>1 DEF Types, WorkerTypes
        <5> QED
          BY <5>2 DEF Types, WorkerTypes
      <4> QED
        BY <4>1, <4>2
    <3>2. wpc' = [wpc EXCEPT ![w] = "revert"] \/ wpc' = [wpc EXCEPT ![w] = "exit"]
      BY <1>2 DEF workerRun
    <3>3. task' = [task EXCEPT ![w] = None] /\ UNCHANGED <<chan, signalling>>
      BY <1>2 DEF workerRun
    <3> QED
      BY <3>1, <3>2, <3>3 DEF Types, WorkerTypes
  <2>4. PurgeTypes'
    BY <1>2 DEF Types, PurgeTypes, pvars, workerRun
  <2>5. CtlTypes'
    BY <1>2 DEF Types, CtlTypes, cvars, calls, workerRun
  <2> QED
    BY <1>0, <2>1, <2>2, <2>3, <2>4, <2>5 DEF Types
<1>3. CASE revertCheck(w)
  <2>1. PoolTypes'
    <3>1. notify' \in Seq(Submitter)
      BY <1>3, NotifyKeepsType DEF Types, PoolTypes, revertCheck, Broadcast
    <3> QED
      BY <1>3, <3>1 DEF Types, PoolTypes, queue, revertCheck, Broadcast
  <2>2. SubmitTypes'
    BY <1>3 DEF Types, SubmitTypes, svars, Returned, revertCheck, Broadcast
  <2>3. WorkerTypes'
    BY <1>3 DEF Types, WorkerTypes, wvars, revertCheck, Broadcast
  <2>4. PurgeTypes'
    BY <1>3 DEF Types, PurgeTypes, pvars, revertCheck, Broadcast
  <2>5. CtlTypes'
    BY <1>3 DEF Types, CtlTypes, cvars, calls, revertCheck, Broadcast
  <2> QED
    BY <1>0, <2>1, <2>2, <2>3, <2>4, <2>5 DEF Types
<1>4. CASE revertLock(w)
  <2>1. PoolTypes'
    BY <1>4 DEF Types, PoolTypes, queue, revertLock
  <2>2. SubmitTypes'
    BY <1>4 DEF Types, SubmitTypes, svars, Returned, revertLock
  <2>3. WorkerTypes'
    BY <1>4 DEF Types, WorkerTypes, wvars, revertLock
  <2>4. PurgeTypes'
    BY <1>4 DEF Types, PurgeTypes, pvars, revertLock
  <2>5. CtlTypes'
    BY <1>4 DEF Types, CtlTypes, cvars, calls, revertLock
  <2> QED
    BY <1>0, <2>1, <2>2, <2>3, <2>4, <2>5 DEF Types
<1>5. CASE revertInsert(w)
  <2>1. PoolTypes'
    <3>1. notify' \in Seq(Submitter)
      BY <1>5, NotifyKeepsType DEF Types, PoolTypes, revertInsert
    <3>2. fifo' \in Seq(Worker) /\ Len(fifo') <= Cap
      <4>1. CASE WQ!Insert(w)
        <5>1. Len(fifo) < size /\ size \in {0, Cap} /\ fifo' = Append(fifo, w)
          BY <4>1 DEF WQ!Insert, WQ!CanInsert, Types, PoolTypes
        <5>2. Len(fifo') = Len(fifo) + 1 /\ Len(fifo) \in Nat
          BY <5>1 DEF Types, PoolTypes
        <5> QED
          BY <5>1, <5>2 DEF Types, PoolTypes
      <4>2. CASE ~WQ!Insert(w)
        BY <1>5, <4>2 DEF revertInsert, queue, Types, PoolTypes
      <4> QED
        BY <4>1, <4>2
    <3>3. lock' = None /\ UNCHANGED <<options, state, capacity, size>>
      BY <1>5 DEF revertInsert, queue, WQ!Insert
    <3> QED
      BY <3>1, <3>2, <3>3 DEF Types, PoolTypes
  <2>2. SubmitTypes'
    BY <1>5 DEF Types, SubmitTypes, svars, Returned, revertInsert, WQ!Insert, Signal
  <2>3. WorkerTypes'
    BY <1>5 DEF Types, WorkerTypes, wvars, revertInsert, WQ!Insert, Signal
  <2>4. PurgeTypes'
    BY <1>5 DEF Types, PurgeTypes, pvars, revertInsert, WQ!Insert, Signal
  <2>5. CtlTypes'
    BY <1>5 DEF Types, CtlTypes, cvars, calls, revertInsert, WQ!Insert, Signal
  <2> QED
    BY <1>0, <2>1, <2>2, <2>3, <2>4, <2>5 DEF Types
<1>6. CASE workerExit(w)
  BY <1>0, <1>6 DEF Types, PoolTypes, SubmitTypes, WorkerTypes, PurgeTypes, CtlTypes,
      queue, svars, wvars, pvars, cvars, calls, Returned, workerExit
<1>7. CASE workerPut(w)
  BY <1>0, <1>7 DEF Types, PoolTypes, SubmitTypes, WorkerTypes, PurgeTypes, CtlTypes,
      queue, svars, wvars, pvars, cvars, calls, Returned, workerPut
<1> QED
  BY <1>1, <1>2, <1>3, <1>4, <1>5, <1>6, <1>7 DEF workerStep

\* What refresh returns: the first n workers of the queue, the k that were
\* inserted last before the others.
Found(n, k) == SubSeq(fifo, n - k + 1, n) \o SubSeq(fifo, 1, n - k)

\* Its workers, one by one.
LEMMA FoundInOrder ==
  ASSUME PoolTypes, NEW n \in 1..Len(fifo), NEW k \in 0..n-1
  PROVE  /\ Len(Found(n, k)) = n /\ n \in 1..Cap
         /\ \A i \in 1..n : Found(n, k)[i] \in Worker
         /\ \A i \in 1..k : n - k + i \in 1..n /\ Found(n, k)[i] = fifo[n - k + i]
         /\ \A i \in k+1..n : i - k \in 1..n /\ Found(n, k)[i] = fifo[i - k]
<1> DEFINE a == SubSeq(fifo, n - k + 1, n)
           b == SubSeq(fifo, 1, n - k)
<1>1. PICK m \in Nat : m = Len(fifo)
  BY DEF PoolTypes
<1>2. fifo \in Seq(Worker) /\ n \in 1..m /\ m <= Cap /\ k \in 0..n-1
  BY <1>1 DEF PoolTypes
<1>3. a \in Seq(Worker) /\ Len(a) = k /\ \A i \in 1..k : a[i] = fifo[n - k + i]
  BY <1>1, <1>2
<1>4. b \in Seq(Worker) /\ Len(b) = n - k /\ \A i \in 1..n-k : b[i] = fifo[i]
  BY <1>1, <1>2
<1> HIDE DEF a, b
<1>5. Len(a \o b) = n /\ \A i \in 1..n : (a \o b)[i] = IF i <= k THEN a[i] ELSE b[i - k]
  <2>1. k + (n - k) = n
    BY <1>2
  <2>2. /\ Len(a \o b) = Len(a) + Len(b)
        /\ \A i \in 1..Len(a) + Len(b) : (a \o b)[i] = IF i <= Len(a) THEN a[i] ELSE b[i - Len(a)]
    BY <1>3, <1>4, ConcatProperties
  <2> QED
    BY <1>3, <1>4, <2>1, <2>2
<1>6. ASSUME NEW i \in 1..k PROVE n - k + i \in 1..n /\ (a \o b)[i] = fifo[n - k + i]
  <2>1. i \in 1..n /\ i <= k /\ n - k + i \in 1..n
    BY <1>2
  <2> QED
    BY <1>3, <1>5, <2>1
<1>7. ASSUME NEW i \in k+1..n PROVE i - k \in 1..n /\ (a \o b)[i] = fifo[i - k]
  <2>1. i \in 1..n /\ ~(i <= k) /\ i - k \in 1..n /\ i - k \in 1..n-k
    BY <1>2
  <2> QED
    BY <1>4, <1>5, <2>1
<1>8. \A i \in 1..m : fifo[i] \in Worker
  BY <1>1, <1>2
<1>9. ASSUME NEW i \in 1..n PROVE (a \o b)[i] \in Worker
  <2>1. CASE i \in 1..k
    <3>1. n - k + i \in 1..m
      BY <1>2, <1>6, <2>1
    <3> QED
      BY <1>6, <1>8, <2>1, <3>1
  <2>2. CASE i \in k+1..n
    <3>1. i - k \in 1..m
      BY <1>2, <1>7, <2>2
    <3> QED
      BY <1>7, <1>8, <2>2, <3>1
  <2>3. i \in 1..k \/ i \in k+1..n
    BY <1>2
  <2> QED
    BY <2>1, <2>2, <2>3
<1>10. n \in 1..Cap
  BY <1>2, PoolAssumption
<1> QED
  BY <1>5, <1>6, <1>7, <1>9, <1>10 DEF a, b, Found

\* Copying workers into an array leaves an array.
LEMMA CopiedType ==
  ASSUME NEW slots \in [Slot -> Worker \cup {None}], NEW n \in 0..Cap, NEW found,
         \A i \in 1..n : found[i] \in Worker
  PROVE  Copied(slots, found, n) \in [Slot -> Worker \cup {None}]
BY PoolAssumption DEF Copied, Slot

\* An append keeps arrays and slices in their types.
LEMMA AppendKeepsTypes ==
  ASSUME SliceTypes, NEW p \in Purger, NEW found, Len(found) \in 1..Cap, NEW k \in 0..Len(found)-1,
         \A i \in 1..Len(found) : found[i] \in Worker,
         appendStale(p, found, k), victim' = victim
  PROVE  SliceTypes'
<1> DEFINE n == Len(found)
           fits == n <= expiry.room
           inPlace == IF fits THEN n ELSE IF k <= expiry.room THEN k ELSE 0
           kept == [arrays EXCEPT ![expiry.array] = Copied(arrays[expiry.array], found, inPlace)]
<1>1. expiry.array \in Array /\ expiry.room \in 0..Cap
  BY DEF SliceTypes
<1>2. n \in 1..Cap /\ inPlace \in 0..n /\ Cap \in Nat
  BY <1>1, PoolAssumption
<1>3. kept \in [Array -> [Slot -> Worker \cup {None}]]
  <2>1. \A i \in 1..inPlace : found[i] \in Worker
    BY <1>2
  <2>2. arrays[expiry.array] \in [Slot -> Worker \cup {None}] /\ inPlace \in 0..Cap
    BY <1>1, <1>2 DEF SliceTypes
  <2> HIDE DEF inPlace
  <2>3. Copied(arrays[expiry.array], found, inPlace) \in [Slot -> Worker \cup {None}]
    BY <2>1, <2>2, CopiedType
  <2> QED
    BY <1>1, <2>3 DEF SliceTypes
<1>4. arrays' \in [Array -> [Slot -> Worker \cup {None}]] /\ expiry' \in [array : Array, room : 0..Cap]
  <2>1. CASE arrays' = kept /\ UNCHANGED expiry
    BY <1>3, <2>1 DEF SliceTypes
  <2>2. ASSUME NEW a \in Array, NEW room \in n..Cap,
               arrays' = [kept EXCEPT ![a] = Copied([i \in Slot |-> None], found, n)],
               expiry' = [array |-> a, room |-> room]
        PROVE  /\ arrays' \in [Array -> [Slot -> Worker \cup {None}]]
               /\ expiry' \in [array : Array, room : 0..Cap]
    <3>1. [i \in Slot |-> None] \in [Slot -> Worker \cup {None}]
      OBVIOUS
    <3>2. Copied([i \in Slot |-> None], found, n) \in [Slot -> Worker \cup {None}]
      BY <1>2, <3>1, CopiedType
    <3>3. room \in 0..Cap
      BY <1>2
    <3> HIDE DEF kept
    <3> QED
      BY <1>3, <2>2, <3>2, <3>3
  <2> QED
    BY <2>1, <2>2 DEF appendStale
<1>5. slice' \in [Purger -> [array : Array, next : Nat \ {0}, len : 0..Cap]]
  <2>1. slice' = [slice EXCEPT ![p] = [array |-> expiry'.array, next |-> 1, len |-> n]]
    BY DEF appendStale
  <2>2. expiry'.array \in Array /\ n \in 0..Cap
    BY <1>2, <1>4
  <2> QED
    BY <2>1, <2>2 DEF SliceTypes
<1>6. overwritten' \in BOOLEAN
  BY DEF appendStale, SliceTypes
<1> QED
  BY <1>4, <1>5, <1>6 DEF SliceTypes

\* A step of a purger keeps every variable in its type.
LEMMA PurgeKeepsTypes ==
  ASSUME Types, NEW p \in Purger, purgeStep(p)
  PROVE  Types'
<1> USE PoolAssumption
<1>1. SubmitTypes' /\ WorkerTypes' /\ CtlTypes'
  <2>1. UNCHANGED <<spc, hold, wpc, task, signalling, executed, cvars>>
    BY DEF purgeStep, svars, wvars, purgeReturn, purgeTick, purgeRefresh, purgeRead,
       purgeFinish, purgeClear, purgeWake
  <2>2. chan' \in [Worker -> Submitter \cup {Finish, None}]
    <3>1. chan' = chan \/ \E w : chan' = [chan EXCEPT ![w] = Finish]
      BY DEF purgeStep, wvars, purgeReturn, purgeTick, purgeRefresh, purgeRead, purgeFinish,
         purgeClear, purgeWake, SendTo
    <3> QED
      BY <3>1 DEF Types, WorkerTypes
  <2> QED
    BY <2>1, <2>2 DEF Types, SubmitTypes, WorkerTypes, CtlTypes, cvars, calls, Returned
<1>2. PoolTypes'
  <2>1. notify' \in Seq(Submitter)
    <3>1. Broadcast \/ UNCHANGED notify
      BY DEF purgeStep, purgeReturn, purgeTick, purgeRefresh, purgeRead, purgeFinish,
         purgeClear, purgeWake
    <3> QED
      BY <3>1, NotifyKeepsType DEF Types, PoolTypes
  <2>2. fifo' \in Seq(Worker) /\ Len(fifo') <= Cap /\ size' = size
    <3>1. CASE UNCHANGED queue
      BY <3>1 DEF queue, Types, PoolTypes
    <3>2. ASSUME NEW n \in 1..Len(fifo), WQ!Refresh(n)
          PROVE  fifo' \in Seq(Worker) /\ Len(fifo') <= Cap /\ size' = size
      <4>1. fifo' = SubSeq(fifo, n + 1, Len(fifo)) /\ size' = size
        BY <3>2 DEF WQ!Refresh
      <4>2. PICK m \in Nat : m = Len(fifo)
        BY DEF Types, PoolTypes
      <4>3. fifo' \in Seq(Worker) /\ Len(fifo') = m - n
        BY <4>1, <4>2, SubSeqProperties DEF Types, PoolTypes
      <4> QED
        BY <4>1, <4>2, <4>3 DEF Types, PoolTypes
    <3>3. UNCHANGED queue \/ \E n \in 1..Len(fifo) : WQ!Refresh(n)
      BY DEF purgeStep, queue, purgeReturn, purgeTick, purgeRefresh, purgeRead, purgeFinish,
         purgeClear, purgeWake
    <3> QED
      BY <3>1, <3>2, <3>3
  <2>3. UNCHANGED <<options, state, capacity, lock>>
    BY DEF purgeStep, purgeReturn, purgeTick, purgeRefresh, purgeRead, purgeFinish, purgeClear,
       purgeWake
  <2> QED
    BY <2>1, <2>2, <2>3 DEF Types, PoolTypes
<1>3. PurgeTypes'
  <2>1. \E to \in {"select", "lock", "finish", "send", "clear", "panic", "returned"} :
           ppc' = [ppc EXCEPT ![p] = to]
    BY DEF purgeStep, ppcStep, purgeReturn, purgeTick, purgeRefresh, purgeRead, purgeFinish,
       purgeClear, purgeWake
  <2>2. UNCHANGED <<stopPurge, cancelled>> /\ purgeDone' \in {purgeDone, TRUE}
    BY DEF purgeStep, purgeReturn, purgeTick, purgeRefresh, purgeRead, purgeFinish, purgeClear,
       purgeWake
  <2> QED
    BY <2>1, <2>2 DEF Types, PurgeTypes
<1>4. CASE purgeReturn(p) \/ purgeTick(p)
  <2>1. UNCHANGED staleWorkers
    BY <1>4 DEF purgeReturn, purgeTick
  <2> QED
    BY <1>1, <1>2, <1>3, <2>1 DEF Types, SliceTypes, staleWorkers
<1>5. CASE purgeRefresh(p)
  <2>1. CASE UNCHANGED <<arrays, expiry, slice, overwritten>>
    BY <1>1, <1>2, <1>3, <1>5, <2>1 DEF purgeRefresh, Types, SliceTypes
  <2>2. ASSUME NEW n \in 1..Len(fifo), NEW k \in 0..n-1,
               appendStale(p, SubSeq(fifo, n - k + 1, n) \o SubSeq(fifo, 1, n - k), k)
        PROVE  SliceTypes'
    <3> DEFINE found == Found(n, k)
    <3>1. Len(found) = n /\ n \in 1..Cap /\ \A i \in 1..n : found[i] \in Worker
      BY FoundInOrder DEF Types
    <3> HIDE DEF found
    <3>2. appendStale(p, found, k) /\ victim' = victim
      BY <1>5, <2>2 DEF found, Found, purgeRefresh
    <3> QED
      BY <3>1, <3>2, AppendKeepsTypes DEF Types
  <2> QED
    BY <1>1, <1>2, <1>3, <1>5, <2>1, <2>2 DEF purgeRefresh, Types
<1>6. CASE purgeRead(p) \/ purgeFinish(p)
  <2>1. UNCHANGED <<arrays, expiry, slice, overwritten>>
    BY <1>6 DEF purgeRead, purgeFinish
  <2>2. victim' \in [Purger -> Worker \cup {None}]
    <3>1. CASE purgeRead(p)
      <4>1. slice[p].array \in Array /\ slice[p].next \in Slot
        BY <3>1 DEF purgeRead, Types, SliceTypes, Slot
      <4>2. arrays[slice[p].array][slice[p].next] \in Worker \cup {None}
        BY <4>1 DEF Types, SliceTypes
      <4> QED
        BY <3>1, <4>2 DEF purgeRead, Types, SliceTypes
    <3>2. CASE purgeFinish(p)
      BY <3>2 DEF purgeFinish, Types, SliceTypes
    <3> QED
      BY <1>6, <3>1, <3>2
  <2> QED
    BY <1>1, <1>2, <1>3, <2>1, <2>2 DEF Types, SliceTypes
<1>7. CASE purgeClear(p)
  <2>1. slice[p].next + 1 \in Nat \ {0}
    BY DEF Types, SliceTypes
  <2> QED
    BY <1>1, <1>2, <1>3, <1>7, <2>1, ZenonT(30) DEF purgeClear, Types, SliceTypes
<1>8. CASE purgeWake(p)
  <2>1. NoSlice \in [array : Array, next : Nat \ {0}, len : 0..Cap]
    BY DEF NoSlice, Array, Purger
  <2> QED
    BY <1>1, <1>2, <1>3, <1>8, <2>1 DEF purgeWake, Types, SliceTypes
<1> QED
  BY <1>4, <1>5, <1>6, <1>7, <1>8 DEF purgeStep

\* So do a deferred Signal and the steps of the controller.
LEMMA CtlKeepsTypes ==
  ASSUME Types,
         \/ workerSignal \/ releaseStep \/ Reboot
         \/ \E n \in 1..MaxCap : Tune(n)
         \/ \E r \in {"none", "running"} : Release(r)
  PROVE  Types'
<1> USE PoolAssumption
<1>0. SliceTypes'
  <2>1. UNCHANGED staleWorkers
    BY DEF pvars, workerSignal, releaseStep, releaseStop, releaseFinish, releaseReset,
       releaseBroadcast, pollRunning, pollPurgeDone, pollTicktockDone, Reboot, Tune, Release
  <2> QED
    BY <2>1 DEF staleWorkers, Types, SliceTypes
<1>1. CASE workerSignal
  BY <1>0, <1>1 DEF Types, PoolTypes, SubmitTypes, WorkerTypes, PurgeTypes, CtlTypes,
      queue, svars, wvars, pvars, cvars, calls, Returned, workerSignal, Signal, Purger, NoPurger
<1>2. CASE releaseStop
  BY <1>0, <1>2 DEF Types, PoolTypes, SubmitTypes, WorkerTypes, PurgeTypes, CtlTypes,
      queue, svars, wvars, pvars, cvars, calls, Returned, releaseStop, Purger, NoPurger
<1>3. CASE releaseFinish
  BY <1>0, <1>3 DEF Types, PoolTypes, SubmitTypes, WorkerTypes, PurgeTypes, CtlTypes,
      queue, svars, wvars, pvars, cvars, calls, Returned, releaseFinish, WQ!Detach, SendTo, Purger, NoPurger
<1>4. CASE releaseReset
  BY <1>0, <1>4 DEF Types, PoolTypes, SubmitTypes, WorkerTypes, PurgeTypes, CtlTypes,
      queue, svars, wvars, pvars, cvars, calls, Returned, releaseReset, Purger, NoPurger
<1>5. CASE releaseBroadcast
  BY <1>0, <1>5 DEF Types, PoolTypes, SubmitTypes, WorkerTypes, PurgeTypes, CtlTypes,
      queue, svars, wvars, pvars, cvars, calls, Returned, releaseBroadcast, Broadcast, Purger, NoPurger
<1>6. CASE pollRunning \/ pollPurgeDone \/ pollTicktockDone
  <2>1. UNCHANGED <<options, state, capacity, running, waiting, lock, queue, notify, svars,
                    wvars, pvars, emptied, calls>>
    BY <1>6 DEF pollRunning, pollPurgeDone, pollTicktockDone
  <2>2. PoolTypes' /\ SubmitTypes' /\ WorkerTypes' /\ PurgeTypes'
    BY <2>1 DEF Types, PoolTypes, SubmitTypes, WorkerTypes, PurgeTypes, queue, svars, wvars,
       pvars, Returned
  <2>3. /\ cpc' \in {"poll", "pollPurge", "pollTick", "idle"}
        /\ rt' \in {rt, "nil", "ErrTimeout"}
        /\ accepted' \in {accepted, {}, { s \in Submitter : spc[s] = "nil" }}
    BY <1>6 DEF pollRunning, pollPurgeDone, pollTicktockDone, PollAgain
  <2>4. CtlTypes'
    BY <2>1, <2>3 DEF Types, CtlTypes, calls
  <2> QED
    BY <1>0, <2>2, <2>4 DEF Types
<1>7. CASE Reboot
  <2>1. PoolTypes'
    BY <1>7 DEF Types, PoolTypes, queue, Reboot, Purger, NoPurger
  <2>2. SubmitTypes'
    BY <1>7 DEF Types, SubmitTypes, svars, Returned, Reboot, Purger, NoPurger
  <2>3. WorkerTypes'
    BY <1>7 DEF Types, WorkerTypes, wvars, Reboot, Purger, NoPurger
  <2>4. PurgeTypes'
    <3>1. reboots + 1 \in Purger /\ 0 \in Purger
      BY <1>7 DEF Types, CtlTypes, Reboot, Purger
    <3> QED
      BY <1>7, <3>1 DEF Types, PurgeTypes, Reboot
  <2>5. CtlTypes'
    BY <1>7 DEF Types, CtlTypes, cvars, calls, Reboot, Purger, NoPurger
  <2> QED
    BY <1>0, <2>1, <2>2, <2>3, <2>4, <2>5 DEF Types
<1>8. ASSUME NEW n \in 1..MaxCap, Tune(n) PROVE Types'
  <2>1. PoolTypes'
    <3>1. notify' \in Seq(Submitter)
      BY <1>8, NotifyKeepsType DEF Types, PoolTypes, Tune
    <3>2. capacity' \in 1..MaxCap /\ UNCHANGED <<options, state, lock, fifo, size>>
      BY <1>8 DEF Tune, queue
    <3> QED
      BY <3>1, <3>2 DEF Types, PoolTypes
  <2>2. SubmitTypes'
    BY <1>8 DEF Types, SubmitTypes, svars, Returned, Tune, Signal, Broadcast
  <2>3. WorkerTypes'
    BY <1>8 DEF Types, WorkerTypes, wvars, Tune, Signal, Broadcast
  <2>4. PurgeTypes'
    BY <1>8 DEF Types, PurgeTypes, pvars, Tune, Signal, Broadcast
  <2>5. CtlTypes'
    BY <1>8 DEF Types, CtlTypes, cvars, calls, Tune, Signal, Broadcast
  <2> QED
    BY <1>0, <2>1, <2>2, <2>3, <2>4, <2>5 DEF Types
<1>9. ASSUME NEW r \in {"none", "running"}, Release(r) PROVE Types'
  BY <1>0, <1>9 DEF Types, PoolTypes, SubmitTypes, WorkerTypes, PurgeTypes, CtlTypes,
      queue, svars, wvars, pvars, cvars, calls, Returned, Release
<1> QED
  BY <1>1, <1>2, <1>3, <1>4, <1>5, <1>6, <1>7, <1>8, <1>9 DEF releaseStep

\* Every variable but the two counters always has its type.
LEMMA TypesInvariant == Spec => []Types
<1>1. Init => Types
  <2> SUFFICES ASSUME Init PROVE Types
    OBVIOUS
  <2>1. PoolTypes
    BY PoolAssumption DEF Init, WQ!Init, PoolTypes
  <2>2. SubmitTypes
    BY DEF Init, SubmitTypes, Returned
  <2>3. WorkerTypes
    BY DEF Init, WorkerTypes
  <2>4. PurgeTypes
    <3>1. 0 \in Purger
      BY PoolAssumption DEF Purger
    <3> QED
      BY <3>1 DEF Init, PurgeTypes
  <2>6. SliceTypes
    <3>1. 0 \in Array /\ 0 \in 0..Cap /\ 1 \in Nat \ {0}
      BY PoolAssumption DEF Array, Purger
    <3>2. arrays \in [Array -> [Slot -> Worker \cup {None}]]
      BY DEF Init
    <3>3. expiry \in [array : Array, room : 0..Cap]
      BY <3>1 DEF Init
    <3>4. NoSlice \in [array : Array, next : Nat \ {0}, len : 0..Cap]
      BY <3>1 DEF NoSlice
    <3>5. slice = [p \in Purger |-> NoSlice] /\ victim = [p \in Purger |-> None] /\ overwritten = FALSE
      BY DEF Init
    <3> HIDE DEF NoSlice
    <3> QED
      BY <3>2, <3>3, <3>4, <3>5 DEF SliceTypes
  <2>5. CtlTypes
    <3>1. 0 \in 0..MaxTunes /\ 0 \in 0..MaxReleases /\ 0 \in 0..MaxReboots
      BY PoolAssumption
    <3>2. /\ cpc = "idle" /\ rt = "none" /\ accepted = {} /\ emptied = FALSE
          /\ tunes = 0 /\ releases = 0 /\ reboots = 0
      BY DEF Init
    <3> QED
      BY <3>1, <3>2 DEF CtlTypes
  <2> QED
    BY <2>1, <2>2, <2>3, <2>4, <2>5, <2>6 DEF Types
<1>2. Types /\ [Next]_vars => Types'
  <2> SUFFICES ASSUME Types, [Next]_vars PROVE Types'
    OBVIOUS
  <2>1. CASE Next
    BY <2>1, SubmitKeepsTypes, WorkerKeepsTypes, PurgeKeepsTypes, CtlKeepsTypes DEF Next
  <2>2. CASE UNCHANGED vars
    BY <2>2 DEF vars, queue, svars, wvars, pvars, staleWorkers, cvars, calls, Types, PoolTypes,
       SubmitTypes, WorkerTypes, PurgeTypes, SliceTypes, CtlTypes, Returned
  <2> QED
    BY <2>1, <2>2
<1> QED
  BY <1>1, <1>2, PTL DEF Spec
----------------------------------------------------------------------------
(* The counters *)

\* The workers running counts: from run() to addRunning(-1).
Counted == { w \in Worker : wpc[w] \notin {"cached", "put"} }
\* The submitters waiting counts: from addWaiting(1) to addWaiting(-1).
Parked == { s \in Submitter : spc[s] \in {"wait", "asleep"} }

Counters == running = Cardinality(Counted) /\ waiting = Cardinality(Parked)

\* Two sets of workers and submitters are finite.
LEMMA CountedFinite == IsFiniteSet(Counted) /\ IsFiniteSet(Parked)
  BY PoolAssumption, FS_Subset DEF Counted, Parked

\* A submitter counts itself in and out exactly when it says so.
LEMMA SubmitKeepsCounters ==
  ASSUME Types, Counters, NEW s \in Submitter, submitStep(s)
  PROVE  Counters'
<1>1. CASE Submit(s) \/ retrieveIdle(s) \/ retrieveCompare(s) \/ inputFunc(s)
  <2>1. Counted' = Counted /\ running' = running
    BY <1>1 DEF Counted, wvars, Submit, retrieveIdle, retrieveCompare, inputFunc
  <2>2. Parked' = Parked /\ waiting' = waiting
    BY <1>1 DEF Types, SubmitTypes, Parked, Submit, retrieveIdle, retrieveCompare,
       inputFunc, Retrying, spcStep
  <2> QED
    BY <2>1, <2>2 DEF Counters
<1>2. CASE retrieveFull(s)
  <2>1. Counted' = Counted /\ running' = running
    BY <1>2 DEF Counted, wvars, retrieveFull
  <2>2. CASE Overloaded
    <3>1. Parked' = Parked /\ waiting' = waiting
      BY <1>2, <2>2 DEF Types, SubmitTypes, Parked, retrieveFull, spcStep
    <3> QED
      BY <2>1, <3>1 DEF Counters
  <2>3. CASE ~Overloaded
    <3>1. Parked' = Parked \cup {s} /\ s \notin Parked /\ waiting' = waiting + 1
      BY <1>2, <2>3 DEF Types, SubmitTypes, Parked, retrieveFull, spcStep
    <3> QED
      BY <2>1, <3>1, CountedFinite, FS_AddElement DEF Counters
  <2> QED
    BY <2>2, <2>3
<1>3. CASE condWait(s)
  BY <1>3 DEF Types, SubmitTypes, Counters, Counted, Parked, wvars, condWait, spcStep
<1>4. CASE condWake(s)
  <2>1. Counted' = Counted /\ running' = running
    BY <1>4 DEF Counted, wvars, condWake
  <2>2. Parked' = Parked \ {s} /\ s \in Parked /\ waiting' = waiting - 1
    BY <1>4 DEF Types, SubmitTypes, Parked, condWake, spcStep
  <2> QED
    BY <2>1, <2>2, CountedFinite, FS_RemoveElement DEF Counters
<1>5. CASE runWorker(s)
  <2>1. Parked' = Parked /\ waiting' = waiting
    BY <1>5 DEF Types, SubmitTypes, Parked, runWorker, spcStep
  <2>2. PICK w \in Worker : wpc[w] = "cached" /\ wpc' = [wpc EXCEPT ![w] = "receive"]
    BY <1>5 DEF runWorker
  <2>3. Counted' = Counted \cup {w} /\ w \notin Counted /\ running' = running + 1
    BY <1>5, <2>2 DEF Types, WorkerTypes, Counted, runWorker
  <2> QED
    BY <2>1, <2>3, CountedFinite, FS_AddElement DEF Counters
<1> QED
  BY <1>1, <1>2, <1>3, <1>4, <1>5 DEF submitStep

\* A worker goroutine counts itself out once, on its way out.
LEMMA WorkerKeepsCounters ==
  ASSUME Types, Counters, NEW w \in Worker, workerStep(w)
  PROVE  Counters'
<1>1. Parked' = Parked /\ waiting' = waiting
  BY DEF workerStep, Parked, svars, workerReceive, workerRun, revertCheck, revertLock,
     revertInsert, workerExit, workerPut
<1>2. CASE workerExit(w)
  <2>1. Counted' = Counted \ {w} /\ w \in Counted /\ running' = running - 1
    BY <1>2 DEF Types, WorkerTypes, Counted, workerExit
  <2> QED
    BY <1>1, <2>1, CountedFinite, FS_RemoveElement DEF Counters
<1>3. CASE workerReceive(w) \/ workerRun(w) \/ workerPut(w)
  <2>1. Counted' = Counted /\ running' = running
    BY <1>3 DEF Types, WorkerTypes, Counted, workerReceive, workerRun, workerPut
  <2> QED
    BY <1>1, <2>1 DEF Counters
<1>4. CASE revertCheck(w) \/ revertLock(w) \/ revertInsert(w)
  <2>1. Counted' = Counted /\ running' = running
    BY <1>4 DEF Types, WorkerTypes, Counted, revertCheck, revertLock, revertInsert
  <2> QED
    BY <1>1, <2>1 DEF Counters
<1> QED
  BY <1>2, <1>3, <1>4 DEF workerStep

\* Nobody else touches the counters or what they count.
LEMMA OthersKeepCounters ==
  ASSUME Counters,
         \/ \E p \in Purger : purgeStep(p)
         \/ workerSignal \/ releaseStep \/ Reboot
         \/ \E n \in 1..MaxCap : Tune(n)
         \/ \E r \in {"none", "running"} : Release(r)
  PROVE  Counters'
<1>1. UNCHANGED <<running, waiting, wpc, spc>>
  <2>1. ASSUME NEW p \in Purger, purgeStep(p) PROVE UNCHANGED <<running, waiting, wpc, spc>>
    BY <2>1 DEF purgeStep, svars, wvars, purgeReturn, purgeTick, purgeRefresh, purgeRead,
       purgeFinish, purgeClear, purgeWake
  <2>2. CASE workerSignal \/ Reboot \/ releaseStep
    BY <2>2 DEF svars, wvars, workerSignal, Reboot, releaseStep, releaseStop, releaseFinish,
       releaseReset, releaseBroadcast, pollRunning, pollPurgeDone,
     pollTicktockDone, PollAgain
  <2>3. CASE \E n \in 1..MaxCap : Tune(n)
    BY <2>3 DEF svars, wvars, Tune
  <2>4. CASE \E r \in {"none", "running"} : Release(r)
    BY <2>4 DEF svars, wvars, Release
  <2> QED
    BY <2>1, <2>2, <2>3, <2>4
<1> QED
  BY <1>1 DEF Counters, Counted, Parked

\* running is the number of worker goroutines between run and addRunning(-1),
\* waiting the number of submitters between their two addWaiting calls.
THEOREM CountersCount == Spec => []Counters
<1>1. Init => Counters
  <2> SUFFICES ASSUME Init PROVE Counters
    OBVIOUS
  <2>1. Counted = {} /\ Parked = {}
    BY DEF Init, Counted, Parked
  <2> QED
    BY <2>1, FS_EmptySet DEF Init, Counters
<1>2. Types /\ Counters /\ [Next]_vars => Counters'
  <2> SUFFICES ASSUME Types, Counters, [Next]_vars PROVE Counters'
    OBVIOUS
  <2>1. CASE Next
    BY <2>1, SubmitKeepsCounters, WorkerKeepsCounters, OthersKeepCounters DEF Next
  <2>2. CASE UNCHANGED vars
    BY <2>2 DEF vars, svars, wvars, Counters, Counted, Parked
  <2> QED
    BY <2>1, <2>2
<1> QED
  BY <1>1, <1>2, TypesInvariant, PTL DEF Spec

\* Every variable has its type, and neither counter becomes negative, whatever
\* order the goroutines' atomic updates come in.
THEOREM PoolTypesHold == Spec => []TypeOK
<1>1. Types /\ Counters => TypeOK
  BY CountedFinite, FS_CardinalityType DEF Types, Counters, TypeOK
<1> QED
  BY <1>1, TypesInvariant, CountersCount, PTL
----------------------------------------------------------------------------
(* The lock and the released queue *)

\* Who is inside a critical section that is longer than a step owns the lock.
Owners ==
    /\ \A s \in Submitter : spc[s] \in {"full", "wait", "retry"} => lock = s
    /\ \A w \in Worker : wpc[w] = "insert" => lock = w

\* After reset a closed pool holds no idle worker, and no goroutine is left
\* that has passed revertWorker's second look at the state.
Drained ==
    IsClosed /\ cpc \notin {"stop", "reset"} =>
      fifo = <<>> /\ \A w \in Worker : wpc[w] # "insert"

ReleaseInv == Owners /\ Drained

\* A submitter takes the lock only when it is free, and inserts no worker.
LEMMA SubmitKeepsReleaseInv ==
  ASSUME Types, ReleaseInv, NEW s \in Submitter, submitStep(s)
  PROVE  ReleaseInv'
<1> USE PoolAssumption
<1>1. UNCHANGED <<state, cpc>> /\ (fifo = <<>> => fifo' = <<>>)
  BY DEF submitStep, cvars, queue, Submit, retrieveIdle, retrieveCompare, retrieveFull,
     condWait, condWake, runWorker, inputFunc, WQ!Detach
<1>2. \A w \in Worker : wpc'[w] = "insert" => wpc[w] = "insert"
  <2>1. CASE runWorker(s)
    BY <2>1 DEF runWorker, Types, WorkerTypes
  <2>2. CASE ~runWorker(s)
    BY <2>2 DEF submitStep, wvars, Submit, retrieveIdle, retrieveCompare, retrieveFull,
       condWait, condWake, inputFunc
  <2> QED
    BY <2>1, <2>2
<1>3. Drained'
  BY <1>1, <1>2 DEF ReleaseInv, Drained, IsClosed
<1>4. Owners'
  <2>1. CASE Submit(s) \/ runWorker(s) \/ inputFunc(s)
    <3>1. lock' = lock
      BY <2>1 DEF Submit, runWorker, inputFunc
    <3>2. \A t \in Submitter : spc'[t] \in {"full", "wait", "retry"} => spc'[t] = spc[t]
      BY <2>1 DEF Submit, runWorker, inputFunc, spcStep, Types, SubmitTypes
    <3> QED
      BY <1>2, <3>1, <3>2 DEF ReleaseInv, Owners
  <2>2. CASE retrieveIdle(s) \/ retrieveCompare(s) \/ retrieveFull(s) \/ condWait(s)
              \/ condWake(s)
    <3>1. lock \in {None, s}
      BY <2>2 DEF retrieveIdle, retrieveCompare, retrieveFull, condWait, condWake, Retrying,
         spcStep, ReleaseInv, Owners
    <3>2. \A t \in Submitter \ {s} : spc'[t] = spc[t] /\ spc[t] \notin {"full", "wait", "retry"}
      BY <2>2, <3>1 DEF retrieveIdle, retrieveCompare, retrieveFull, condWait, condWake,
         Retrying, spcStep, ReleaseInv, Owners, Types, SubmitTypes
    <3>3. \A w \in Worker : wpc'[w] # "insert"
      BY <1>2, <3>1 DEF ReleaseInv, Owners
    <3>4. spc'[s] \in {"full", "wait", "retry"} => lock' = s
      BY <2>2, <3>1 DEF retrieveIdle, retrieveCompare, retrieveFull, condWait, condWake,
         Retrying, spcStep, ReleaseInv, Owners, Types, SubmitTypes, IsClosed
    <3> QED
      BY <3>2, <3>3, <3>4 DEF Owners
  <2> QED
    BY <2>1, <2>2 DEF submitStep
<1> QED
  BY <1>3, <1>4 DEF ReleaseInv

\* A worker goroutine enters the critical section of revertWorker only if the
\* pool is open at that moment.
LEMMA WorkerKeepsReleaseInv ==
  ASSUME Types, ReleaseInv, NEW w \in Worker, workerStep(w)
  PROVE  ReleaseInv'
<1> USE PoolAssumption
<1>1. UNCHANGED <<state, cpc, spc>>
  BY DEF workerStep, cvars, svars, workerReceive, workerRun, revertCheck, revertLock,
     revertInsert, workerExit, workerPut
<1>2. CASE workerReceive(w) \/ workerRun(w) \/ revertCheck(w) \/ workerExit(w) \/ workerPut(w)
  <2>1. UNCHANGED <<lock, fifo>>
    BY <1>2 DEF queue, workerReceive, workerRun, revertCheck, workerExit, workerPut
  <2>2. \A v \in Worker : wpc'[v] = "insert" => wpc[v] = "insert"
    <3>1. \A v \in Worker \ {w} : wpc'[v] = wpc[v]
      BY <1>2 DEF workerReceive, workerRun, revertCheck, workerExit, workerPut,
         Types, WorkerTypes
    <3>2. wpc'[w] # "insert"
      BY <1>2 DEF workerReceive, workerRun, revertCheck, workerExit, workerPut,
         Types, WorkerTypes
    <3> QED
      BY <3>1, <3>2
  <2> QED
    BY <1>1, <2>1, <2>2 DEF ReleaseInv, Owners, Drained, IsClosed
<1>3. CASE revertLock(w)
  <2>1. lock = None /\ fifo' = fifo
    BY <1>3 DEF revertLock, queue
  <2>2. CASE IsClosed
    <3>1. lock' = lock /\ wpc' = [wpc EXCEPT ![w] = "exit"]
      BY <1>3, <2>2 DEF revertLock
    <3> QED
      BY <1>1, <2>1, <3>1 DEF ReleaseInv, Owners, Drained, IsClosed,
         Types, WorkerTypes
  <2>3. CASE ~IsClosed
    <3>1. lock' = w /\ wpc' = [wpc EXCEPT ![w] = "insert"]
      BY <1>3, <2>3 DEF revertLock
    <3> QED
      BY <1>1, <2>1, <2>3, <3>1 DEF ReleaseInv, Owners, Drained, IsClosed,
         Types, WorkerTypes
  <2> QED
    BY <2>2, <2>3
<1>4. CASE revertInsert(w)
  <2>1. wpc[w] = "insert" /\ lock = w /\ lock' = None
    BY <1>4 DEF revertInsert, ReleaseInv, Owners
  <2>2. wpc' = [wpc EXCEPT ![w] = "receive"] \/ wpc' = [wpc EXCEPT ![w] = "exit"]
    BY <1>4 DEF revertInsert
  <2>3. \A v \in Worker : wpc'[v] # "insert"
    BY <2>1, <2>2 DEF ReleaseInv, Owners, Types, WorkerTypes
  <2>4. \A s \in Submitter : spc[s] \notin {"full", "wait", "retry"}
    BY <2>1 DEF ReleaseInv, Owners
  <2>5. ~(IsClosed /\ cpc \notin {"stop", "reset"})
    BY <2>1 DEF ReleaseInv, Drained
  <2> QED
    BY <1>1, <2>3, <2>4, <2>5 DEF ReleaseInv, Owners, Drained, IsClosed
<1> QED
  BY <1>2, <1>3, <1>4 DEF workerStep

\* A purger only shortens the queue.
LEMMA PurgeKeepsReleaseInv ==
  ASSUME Types, ReleaseInv, NEW p \in Purger, purgeStep(p)
  PROVE  ReleaseInv'
<1>1. UNCHANGED <<state, cpc, spc, wpc, lock>>
  BY DEF purgeStep, cvars, svars, wvars, purgeReturn, purgeTick, purgeRefresh, purgeRead,
     purgeFinish, purgeClear, purgeWake
<1>2. fifo = <<>> => fifo' = <<>>
  <2>1. CASE purgeRefresh(p)
    BY <2>1 DEF purgeRefresh, queue, WQ!Refresh
  <2>2. CASE ~purgeRefresh(p)
    BY <2>2 DEF purgeStep, queue, purgeReturn, purgeTick, purgeRead, purgeFinish,
       purgeClear, purgeWake
  <2> QED
    BY <2>1, <2>2
<1> QED
  BY <1>1, <1>2 DEF ReleaseInv, Owners, Drained, IsClosed

\* reset ends with the queue empty and the lock its own, so that no goroutine
\* is between its second look at the state and its insert.
LEMMA CtlKeepsReleaseInv ==
  ASSUME Types, ReleaseInv,
         \/ workerSignal \/ releaseStep \/ Reboot
         \/ \E n \in 1..MaxCap : Tune(n)
         \/ \E r \in {"none", "running"} : Release(r)
  PROVE  ReleaseInv'
<1> USE PoolAssumption
<1>1. UNCHANGED <<spc, wpc>>
  BY DEF svars, wvars, workerSignal, Reboot, releaseStep, releaseStop, releaseFinish,
     releaseReset, releaseBroadcast, pollRunning, pollPurgeDone,
     pollTicktockDone, PollAgain, Tune, Release
<1>2. CASE workerSignal \/ \E n \in 1..MaxCap : Tune(n)
  BY <1>1, <1>2 DEF workerSignal, Tune, queue, cvars, ReleaseInv, Owners, Drained, IsClosed
<1>3. CASE Reboot \/ \E r \in {"none", "running"} : Release(r)
  BY <1>1, <1>3 DEF Reboot, Release, ReleaseInv, Owners, Drained, IsClosed
<1>4. CASE releaseStop \/ releaseBroadcast \/ pollRunning \/ pollPurgeDone
             \/ pollTicktockDone
  BY <1>1, <1>4 DEF releaseStop, releaseBroadcast, pollRunning, pollPurgeDone,
     pollTicktockDone, PollAgain, queue, ReleaseInv, Owners,
     Drained, IsClosed
<1>5. CASE releaseFinish \/ releaseReset
  <2>1. /\ \A s \in Submitter : spc[s] \notin {"full", "wait", "retry"}
        /\ \A w \in Worker : wpc[w] # "insert"
    BY <1>5 DEF releaseFinish, releaseReset, ReleaseInv, Owners
  <2>2. cpc = "reset" /\ state' = state /\ cpc' \in {"reset", "broadcast"}
        /\ (cpc' = "broadcast" => fifo' = <<>>)
    BY <1>5 DEF releaseFinish, releaseReset
  <2> QED
    BY <1>1, <2>1, <2>2 DEF ReleaseInv, Owners, Drained, IsClosed
<1> QED
  BY <1>2, <1>3, <1>4, <1>5 DEF releaseStep

\* The argument behind ReleasedStaysEmpty, inductive.
LEMMA ReleaseInvariant == Spec => []ReleaseInv
<1>1. Init => ReleaseInv
  BY DEF Init, ReleaseInv, Owners, Drained, IsClosed
<1>2. Types /\ ReleaseInv /\ [Next]_vars => ReleaseInv'
  <2> SUFFICES ASSUME Types, ReleaseInv, [Next]_vars PROVE ReleaseInv'
    OBVIOUS
  <2>1. CASE Next
    BY <2>1, SubmitKeepsReleaseInv, WorkerKeepsReleaseInv, PurgeKeepsReleaseInv,
       CtlKeepsReleaseInv DEF Next
  <2>2. CASE UNCHANGED vars
    BY <2>2 DEF vars, queue, svars, wvars, cvars, ReleaseInv, Owners, Drained, IsClosed
  <2> QED
    BY <2>1, <2>2
<1> QED
  BY <1>1, <1>2, TypesInvariant, PTL DEF Spec

\* No worker gets back into the queue Release has emptied, for any number of
\* goroutines and whatever they had read before.
THEOREM ReleasedQueueStaysEmpty == Spec => []ReleasedStaysEmpty
<1>1. ReleaseInv => ReleasedStaysEmpty
  BY DEF ReleaseInv, Drained, ReleasedStaysEmpty
<1> QED
  BY <1>1, ReleaseInvariant, PTL
----------------------------------------------------------------------------
(* No idle worker is overlooked *)

\* The notify list holds sleeping submitters, each once.
Sleepers ==
    /\ \A i \in DOMAIN notify : spc[notify[i]] = "asleep"
    /\ \A i, j \in DOMAIN notify : notify[i] = notify[j] => i = j

\* Who has found the queue empty and the pool full keeps the lock until it
\* sleeps, so that no worker comes in between.
NoneIdle == \A s \in Submitter : spc[s] \in {"full", "wait"} => fifo = <<>>

IdleInv == Sleepers /\ NoneIdle /\ IdleNeverOverlooked

LEMMA SubmittersFinite ==
  ASSUME NEW S \in SUBSET Submitter
  PROVE  /\ IsFiniteSet(S) /\ Cardinality(S) \in Nat
         /\ \A T \in SUBSET S : Cardinality(T) \in Nat /\ Cardinality(T) <= Cardinality(S)
<1>1. IsFiniteSet(S)
  BY PoolAssumption, FS_Subset
<1> QED
  BY <1>1, FS_Subset, FS_CardinalityType

\* Signal wakes the submitter at the head of the list and nobody else.
LEMMA SignalTakesHead ==
  ASSUME notify \in Seq(Submitter), notify # <<>>, Sleepers, Signal, spc' = spc
  PROVE  /\ Sleepers'
         /\ Range(notify') \subseteq Range(notify)
         /\ notify[1] \in Submitter /\ spc[notify[1]] = "asleep"
         /\ notify[1] \in Range(notify) /\ notify[1] \notin Range(notify')
<1>1. PICK n \in Nat : n = Len(notify)
  OBVIOUS
<1>2. n >= 1 /\ DOMAIN notify = 1..n /\ notify[1] \in Submitter
  BY <1>1
<1>3. /\ DOMAIN notify' = 1..(n - 1)
      /\ \A i \in 1..(n - 1) : notify'[i] = notify[i + 1]
  BY <1>1, <1>2 DEF Signal
<1>4. Sleepers'
  <2>1. ASSUME NEW i \in 1..(n - 1)
        PROVE  i + 1 \in 1..n /\ spc'[notify'[i]] = "asleep"
    BY <1>2, <1>3 DEF Sleepers
  <2>2. ASSUME NEW i \in 1..(n - 1), NEW j \in 1..(n - 1), notify'[i] = notify'[j]
        PROVE  i = j
    <3>1. i + 1 \in 1..n /\ j + 1 \in 1..n
      BY <2>1, <2>2
    <3>2. notify[i + 1] = notify[j + 1]
      BY <1>3, <2>2
    <3>3. i + 1 = j + 1
      BY <1>2, <3>1, <3>2 DEF Sleepers
    <3> QED
      BY <3>3
  <2> QED
    BY <1>3, <2>1, <2>2 DEF Sleepers
<1>5. Range(notify') \subseteq Range(notify) /\ notify[1] \in Range(notify)
  BY <1>2, <1>3 DEF Range
<1>6. notify[1] \notin Range(notify')
  BY <1>2, <1>3 DEF Sleepers, Range
<1>7. spc[notify[1]] = "asleep"
  BY <1>2 DEF Sleepers
<1> QED
  BY <1>2, <1>4, <1>5, <1>6, <1>7

\* Who is awake stays awake, whoever is woken.
LEMMA WakingKeepsAwake ==
  ASSUME notify \in Seq(Submitter), Sleepers, spc' = spc,
         Signal \/ Broadcast \/ UNCHANGED notify
  PROVE  Sleepers' /\ Awake \subseteq Awake'
<1>1. Sleepers' /\ Range(notify') \subseteq Range(notify)
  <2>1. CASE notify' = <<>>
    BY <2>1 DEF Sleepers, Range
  <2>2. CASE notify' = notify
    BY <2>2 DEF Sleepers, Range
  <2>3. CASE notify # <<>> /\ Signal
    BY <2>3, SignalTakesHead
  <2> QED
    BY <2>1, <2>2, <2>3 DEF Signal, Broadcast
<1> QED
  BY <1>1 DEF Awake

\* A step that puts no worker into the queue and moves no submitter.
LEMMA WakingKeepsIdleInv ==
  ASSUME Types, Types', IdleInv, spc' = spc, IsClosed' \/ ~IsClosed,
         Signal \/ Broadcast \/ UNCHANGED notify,
         fifo = <<>> => fifo' = <<>>, Len(fifo') <= Len(fifo)
  PROVE  IdleInv'
<1>1. Sleepers' /\ Awake \subseteq Awake'
  BY WakingKeepsAwake DEF Types, PoolTypes, IdleInv
<1>2. NoneIdle'
  BY DEF IdleInv, NoneIdle
<1>3. ASSUME ~IsClosed', notify' # <<>>
      PROVE  Len(fifo') <= Cardinality(Awake')
  <2>1. Cardinality(Awake) <= Cardinality(Awake')
        /\ Cardinality(Awake) \in Nat /\ Cardinality(Awake') \in Nat
    <3>1. Awake' \in SUBSET Submitter
      BY DEF Awake
    <3> QED
      BY <1>1, <3>1, SubmittersFinite
  <2>2. notify # <<>>
    BY <1>3 DEF Signal, Broadcast
  <2>3. Len(fifo) <= Cardinality(Awake)
    BY <1>3, <2>2 DEF IdleInv, IdleNeverOverlooked
  <2>4. Len(fifo) \in Nat /\ Len(fifo') \in Nat
    BY DEF Types, PoolTypes
  <2> QED
    BY <2>1, <2>3, <2>4
<1> QED
  BY <1>1, <1>2, <1>3 DEF IdleInv, IdleNeverOverlooked

\* A submitter that moves on leaves the notify list as it is, as long as it
\* does not sleep and is not in it.
LEMMA MovingKeepsSleepers ==
  ASSUME Types, Sleepers, NEW s \in Submitter, spc[s] # "asleep" \/ s \notin Range(notify),
         \A t \in Submitter \ {s} : spc'[t] = spc[t],
         UNCHANGED notify
  PROVE  Sleepers'
<1>1. \A i \in DOMAIN notify : notify[i] \in Submitter /\ notify[i] # s
  BY DEF Types, PoolTypes, Sleepers, Range
<1> QED
  BY <1>1 DEF Sleepers
\* A submitter on its way through retrieveWorker.
LEMMA SubmitKeepsIdleInv ==
  ASSUME Types, Types', ReleaseInv, IdleInv, NEW s \in Submitter, submitStep(s)
  PROVE  IdleInv'
<1>1. fifo \in Seq(Worker) /\ fifo' \in Seq(Worker) /\ Len(fifo) \in Nat /\ Len(fifo') \in Nat
  BY DEF Types, PoolTypes
<1>2. spc \in [Submitter -> {"start", "lock", "retry", "full", "wait", "asleep",
                              "get", "send"} \cup Returned]
  BY DEF Types, SubmitTypes
<1>3. Awake \in SUBSET Submitter /\ Awake' \in SUBSET Submitter
  BY DEF Awake
<1>4. Cardinality(Awake) \in Nat /\ Cardinality(Awake') \in Nat
  BY <1>3, SubmittersFinite
<1>5. state' = state
  BY DEF submitStep, Submit, retrieveIdle, retrieveCompare, retrieveFull, condWait, condWake,
     runWorker, inputFunc
<1>6. CASE Submit(s) \/ retrieveFull(s) \/ runWorker(s) \/ inputFunc(s)
  <2>1. /\ UNCHANGED <<fifo, notify>>
        /\ spc[s] \in {"start", "full", "get", "send"}
        /\ spc'[s] \in {"ErrPoolClosed", "lock", "ErrPoolOverload", "wait", "send", "nil"}
        /\ spc'[s] = "wait" => spc[s] = "full"
        /\ \A t \in Submitter \ {s} : spc'[t] = spc[t]
    BY <1>2, <1>6 DEF Submit, retrieveFull, runWorker, inputFunc, spcStep, queue
  <2>2. Sleepers'
    BY <2>1, MovingKeepsSleepers DEF IdleInv
  <2>3. NoneIdle'
    BY <2>1 DEF IdleInv, NoneIdle
  <2>4. Awake' = Awake
    BY <2>1 DEF Awake
  <2> QED
    BY <1>5, <2>1, <2>2, <2>3, <2>4 DEF IdleInv, IdleNeverOverlooked, IsClosed
<1>7. CASE retrieveIdle(s)
  <2>1. /\ notify' = notify /\ fifo # <<>> /\ fifo' = Tail(fifo)
        /\ spc[s] \in {"lock", "retry"} /\ spc'[s] = "send"
        /\ \A t \in Submitter \ {s} : spc'[t] = spc[t]
    BY <1>2, <1>7 DEF retrieveIdle, Retrying, WQ!Detach
  <2>2. Sleepers'
    BY <2>1, MovingKeepsSleepers DEF IdleInv
  <2>3. NoneIdle'
    BY <2>1 DEF IdleInv, NoneIdle
  <2>4. Len(fifo') = Len(fifo) - 1
    BY <1>1, <2>1
  <2>5. Awake' = Awake \ {s}
    BY <2>1 DEF Awake
  <2>6. Cardinality(Awake') >= Cardinality(Awake) - 1
    <3>1. IsFiniteSet(Awake)
      BY <1>3, SubmittersFinite
    <3>2. Cardinality(Awake \ {s}) \in {Cardinality(Awake), Cardinality(Awake) - 1}
      BY <3>1, FS_RemoveElement
    <3> QED
      BY <1>4, <2>5, <3>2
  <2>7. ASSUME ~IsClosed', notify' # <<>> PROVE Len(fifo') <= Cardinality(Awake')
    <3>1. Len(fifo) <= Cardinality(Awake)
      BY <1>5, <2>1, <2>7 DEF IdleInv, IdleNeverOverlooked, IsClosed
    <3> QED
      BY <1>1, <1>4, <2>4, <2>6, <3>1
  <2> QED
    BY <2>2, <2>3, <2>7 DEF IdleInv, IdleNeverOverlooked
<1>8. CASE retrieveCompare(s) \/ condWait(s)
  <2>1. /\ fifo' = <<>>
        /\ \A t \in Submitter \ {s} : spc'[t] = spc[t]
    BY <1>2, <1>8 DEF retrieveCompare, condWait, spcStep, queue, IdleInv, NoneIdle
  <2>2. NoneIdle'
    BY <2>1 DEF NoneIdle
  <2>3. Len(fifo') = 0
    BY <2>1
  <2>4. Sleepers'
    <3>1. CASE retrieveCompare(s)
      <4>1. notify' = notify /\ spc[s] # "asleep"
        BY <3>1 DEF retrieveCompare, Retrying
      <4> QED
        BY <2>1, <4>1, MovingKeepsSleepers DEF IdleInv
    <3>2. CASE condWait(s)
      <4>1. PICK n \in Nat : n = Len(notify)
        BY DEF Types, PoolTypes
      <4>2. /\ DOMAIN notify = 1..n
            /\ \A i \in 1..n : notify[i] \in Submitter /\ spc[notify[i]] = "asleep"
            /\ \A i, j \in 1..n : notify[i] = notify[j] => i = j
        <5>1. DOMAIN notify = 1..n /\ \A i \in 1..n : notify[i] \in Submitter
          BY <4>1 DEF Types, PoolTypes
        <5> QED
          BY <5>1 DEF IdleInv, Sleepers
      <4>3. /\ DOMAIN notify' = 1..(n + 1) /\ notify'[n + 1] = s
            /\ \A i \in 1..n : notify'[i] = notify[i]
        BY <3>2, <4>1 DEF condWait, Types, PoolTypes
      <4>4. spc[s] = "wait" /\ spc'[s] = "asleep"
        BY <1>2, <3>2 DEF condWait, spcStep
      <4>5. \A i \in 1..n : notify[i] # s
        BY <4>2, <4>4
      <4>6. \A i \in 1..(n + 1) : spc'[notify'[i]] = "asleep"
        BY <2>1, <4>1, <4>2, <4>3, <4>4, <4>5
      <4>7. \A i, j \in 1..(n + 1) : notify'[i] = notify'[j] => i = j
        BY <4>1, <4>2, <4>3, <4>5
      <4> QED
        BY <4>3, <4>6, <4>7 DEF Sleepers
    <3> QED
      BY <1>8, <3>1, <3>2
  <2> QED
    BY <1>4, <2>2, <2>3, <2>4 DEF IdleInv, IdleNeverOverlooked
<1>9. CASE condWake(s)
  <2>1. /\ UNCHANGED <<fifo, notify>> /\ s \notin Range(notify)
        /\ spc[s] = "asleep" /\ spc'[s] = (IF IsClosed THEN "ErrPoolClosed" ELSE "retry")
        /\ \A t \in Submitter \ {s} : spc'[t] = spc[t]
    BY <1>2, <1>9 DEF condWake, spcStep, queue
  <2>2. Sleepers'
    BY <2>1, MovingKeepsSleepers DEF IdleInv
  <2>3. NoneIdle'
    BY <2>1 DEF IdleInv, NoneIdle
  <2>4. ~IsClosed => Awake' = Awake
    BY <2>1 DEF Awake
  <2> QED
    BY <1>5, <2>1, <2>2, <2>3, <2>4 DEF IdleInv, IdleNeverOverlooked, IsClosed
<1> QED
  BY <1>6, <1>7, <1>8, <1>9 DEF submitStep
\* A worker that enters the queue wakes a sleeper, if there is one.
LEMMA WorkerKeepsIdleInv ==
  ASSUME Types, Types', ReleaseInv, IdleInv, NEW w \in Worker, workerStep(w)
  PROVE  IdleInv'
<1>1. spc' = spc /\ state' = state
  BY DEF workerStep, svars, workerReceive, workerRun, revertCheck, revertLock, revertInsert,
     workerExit, workerPut
<1>2. CASE ~ revertInsert(w)
  <2>1. fifo' = fifo /\ (Broadcast \/ UNCHANGED notify)
    BY <1>2 DEF workerStep, queue, workerReceive, workerRun, revertCheck, revertLock,
       workerExit, workerPut
  <2>2. Len(fifo') <= Len(fifo)
    BY <2>1 DEF Types, PoolTypes
  <2> QED
    BY <1>1, <2>1, <2>2, WakingKeepsIdleInv DEF IsClosed
<1>3. CASE revertInsert(w) /\ ~ WQ!Insert(w)
  <2>1. fifo' = fifo /\ UNCHANGED notify
    BY <1>3 DEF revertInsert, queue
  <2>2. Len(fifo') <= Len(fifo)
    BY <2>1 DEF Types, PoolTypes
  <2> QED
    BY <1>1, <2>1, <2>2, WakingKeepsIdleInv DEF IsClosed
<1>4. CASE revertInsert(w) /\ WQ!Insert(w)
  <2>1. Signal
    BY <1>4 DEF revertInsert, WQ!Insert
  <2>2. Len(fifo') = Len(fifo) + 1 /\ Len(fifo) \in Nat
    BY <1>4 DEF WQ!Insert, Types, PoolTypes
  <2>3. NoneIdle'
    <3>1. lock = w
      BY <1>4 DEF revertInsert, ReleaseInv, Owners
    <3> QED
      BY <1>1, <3>1, PoolAssumption DEF ReleaseInv, Owners, NoneIdle
  <2>4. Sleepers' /\ Awake \subseteq Awake'
    BY <1>1, <2>1, WakingKeepsAwake DEF Types, PoolTypes, IdleInv
  <2>5. ASSUME ~IsClosed', notify' # <<>>
        PROVE  Len(fifo') <= Cardinality(Awake')
    <3>1. notify # <<>>
      BY <2>1, <2>5 DEF Signal
    <3>2. Len(fifo) <= Cardinality(Awake)
      BY <1>1, <2>5, <3>1 DEF IdleInv, IdleNeverOverlooked, IsClosed
    <3>3. PICK s \in Submitter : /\ spc[s] = "asleep" /\ s \in Range(notify)
                                 /\ s \notin Range(notify')
      BY <1>1, <2>1, <3>1, SignalTakesHead DEF Types, PoolTypes, IdleInv
    <3>4. s \in Awake' /\ s \notin Awake
      BY <1>1, <3>3 DEF Awake
    <3>5. Awake \in SUBSET Submitter /\ Awake' \in SUBSET Submitter
      BY DEF Awake
    <3>6. IsFiniteSet(Awake) /\ Cardinality(Awake) \in Nat
      BY <3>5, SubmittersFinite
    <3>7. Cardinality(Awake \cup {s}) = Cardinality(Awake) + 1
      BY <3>4, <3>6, FS_AddElement
    <3>8. Cardinality(Awake \cup {s}) <= Cardinality(Awake') /\ Cardinality(Awake') \in Nat
      BY <2>4, <3>4, <3>5, SubmittersFinite
    <3> QED
      BY <2>2, <3>2, <3>6, <3>7, <3>8
  <2> QED
    BY <2>3, <2>4, <2>5 DEF IdleInv, IdleNeverOverlooked
<1> QED
  BY <1>2, <1>3, <1>4

\* Everybody else only wakes submitters and takes workers out of the queue;
\* Reboot opens a pool whose queue is empty.
LEMMA OthersKeepIdleInv ==
  ASSUME Types, Types', ReleaseInv, IdleInv,
         \/ \E p \in Purger : purgeStep(p)
         \/ workerSignal \/ releaseStep \/ Reboot
         \/ \E n \in 1..MaxCap : Tune(n)
         \/ \E r \in {"none", "running"} : Release(r)
  PROVE  IdleInv'
<1>1. fifo \in Seq(Worker) /\ fifo' \in Seq(Worker) /\ Len(fifo) \in Nat /\ Len(fifo') \in Nat
  BY DEF Types, PoolTypes
<1>2. ASSUME NEW p \in Purger, purgeStep(p)
      PROVE  IdleInv'
  <2>1. spc' = spc /\ state' = state /\ (Broadcast \/ UNCHANGED notify)
    BY <1>2 DEF purgeStep, svars, purgeReturn, purgeTick, purgeRefresh, purgeRead, purgeFinish,
       purgeClear, purgeWake
  <2>2. (fifo = <<>> => fifo' = <<>>) /\ Len(fifo') <= Len(fifo)
    <3>1. CASE UNCHANGED queue
      BY <1>1, <3>1 DEF queue
    <3>2. ASSUME NEW n \in 1..Len(fifo), WQ!Refresh(n)
          PROVE  fifo # <<>> /\ Len(fifo') <= Len(fifo)
      <4>1. fifo' = SubSeq(fifo, n + 1, Len(fifo))
        BY <3>2 DEF WQ!Refresh
      <4>2. Len(fifo') = Len(fifo) - n
        BY <1>1, <4>1
      <4> QED
        BY <1>1, <4>2
    <3>3. UNCHANGED queue \/ \E n \in 1..Len(fifo) : WQ!Refresh(n)
      BY <1>2 DEF purgeStep, queue, purgeReturn, purgeTick, purgeRefresh, purgeRead, purgeFinish,
       purgeClear, purgeWake
    <3> QED
      BY <3>1, <3>2, <3>3
  <2> QED
    BY <2>1, <2>2, WakingKeepsIdleInv DEF IsClosed
<1>3. CASE workerSignal \/ releaseStop \/ releaseReset \/ releaseBroadcast
             \/ pollRunning \/ pollPurgeDone \/ pollTicktockDone
             \/ (\E n \in 1..MaxCap : Tune(n))
             \/ (\E r \in {"none", "running"} : Release(r))
  <2>1. /\ spc' = spc /\ fifo' = fifo
        /\ state' = state \/ state' = "CLOSED"
    BY <1>3 DEF svars, queue, workerSignal, releaseStop, releaseReset, releaseBroadcast,
       pollRunning, pollPurgeDone, pollTicktockDone, PollAgain, Tune, Release
  <2>2. Signal \/ Broadcast \/ UNCHANGED notify
    BY <1>3 DEF workerSignal, releaseStop, releaseReset, releaseBroadcast, pollRunning, pollPurgeDone,
     pollTicktockDone, PollAgain, Tune,
       Release
  <2>3. Len(fifo') <= Len(fifo)
    BY <1>1, <2>1
  <2> QED
    BY <2>1, <2>2, <2>3, WakingKeepsIdleInv DEF IsClosed
<1>4. CASE releaseFinish
  <2>1. spc' = spc /\ state' = state /\ UNCHANGED notify
    BY <1>4 DEF releaseFinish, svars
  <2>2. fifo # <<>> /\ fifo' = Tail(fifo)
    BY <1>4 DEF releaseFinish, WQ!Detach
  <2>3. Len(fifo') <= Len(fifo)
    BY <1>1, <2>2
  <2> QED
    BY <2>1, <2>2, <2>3, WakingKeepsIdleInv DEF IsClosed
<1>5. CASE Reboot
  <2>1. fifo = <<>> /\ UNCHANGED <<fifo, notify, spc>>
    BY <1>5 DEF Reboot, ReleaseInv, Drained, queue, svars
  <2>2. Sleepers' /\ NoneIdle'
    BY <2>1 DEF IdleInv, Sleepers, NoneIdle
  <2>3. Len(fifo') = 0 /\ Cardinality(Awake') \in Nat
    <3>1. Awake' \in SUBSET Submitter
      BY DEF Awake
    <3> QED
      BY <2>1, <3>1, SubmittersFinite
  <2> QED
    BY <2>2, <2>3 DEF IdleInv, IdleNeverOverlooked
<1> QED
  BY <1>2, <1>3, <1>4, <1>5 DEF releaseStep

LEMMA IdleInvariant == Spec => []IdleInv
<1>1. Init => IdleInv
  BY DEF Init, IdleInv, Sleepers, NoneIdle, IdleNeverOverlooked
<1>2. Types /\ Types' /\ ReleaseInv /\ IdleInv /\ [Next]_vars => IdleInv'
  <2> SUFFICES ASSUME Types, Types', ReleaseInv, IdleInv, [Next]_vars PROVE IdleInv'
    OBVIOUS
  <2>1. CASE Next
    BY <2>1, SubmitKeepsIdleInv, WorkerKeepsIdleInv, OthersKeepIdleInv DEF Next
  <2>2. CASE UNCHANGED vars
    BY <2>2 DEF vars, queue, svars, IdleInv, Sleepers, NoneIdle, IdleNeverOverlooked, Awake,
       IsClosed
  <2> QED
    BY <2>1, <2>2
<1> QED
  BY <1>1, <1>2, TypesInvariant, ReleaseInvariant, PTL DEF Spec

\* In an open pool where callers sleep there are never more idle workers than
\* callers on their way to them, for any number of goroutines: the one Signal
\* revertWorker sends per insert loses no wake-up.
THEOREM IdleWorkersNeverOverlooked == Spec => []IdleNeverOverlooked
<1>1. IdleInv => IdleNeverOverlooked
  BY DEF IdleInv
<1> QED
  BY <1>1, IdleInvariant, PTL
----------------------------------------------------------------------------
(* Every worker is in one hand *)

\* What slot i of the slice of purger p holds.
Stored(p, i) == arrays[slice[p].array][i]

\* The workers in each kind of hand.
Queued == { w \in Worker : \E i \in DOMAIN fifo : fifo[i] = w }
Held == { w \in Worker : \E s \in Submitter : hold[s] = w }
Condemned == { w \in Worker : \E p \in Purger : \E i \in Condemning(p) : Stored(p, i) = w }
Reached == { w \in Worker : chan[w] # None }
Away == { w \in Worker : wpc[w] # "receive" }

Partition ==
    /\ Worker = Queued \cup Held \cup Condemned \cup Reached \cup Away
    /\ Queued \cap (Held \cup Condemned \cup Reached \cup Away) = {}
    /\ Held \cap (Condemned \cup Reached \cup Away) = {}
    /\ Condemned \cap (Reached \cup Away) = {}
    /\ Reached \cap Away = {}

\* Within a kind the hand is unique.
QueuedOnce == \A i, j \in DOMAIN fifo : fifo[i] = fifo[j] => i = j
HeldOnce == \A s, t \in Submitter : hold[s] # None /\ hold[s] = hold[t] => s = t
CondemnedOnce ==
    \A p, q \in Purger : \A i \in Condemning(p), j \in Condemning(q) :
      /\ Stored(p, i) \in Worker
      /\ Stored(p, i) = Stored(q, j) => p = q /\ i = j

\* No two purgers go through one slot.
SlotsApart == \A p, q \in Purger : p # q => Uncleared(p) \cap Uncleared(q) = {}

\* A purger is about to finish the worker that is in its slot still.
Sending ==
    \A p \in Purger : /\ ppc[p] # "panic"
                      /\ ppc[p] = "send" => victim[p] = Stored(p, slice[p].next)

InOneHand ==
    Partition /\ QueuedOnce /\ HeldOnce /\ CondemnedOnce /\ SlotsApart /\ Sending

\* Who holds workers, which purgers have not been started, and which are inside
\* their loop, whatever has been overwritten.
HoldersAt ==
    /\ \A s \in Submitter : hold[s] # None <=> spc[s] = "send"
    /\ \A p \in Purger : p > reboots => ppc[p] = "none"
    /\ \A p \in Purger : ppc[p] \in {"none", "select", "lock", "returned"} =>
                           slice[p].next > slice[p].len
    /\ \A p \in Purger : ppc[p] \in {"send", "clear"} => slice[p].next <= slice[p].len

Hands == ~overwritten => InOneHand

\* The steps of a submitter keep HoldersAt: it has a worker while it sends.
LEMMA SubmitKeepsHoldersAt ==
  ASSUME Types, HoldersAt, NEW s \in Submitter, submitStep(s)
  PROVE  HoldersAt'
<1> USE PoolAssumption
<1>1. UNCHANGED <<ppc, slice, reboots>>
  BY DEF submitStep, pvars, staleWorkers, cvars, calls, Submit, retrieveIdle,
     retrieveCompare, retrieveFull, condWait, condWake, runWorker, inputFunc
<1>2. \A t \in Submitter : hold'[t] # None <=> spc'[t] = "send"
  <2>1. CASE Submit(s) \/ retrieveCompare(s) \/ retrieveFull(s) \/ condWait(s) \/ condWake(s)
    <3>1. hold' = hold
      BY <2>1 DEF Submit, retrieveCompare, retrieveFull, condWait, condWake
    <3>2. \A t \in Submitter : spc'[t] = "send" <=> spc[t] = "send"
      BY <2>1 DEF Submit, retrieveCompare, retrieveFull, condWait, condWake, Retrying, spcStep,
         Types, SubmitTypes, IsClosed
    <3> QED
      BY <3>1, <3>2 DEF HoldersAt
  <2>2. CASE retrieveIdle(s) \/ runWorker(s)
    <3>1. PICK w \in Worker : hold' = [hold EXCEPT ![s] = w]
      BY <2>2 DEF retrieveIdle, runWorker
    <3>2. spc' = [spc EXCEPT ![s] = "send"]
      BY <2>2 DEF retrieveIdle, runWorker, spcStep
    <3> QED
      BY <3>1, <3>2 DEF HoldersAt, Types, SubmitTypes
  <2>3. CASE inputFunc(s)
    <3>1. hold' = [hold EXCEPT ![s] = None] /\ spc' = [spc EXCEPT ![s] = "nil"]
      BY <2>3 DEF inputFunc, spcStep
    <3> QED
      BY <3>1 DEF HoldersAt, Types, SubmitTypes
  <2> QED
    BY <2>1, <2>2, <2>3 DEF submitStep
<1> QED
  BY <1>1, <1>2 DEF HoldersAt

\* So do the steps of a purger, whose loop begins and ends with a slice.
LEMMA PurgeKeepsHoldersAt ==
  ASSUME Types, HoldersAt, NEW p \in Purger, purgeStep(p)
  PROVE  HoldersAt'
<1> USE PoolAssumption
<1>1. UNCHANGED <<hold, spc, reboots>>
  BY DEF purgeStep, svars, cvars, calls, purgeReturn, purgeTick, purgeRefresh, purgeRead,
     purgeFinish, purgeClear, purgeWake
<1>2. ppc[p] # "none" /\ \E to \in {"select", "lock", "finish", "send", "clear", "panic",
                                    "returned"} : ppc' = [ppc EXCEPT ![p] = to]
  BY DEF purgeStep, ppcStep, purgeReturn, purgeTick, purgeRefresh, purgeRead, purgeFinish,
     purgeClear, purgeWake
<1>3. \A q \in Purger : q > reboots' => ppc'[q] = "none"
  BY <1>1, <1>2 DEF HoldersAt, Types, PurgeTypes
<1>4. \A q \in Purger : q # p => ppc'[q] = ppc[q] /\ slice'[q] = slice[q]
  <2>1. slice' = slice \/ \E sl : slice' = [slice EXCEPT ![p] = sl]
    <3>1. CASE purgeReturn(p) \/ purgeTick(p) \/ purgeRead(p) \/ purgeFinish(p)
      BY <3>1 DEF purgeReturn, purgeTick, purgeRead, purgeFinish, staleWorkers
    <3>2. CASE purgeRefresh(p)
      BY <3>2, ZenonT(30) DEF purgeRefresh, appendStale
    <3>3. CASE purgeClear(p) \/ purgeWake(p)
      BY <3>3 DEF purgeClear, purgeWake
    <3> QED
      BY <3>1, <3>2, <3>3 DEF purgeStep
  <2> QED
    BY <1>2, <2>1 DEF Types, PurgeTypes, SliceTypes
<1>5. /\ ppc'[p] \in {"none", "select", "lock", "returned"} => slice'[p].next > slice'[p].len
      /\ ppc'[p] \in {"send", "clear"} => slice'[p].next <= slice'[p].len
  <2>1. CASE purgeReturn(p) \/ purgeTick(p)
    <3>1. ppc[p] = "select" /\ ppc'[p] \in {"lock", "returned"} /\ slice' = slice
      BY <2>1 DEF purgeReturn, purgeTick, ppcStep, staleWorkers, Types, PurgeTypes
    <3> QED
      BY <3>1 DEF HoldersAt
  <2>2. CASE purgeRefresh(p) \/ purgeClear(p)
    <3>1. ppc'[p] = "finish"
      BY <2>2 DEF purgeRefresh, purgeClear, ppcStep, Types, PurgeTypes
    <3> QED
      BY <3>1
  <2>3. CASE purgeRead(p)
    <3>1. ppc'[p] \in {"panic", "send"} /\ slice' = slice /\ slice[p].next <= slice[p].len
      BY <2>3 DEF purgeRead, ppcStep, Types, PurgeTypes
    <3> QED
      BY <3>1
  <2>4. CASE purgeFinish(p)
    <3>1. ppc[p] = "send" /\ ppc'[p] = "clear" /\ slice' = slice
      BY <2>4 DEF purgeFinish, ppcStep, Types, PurgeTypes
    <3> QED
      BY <3>1 DEF HoldersAt
  <2>5. CASE purgeWake(p)
    <3>1. ppc'[p] = "select" /\ slice'[p] = NoSlice
      BY <2>5 DEF purgeWake, ppcStep, Types, PurgeTypes, SliceTypes
    <3> QED
      BY <3>1 DEF NoSlice
  <2> QED
    BY <2>1, <2>2, <2>3, <2>4, <2>5 DEF purgeStep
<1> QED
  BY <1>1, <1>3, <1>4, <1>5 DEF HoldersAt

\* HoldersAt always holds.
LEMMA HoldersInvariant == Spec => []HoldersAt
<1> USE PoolAssumption
<1>1. Init => HoldersAt
  <2> SUFFICES ASSUME Init PROVE HoldersAt
    OBVIOUS
  <2>1. /\ hold = [s \in Submitter |-> None] /\ reboots = 0
        /\ spc = [s \in Submitter |-> "start"] /\ slice = [p \in Purger |-> NoSlice]
    BY DEF Init
  <2>2. \A p \in Purger : ppc[p] \in {"select", "none"} /\ (p > 0 => ppc[p] = "none")
    BY DEF Init, Purger
  <2> QED
    BY <2>1, <2>2 DEF HoldersAt, NoSlice
<1>2. Types /\ HoldersAt /\ [Next]_vars => HoldersAt'
  <2> SUFFICES ASSUME Types, HoldersAt, [Next]_vars PROVE HoldersAt'
    OBVIOUS
  <2>1. CASE \E w \in Worker : workerStep(w)
    <3>1. UNCHANGED <<hold, spc, slice, ppc, reboots>>
      BY <2>1 DEF workerStep, svars, pvars, staleWorkers, cvars, calls, workerReceive,
         workerRun, revertCheck, revertLock, revertInsert, workerExit, workerPut
    <3> QED
      BY <3>1 DEF HoldersAt
  <2>2. CASE \/ workerSignal \/ releaseStep
             \/ \E n \in 1..MaxCap : Tune(n)
             \/ \E r \in {"none", "running"} : Release(r)
    <3>1. UNCHANGED <<hold, spc, slice, ppc, reboots>>
      BY <2>2 DEF svars, pvars, staleWorkers, cvars, calls, workerSignal, releaseStep,
         releaseStop, releaseFinish, releaseReset, releaseBroadcast, pollRunning,
         pollPurgeDone, pollTicktockDone, Tune, Release
    <3> QED
      BY <3>1 DEF HoldersAt
  <2>3. CASE Reboot
    <3>1. UNCHANGED <<hold, spc, slice>> /\ reboots' = reboots + 1
      BY <2>3 DEF Reboot, svars, staleWorkers
    <3>2. reboots \in Nat /\ reboots + 1 \in Purger /\ ppc[reboots + 1] = "none"
      BY <2>3 DEF Reboot, Types, CtlTypes, Purger, HoldersAt
    <3>3. ppc' = ppc \/ ppc' = [ppc EXCEPT ![reboots + 1] = "select"]
      BY <2>3 DEF Reboot
    <3> QED
      BY <3>1, <3>2, <3>3 DEF HoldersAt, Types, PurgeTypes, Purger
  <2>4. CASE UNCHANGED vars
    <3>1. UNCHANGED <<hold, spc, slice, ppc, reboots>>
      BY <2>4 DEF vars, svars, pvars, staleWorkers, cvars, calls
    <3> QED
      BY <3>1 DEF HoldersAt
  <2>5. CASE (\E s \in Submitter : submitStep(s)) \/ (\E p \in Purger : purgeStep(p))
    BY <2>5, SubmitKeepsHoldersAt, PurgeKeepsHoldersAt
  <2> QED
    BY <2>1, <2>2, <2>3, <2>4, <2>5 DEF Next
<1> QED
  BY <1>1, <1>2, TypesInvariant, PTL DEF Spec

\* With InOneHand every worker has exactly one holder.
LEMMA HandsGiveOneHolder ==
  ASSUME Types, Hands
  PROVE  OneHolder
<1> SUFFICES ASSUME InOneHand, NEW w \in Worker PROVE \E h : Holders(w) = {h}
  BY FS_Singleton DEF OneHolder, Hands, InOneHand, Sending
<1> USE PoolAssumption
<1> DEFINE inQueue == { <<"queue", i>> : i \in { i \in DOMAIN fifo : fifo[i] = w } }
           atSubmitter == { <<"submitter", s>> : s \in { s \in Submitter : hold[s] = w } }
           slots(p) == { i \in Condemning(p) : arrays[slice[p].array][i] = w }
           atPurger == UNION { { <<"purger", p, i>> : i \in slots(p) } : p \in Purger }
<1>0. /\ Holders(w) = inQueue \cup atSubmitter \cup atPurger
            \cup (IF chan[w] # None THEN { <<"channel">> } ELSE {})
            \cup (IF wpc[w] # "receive" THEN { <<"itself">> } ELSE {})
      /\ w \notin Queued => inQueue = {}
      /\ w \notin Held => atSubmitter = {}
      /\ w \notin Condemned => atPurger = {}
      /\ chan[w] # None <=> w \in Reached
      /\ wpc[w] # "receive" <=> w \in Away
  <2>1. w \notin Queued => inQueue = {}
    BY DEF Queued
  <2>2. w \notin Held => atSubmitter = {}
    BY DEF Held
  <2>3. w \notin Condemned => atPurger = {}
    <3>1. w \notin Condemned => \A p \in Purger : slots(p) = {}
      BY DEF Condemned, Stored
    <3> QED
      BY <3>1
  <2>4. Holders(w) = inQueue \cup atSubmitter \cup atPurger
            \cup (IF chan[w] # None THEN { <<"channel">> } ELSE {})
            \cup (IF wpc[w] # "receive" THEN { <<"itself">> } ELSE {})
    BY DEF Holders
  <2>5. (chan[w] # None <=> w \in Reached) /\ (wpc[w] # "receive" <=> w \in Away)
    BY DEF Reached, Away
  <2> HIDE DEF inQueue, atSubmitter, atPurger
  <2> QED
    BY <2>1, <2>2, <2>3, <2>4, <2>5
<1>1. CASE w \in Queued
  <2>1. PICK i \in DOMAIN fifo : fifo[i] = w
    BY <1>1 DEF Queued
  <2>2. w \notin Held /\ w \notin Condemned /\ w \notin Reached /\ w \notin Away
    BY <1>1 DEF InOneHand, Partition
  <2>3. { j \in DOMAIN fifo : fifo[j] = w } = {i}
    BY <2>1 DEF InOneHand, QueuedOnce
  <2>4. inQueue = { <<"queue", i>> }
    BY <2>3
  <2> HIDE DEF inQueue, atSubmitter, atPurger
  <2>7. Holders(w) = { <<"queue", i>> }
    BY <1>0, <2>2, <2>4
  <2> QED
    BY <2>7
<1>2. CASE w \in Held
  <2>1. PICK s \in Submitter : hold[s] = w
    BY <1>2 DEF Held
  <2>2. w \notin Queued /\ w \notin Condemned /\ w \notin Reached /\ w \notin Away
    BY <1>2 DEF InOneHand, Partition
  <2>3. { t \in Submitter : hold[t] = w } = {s}
    BY <2>1 DEF InOneHand, HeldOnce
  <2>4. atSubmitter = { <<"submitter", s>> }
    BY <2>3
  <2> HIDE DEF inQueue, atSubmitter, atPurger
  <2>7. Holders(w) = { <<"submitter", s>> }
    BY <1>0, <2>2, <2>4
  <2> QED
    BY <2>7
<1>3. CASE w \in Condemned
  <2>1. PICK p \in Purger : \E i \in Condemning(p) : Stored(p, i) = w
    BY <1>3 DEF Condemned
  <2>2. PICK i \in Condemning(p) : Stored(p, i) = w
    BY <2>1
  <2>3. w \notin Queued /\ w \notin Held /\ w \notin Reached /\ w \notin Away
    BY <1>3 DEF InOneHand, Partition
  <2>4. ASSUME NEW q \in Purger, NEW j \in slots(q) PROVE q = p /\ j = i
    BY <2>2 DEF InOneHand, CondemnedOnce, Stored
  <2>5. i \in slots(p)
    BY <2>2 DEF Stored
  <2> HIDE DEF slots
  <2>6. atPurger = { <<"purger", p, i>> }
    BY <2>4, <2>5
  <2> HIDE DEF inQueue, atSubmitter, atPurger
  <2>7. Holders(w) = { <<"purger", p, i>> }
    BY <1>0, <2>3, <2>6
  <2> QED
    BY <2>7
<1>4. CASE w \in Reached
  <2>1. w \notin Queued /\ w \notin Held /\ w \notin Condemned /\ w \notin Away
    BY <1>4 DEF InOneHand, Partition
  <2> HIDE DEF inQueue, atSubmitter, atPurger
  <2>2. Holders(w) = { <<"channel">> }
    BY <1>0, <1>4, <2>1
  <2> QED
    BY <2>2
<1>5. CASE w \in Away
  <2>1. w \notin Queued /\ w \notin Held /\ w \notin Condemned /\ w \notin Reached
    BY <1>5 DEF InOneHand, Partition
  <2> HIDE DEF inQueue, atSubmitter, atPurger
  <2>2. Holders(w) = { <<"itself">> }
    BY <1>0, <1>5, <2>1
  <2> QED
    BY <2>2
<1> QED
  BY <1>1, <1>2, <1>3, <1>4, <1>5 DEF InOneHand, Partition

\* A step that leaves every purger at its slots keeps what is said of them.
LEMMA PurgersKeepSlots ==
  ASSUME CondemnedOnce, SlotsApart,
         \A q \in Purger : Condemning(q)' = Condemning(q),
         \A q \in Purger : Uncleared(q)' \subseteq Uncleared(q),
         \A q \in Purger : \A i \in Condemning(q) : Stored(q, i)' = Stored(q, i)
  PROVE  Condemned' = Condemned /\ CondemnedOnce' /\ SlotsApart'
<1>1. Condemned' = Condemned
  BY DEF Condemned
<1>2. CondemnedOnce'
  BY DEF CondemnedOnce
<1>3. SlotsApart'
  BY DEF SlotsApart
<1> QED
  BY <1>1, <1>2, <1>3

\* So does one that leaves the purgers alone.
LEMMA PurgersAlone ==
  ASSUME InOneHand, UNCHANGED <<arrays, slice, victim, ppc>>
  PROVE  Condemned' = Condemned /\ CondemnedOnce' /\ SlotsApart' /\ Sending'
BY PurgersKeepSlots DEF InOneHand, Sending, Condemning, Uncleared, Stored

\* A step that moves no worker keeps InOneHand.
LEMMA QuietStepKeepsHands ==
  ASSUME InOneHand, UNCHANGED <<fifo, hold, arrays, slice, victim, ppc, chan, wpc>>
  PROVE  InOneHand'
<1>1. Condemned' = Condemned /\ CondemnedOnce' /\ SlotsApart' /\ Sending'
  BY PurgersAlone
<1>2. Queued' = Queued /\ Held' = Held /\ Reached' = Reached /\ Away' = Away
  BY DEF Queued, Held, Reached, Away
<1>3. QueuedOnce' /\ HeldOnce'
  BY DEF InOneHand, QueuedOnce, HeldOnce
<1> QED
  BY <1>1, <1>2, <1>3 DEF InOneHand, Partition

\* detach takes one worker out of the queue.
LEMMA DetachTakesOne ==
  ASSUME PoolTypes, QueuedOnce, NEW w \in Worker, WQ!Detach(w)
  PROVE  w \in Queued /\ Queued' = Queued \ {w} /\ QueuedOnce'
<1>1. /\ fifo \in Seq(Worker) /\ fifo # <<>> /\ w = fifo[1]
      /\ Len(fifo) \in Nat \ {0} /\ DOMAIN fifo = 1..Len(fifo)
  BY DEF PoolTypes, WQ!Detach
<1>2. /\ DOMAIN fifo' = 1..(Len(fifo) - 1)
      /\ \A i \in 1..(Len(fifo) - 1) : fifo'[i] = fifo[i + 1]
  BY <1>1 DEF WQ!Detach
<1>3. w \in Queued
  BY <1>1 DEF Queued
<1>4. QueuedOnce'
  BY <1>1, <1>2 DEF QueuedOnce
<1>5. ASSUME NEW v \in Worker PROVE v \in Queued' <=> v \in Queued \ {w}
  <2>1. ASSUME NEW i \in DOMAIN fifo', fifo'[i] = v PROVE v \in Queued \ {w}
    BY <1>1, <1>2, <2>1 DEF Queued, QueuedOnce
  <2>2. ASSUME NEW i \in DOMAIN fifo, fifo[i] = v, v # w PROVE v \in Queued'
    <3>1. i - 1 \in DOMAIN fifo' /\ fifo'[i - 1] = v
      BY <1>1, <1>2, <2>2
    <3> QED
      BY <3>1 DEF Queued
  <2> QED
    BY <2>1, <2>2 DEF Queued
<1> QED
  BY <1>3, <1>4, <1>5 DEF Queued

\* insert adds one worker to the queue, at its end.
LEMMA InsertAddsOne ==
  ASSUME PoolTypes, QueuedOnce, NEW w \in Worker, w \notin Queued, WQ!Insert(w)
  PROVE  Queued' = Queued \cup {w} /\ QueuedOnce'
<1> DEFINE n == Len(fifo)
<1>1. fifo \in Seq(Worker) /\ n \in Nat /\ DOMAIN fifo = 1..n
  BY DEF PoolTypes
<1>2. /\ DOMAIN fifo' = 1..(n + 1) /\ fifo'[n + 1] = w
      /\ \A i \in 1..n : fifo'[i] = fifo[i]
  BY <1>1 DEF WQ!Insert
<1>3. \A i \in 1..n : fifo[i] # w
  BY <1>1 DEF Queued
<1> HIDE DEF n
<1>4. QueuedOnce'
  BY <1>1, <1>2, <1>3 DEF QueuedOnce
<1>5. Queued' = Queued \cup {w}
  <2>1. ASSUME NEW v \in Worker PROVE v \in Queued' <=> v \in Queued \cup {w}
    BY <1>1, <1>2 DEF Queued
  <2> QED
    BY <2>1 DEF Queued
<1> QED
  BY <1>4, <1>5

\* refresh takes the first n workers out of the queue.
LEMMA RefreshTakesPrefix ==
  ASSUME PoolTypes, QueuedOnce, NEW n \in 1..Len(fifo), WQ!Refresh(n)
  PROVE  /\ { fifo[i] : i \in 1..n } \subseteq Queued
         /\ Queued' = Queued \ { fifo[i] : i \in 1..n }
         /\ QueuedOnce'
<1> DEFINE m == Len(fifo)
<1>1. /\ fifo \in Seq(Worker) /\ m \in Nat /\ n \in 1..m /\ DOMAIN fifo = 1..m
      /\ \A i \in 1..m : fifo[i] \in Worker
  BY DEF PoolTypes
<1>2. /\ DOMAIN fifo' = 1..(m - n)
      /\ \A i \in 1..(m - n) : fifo'[i] = fifo[i + n]
  BY <1>1 DEF WQ!Refresh
<1> HIDE DEF m
<1>3. { fifo[i] : i \in 1..n } \subseteq Queued
  BY <1>1 DEF Queued
<1>4. QueuedOnce'
  <2> SUFFICES ASSUME NEW i \in 1..(m - n), NEW j \in 1..(m - n), fifo'[i] = fifo'[j]
               PROVE  i = j
    BY <1>2 DEF QueuedOnce
  <2>1. i + n \in DOMAIN fifo /\ j + n \in DOMAIN fifo /\ fifo[i + n] = fifo[j + n]
    BY <1>1, <1>2
  <2>2. i + n = j + n
    BY <2>1 DEF QueuedOnce
  <2> QED
    BY <1>1, <2>2
<1>5. ASSUME NEW v \in Worker
      PROVE  v \in Queued' <=> v \in Queued /\ \A i \in 1..n : fifo[i] # v
  <2>1. ASSUME NEW i \in 1..(m - n), fifo'[i] = v
        PROVE  v \in Queued /\ \A j \in 1..n : fifo[j] # v
    BY <1>1, <1>2, <2>1 DEF Queued, QueuedOnce
  <2>2. ASSUME NEW i \in 1..m, fifo[i] = v, \A j \in 1..n : fifo[j] # v
        PROVE  v \in Queued'
    <3>1. i - n \in 1..(m - n) /\ fifo'[i - n] = v
      BY <1>1, <1>2, <2>2
    <3> QED
      BY <1>2, <3>1 DEF Queued
  <2> QED
    BY <1>1, <1>2, <2>1, <2>2 DEF Queued
<1>6. Queued' = Queued \ { fifo[i] : i \in 1..n }
  BY <1>5 DEF Queued
<1> QED
  BY <1>3, <1>4, <1>6

\* A submitter takes a worker from the queue or the cache, or sends it a task.
LEMMA SubmitKeepsHands ==
  ASSUME Types, HoldersAt, InOneHand, NEW s \in Submitter, submitStep(s)
  PROVE  InOneHand'
<1> USE PoolAssumption
<1>0. UNCHANGED <<arrays, slice, victim, ppc>>
  BY DEF submitStep, pvars, staleWorkers, Submit, retrieveIdle, retrieveCompare,
     retrieveFull, condWait, condWake, runWorker, inputFunc
<1>1. CASE Submit(s) \/ retrieveCompare(s) \/ retrieveFull(s) \/ condWait(s) \/ condWake(s)
  <2>1. UNCHANGED <<fifo, hold, chan, wpc>>
    BY <1>1 DEF queue, wvars, Submit, retrieveCompare, retrieveFull, condWait, condWake
  <2> QED
    BY <1>0, <2>1, QuietStepKeepsHands
<1>2. CASE retrieveIdle(s)
  <2>1. PICK w \in Worker : WQ!Detach(w) /\ hold' = [hold EXCEPT ![s] = w]
    BY <1>2 DEF retrieveIdle
  <2>2. UNCHANGED <<chan, wpc>>
    BY <1>2 DEF retrieveIdle, wvars
  <2>3. hold[s] = None
    BY <1>2 DEF retrieveIdle, Retrying, HoldersAt
  <2>4. Queued' = Queued \ {w} /\ w \in Queued /\ QueuedOnce'
    BY <2>1, DetachTakesOne DEF Types, InOneHand
  <2>5. Held' = Held \cup {w} /\ HeldOnce'
    <3>1. \A t \in Submitter : hold'[t] = IF t = s THEN w ELSE hold[t]
      BY <2>1 DEF Types, SubmitTypes
    <3>2. w \notin Held
      BY <2>4 DEF InOneHand, Partition
    <3> QED
      BY <2>3, <3>1, <3>2 DEF Held, InOneHand, HeldOnce
  <2>6. Condemned' = Condemned /\ CondemnedOnce' /\ SlotsApart' /\ Sending'
    BY <1>0, PurgersAlone
  <2>7. Reached' = Reached /\ Away' = Away
    BY <2>2 DEF Reached, Away
  <2>8. Partition'
    BY <2>4, <2>5, <2>6, <2>7 DEF InOneHand, Partition
  <2> QED
    BY <2>4, <2>5, <2>6, <2>8 DEF InOneHand
<1>3. CASE runWorker(s)
  <2>1. PICK w \in Worker : /\ wpc[w] = "cached"
                            /\ wpc' = [wpc EXCEPT ![w] = "receive"]
                            /\ hold' = [hold EXCEPT ![s] = w]
    BY <1>3 DEF runWorker
  <2>2. UNCHANGED <<fifo, chan>>
    BY <1>3 DEF runWorker, queue
  <2>3. hold[s] = None
    BY <1>3 DEF runWorker, spcStep, HoldersAt
  <2>4. Away' = Away \ {w} /\ w \in Away
    BY <2>1 DEF Away, Types, WorkerTypes
  <2>5. Held' = Held \cup {w} /\ HeldOnce'
    <3>1. \A t \in Submitter : hold'[t] = IF t = s THEN w ELSE hold[t]
      BY <2>1 DEF Types, SubmitTypes
    <3>2. w \notin Held
      BY <2>4 DEF InOneHand, Partition
    <3> QED
      BY <2>3, <3>1, <3>2 DEF Held, InOneHand, HeldOnce
  <2>6. Queued' = Queued /\ Reached' = Reached /\ QueuedOnce'
    BY <2>2 DEF Queued, Reached, InOneHand, QueuedOnce
  <2>7. Condemned' = Condemned /\ CondemnedOnce' /\ SlotsApart' /\ Sending'
    BY <1>0, PurgersAlone
  <2>8. Partition'
    BY <2>4, <2>5, <2>6, <2>7 DEF InOneHand, Partition
  <2> QED
    BY <2>5, <2>6, <2>7, <2>8 DEF InOneHand
<1>4. CASE inputFunc(s)
  <2> DEFINE w == hold[s]
  <2>1. /\ hold' = [hold EXCEPT ![s] = None] /\ chan' = [chan EXCEPT ![w] = s]
        /\ spc[s] = "send" /\ UNCHANGED <<fifo, wpc>>
    BY <1>4 DEF inputFunc, SendTo, spcStep, queue
  <2>2. w \in Held
    BY <2>1 DEF HoldersAt, Held, Types, SubmitTypes
  <2>3. Held' = Held \ {w} /\ HeldOnce'
    <3>1. \A t \in Submitter : hold'[t] = IF t = s THEN None ELSE hold[t]
      BY <2>1 DEF Types, SubmitTypes
    <3> QED
      BY <2>2, <3>1 DEF Held, InOneHand, HeldOnce
  <2>4. Reached' = Reached \cup {w}
    BY <2>1, <2>2 DEF Reached, Held, Types, WorkerTypes
  <2>5. Queued' = Queued /\ Away' = Away /\ QueuedOnce'
    BY <2>1 DEF Queued, Away, InOneHand, QueuedOnce
  <2>6. Condemned' = Condemned /\ CondemnedOnce' /\ SlotsApart' /\ Sending'
    BY <1>0, PurgersAlone
  <2>7. Partition'
    BY <2>2, <2>3, <2>4, <2>5, <2>6 DEF InOneHand, Partition
  <2> QED
    BY <2>3, <2>5, <2>6, <2>7 DEF InOneHand
<1> QED
  BY <1>1, <1>2, <1>3, <1>4 DEF submitStep

\* A worker goroutine receives what its channel holds, or queues itself.
LEMMA WorkerKeepsHands ==
  ASSUME Types, InOneHand, NEW w \in Worker, workerStep(w)
  PROVE  InOneHand'
<1> USE PoolAssumption
<1>1. UNCHANGED <<hold, arrays, slice, victim, ppc>>
  BY DEF workerStep, svars, pvars, staleWorkers, workerReceive, workerRun, revertCheck,
     revertLock, revertInsert, workerExit, workerPut
<1>2. /\ Held' = Held /\ Condemned' = Condemned
      /\ HeldOnce' /\ CondemnedOnce' /\ SlotsApart' /\ Sending'
  BY <1>1, PurgersAlone DEF Held, InOneHand, HeldOnce
<1>3. CASE workerReceive(w)
  <2>1. /\ wpc[w] = "receive" /\ chan[w] # None /\ fifo' = fifo
        /\ chan' = [chan EXCEPT ![w] = None]
    BY <1>3 DEF workerReceive, queue
  <2>2. \E to \in {"exit", "run"} : wpc' = [wpc EXCEPT ![w] = to]
    BY <1>3 DEF workerReceive
  <2>3. w \in Reached /\ Reached' = Reached \ {w}
    BY <2>1 DEF Reached, Types, WorkerTypes
  <2>4. Away' = Away \cup {w}
    BY <2>2 DEF Away, Types, WorkerTypes
  <2>5. Queued' = Queued /\ QueuedOnce'
    BY <2>1 DEF Queued, InOneHand, QueuedOnce
  <2> QED
    BY <1>2, <2>3, <2>4, <2>5 DEF InOneHand, Partition
<1>4. CASE workerRun(w) \/ revertCheck(w) \/ revertLock(w) \/ workerExit(w) \/ workerPut(w)
  <2>1. UNCHANGED <<fifo, chan>>
    BY <1>4 DEF workerRun, revertCheck, revertLock, workerExit, workerPut, queue
  <2>2. wpc[w] # "receive" /\ \E to : to # "receive" /\ wpc' = [wpc EXCEPT ![w] = to]
    <3>1. CASE workerRun(w)
      BY <3>1 DEF workerRun
    <3>2. CASE revertCheck(w) \/ revertLock(w)
      BY <3>2 DEF revertCheck, revertLock
    <3>3. CASE workerExit(w) \/ workerPut(w)
      BY <3>3 DEF workerExit, workerPut
    <3> QED
      BY <1>4, <3>1, <3>2, <3>3
  <2>3. Away' = Away
    BY <2>2 DEF Away, Types, WorkerTypes
  <2>4. Queued' = Queued /\ Reached' = Reached /\ QueuedOnce'
    BY <2>1 DEF Queued, Reached, InOneHand, QueuedOnce
  <2> QED
    BY <1>2, <2>3, <2>4 DEF InOneHand, Partition
<1>5. CASE revertInsert(w)
  <2>1. wpc[w] = "insert" /\ w \in Away /\ chan' = chan
    BY <1>5 DEF revertInsert, Away
  <2>2. Reached' = Reached
    BY <2>1 DEF Reached
  <2>3. CASE WQ!Insert(w) /\ wpc' = [wpc EXCEPT ![w] = "receive"]
    <3>1. Queued' = Queued \cup {w} /\ QueuedOnce'
      BY <2>1, <2>3, InsertAddsOne DEF Types, InOneHand, Partition
    <3>2. Away' = Away \ {w}
      BY <2>3 DEF Away, Types, WorkerTypes
    <3> QED
      BY <1>2, <2>1, <2>2, <3>1, <3>2 DEF InOneHand, Partition
  <2>4. CASE fifo' = fifo /\ wpc' = [wpc EXCEPT ![w] = "exit"]
    <3>1. Queued' = Queued /\ QueuedOnce'
      BY <2>4 DEF Queued, InOneHand, QueuedOnce
    <3>2. Away' = Away
      BY <2>1, <2>4 DEF Away, Types, WorkerTypes
    <3> QED
      BY <1>2, <2>2, <3>1, <3>2 DEF InOneHand, Partition
  <2> QED
    BY <1>5, <2>3, <2>4 DEF revertInsert, queue
<1> QED
  BY <1>3, <1>4, <1>5 DEF workerStep

\* What an append does to the slots: purger p gets the workers found in slots
\* nobody else goes through, unless it overwrites such a slot.
LEMMA AppendTakesSlots ==
  ASSUME SliceTypes, NEW p \in Purger, slice[p].next > slice[p].len, NEW found,
         Len(found) \in 1..Cap, NEW k \in 0..Len(found)-1,
         \A i \in 1..Len(found) : found[i] \in Worker,
         appendStale(p, found, k), ~overwritten'
  PROVE  /\ slice'[p] = [array |-> expiry'.array, next |-> 1, len |-> Len(found)]
         /\ \A i \in 1..Len(found) : Stored(p, i)' = found[i]
         /\ \A q \in Purger : q # p =>
              /\ slice'[q] = slice[q]
              /\ \A i \in slice[q].next..slice[q].len :
                   /\ Stored(q, i)' = Stored(q, i)
                   /\ \A j \in 1..Len(found) : <<slice[q].array, i>> # <<expiry'.array, j>>
<1> USE PoolAssumption
<1> DEFINE n == Len(found)
           fits == n <= expiry.room
           inPlace == IF fits THEN n ELSE IF k <= expiry.room THEN k ELSE 0
           written == { <<expiry.array, i>> : i \in 1..inPlace }
           kept == [arrays EXCEPT ![expiry.array] = Copied(arrays[expiry.array], found, inPlace)]
<1>1. expiry.array \in Array /\ expiry.room \in 0..Cap
  BY DEF SliceTypes
<1>2. n \in 1..Cap /\ inPlace \in 0..n /\ Cap \in Nat
  BY <1>1
<1>3. slice' = [slice EXCEPT ![p] = [array |-> expiry'.array, next |-> 1, len |-> n]]
  BY DEF appendStale
<1>4. \A q \in Purger : slice'[q] = IF q = p THEN [array |-> expiry'.array, next |-> 1, len |-> n]
                                             ELSE slice[q]
  BY <1>3 DEF SliceTypes
<1>5. \A q \in Purger : written \cap Uncleared(q) = {}
  BY DEF appendStale
<1>6. \A q \in Purger : /\ slice[q].array \in Array
                        /\ slice[q].next..slice[q].len \subseteq Slot
  BY DEF SliceTypes, Slot
<1>7. ASSUME NEW q \in Purger, NEW i \in slice[q].next..slice[q].len
      PROVE  ~(slice[q].array = expiry.array /\ i \in 1..inPlace)
  <2>1. <<slice[q].array, i>> \in Uncleared(q)
    BY <1>7 DEF Uncleared
  <2>2. <<slice[q].array, i>> \notin written
    BY <1>5, <2>1
  <2> HIDE DEF inPlace
  <2> QED
    BY <2>2
<1>8. \A b \in Array : kept[b] = IF b = expiry.array THEN Copied(arrays[b], found, inPlace)
                                                      ELSE arrays[b]
  BY <1>1 DEF SliceTypes
<1> HIDE DEF inPlace, written, kept
<1>9. \A b \in Array, i \in Slot :
        kept[b][i] = IF b = expiry.array /\ i \in 1..inPlace THEN found[i] ELSE arrays[b][i]
  <2> SUFFICES ASSUME NEW b \in Array, NEW i \in Slot
               PROVE  kept[b][i] = IF b = expiry.array /\ i \in 1..inPlace THEN found[i]
                                                                           ELSE arrays[b][i]
    OBVIOUS
  <2>1. CASE b = expiry.array
    <3>1. kept[b][i] = IF i <= inPlace THEN found[i] ELSE arrays[b][i]
      <4>1. kept[b] = Copied(arrays[b], found, inPlace)
        BY <1>8, <2>1
      <4>2. Copied(arrays[b], found, inPlace)[i] = IF i <= inPlace THEN found[i] ELSE arrays[b][i]
        BY DEF Copied
      <4> QED
        BY <4>1, <4>2
    <3>2. i \in 1..inPlace <=> i <= inPlace
      BY <1>2 DEF Slot
    <3> QED
      BY <2>1, <3>1, <3>2
  <2>2. CASE b # expiry.array
    BY <1>8, <2>2
  <2> QED
    BY <2>1, <2>2
<1>10. ASSUME NEW q \in Purger, NEW i \in slice[q].next..slice[q].len
       PROVE  kept[slice[q].array][i] = arrays[slice[q].array][i]
  BY <1>6, <1>7, <1>9, <1>10
<1>11. CASE fits /\ arrays' = kept /\ UNCHANGED expiry
  <2>1. inPlace = n
    BY <1>11 DEF inPlace
  <2>2. \A i \in 1..n : Stored(p, i)' = found[i]
    <3> SUFFICES ASSUME NEW i \in 1..n PROVE Stored(p, i)' = found[i]
      OBVIOUS
    <3>1. i \in Slot /\ i \in 1..inPlace
      BY <1>2, <2>1 DEF Slot
    <3>2. Stored(p, i)' = kept[expiry.array][i]
      BY <1>4, <1>11 DEF Stored
    <3> QED
      BY <1>1, <1>9, <3>1, <3>2
  <2>3. ASSUME NEW q \in Purger, q # p, NEW i \in slice[q].next..slice[q].len
        PROVE  /\ Stored(q, i)' = Stored(q, i)
               /\ \A j \in 1..n : <<slice[q].array, i>> # <<expiry'.array, j>>
    BY <1>4, <1>7, <1>10, <1>11, <2>1, <2>3 DEF Stored
  <2> QED
    BY <1>4, <2>2, <2>3
<1>12. ASSUME NEW a \in Array, Fresh(a), expiry'.array = a,
              arrays' = [kept EXCEPT ![a] = Copied([i \in Slot |-> None], found, n)]
       PROVE  /\ \A i \in 1..n : Stored(p, i)' = found[i]
              /\ \A q \in Purger : q # p => \A i \in slice[q].next..slice[q].len :
                   /\ Stored(q, i)' = Stored(q, i)
                   /\ \A j \in 1..n : <<slice[q].array, i>> # <<expiry'.array, j>>
  <2>1. DOMAIN kept = Array
    BY DEF kept, SliceTypes
  <2>2. \A b \in Array : arrays'[b] = IF b = a THEN Copied([i \in Slot |-> None], found, n)
                                                ELSE kept[b]
    BY <1>12, <2>1
  <2>3. \A i \in 1..n : Stored(p, i)' = found[i]
    <3>1. \A i \in 1..n : i \in Slot /\ Copied([j \in Slot |-> None], found, n)[i] = found[i]
      BY <1>2 DEF Copied, Slot
    <3> QED
      BY <1>4, <1>12, <2>2, <3>1 DEF Stored
  <2>4. ASSUME NEW q \in Purger, q # p, NEW i \in slice[q].next..slice[q].len
        PROVE  Stored(q, i)' = Stored(q, i) /\ slice[q].array # a
    <3>1. slice[q].next <= slice[q].len
      BY <2>4 DEF SliceTypes
    <3>2. slice[q].array # a
      BY <1>12, <3>1 DEF Fresh
    <3> QED
      BY <1>4, <1>6, <1>10, <2>2, <2>4, <3>2 DEF Stored
  <2> QED
    BY <1>12, <2>3, <2>4
<1> QED
  <2>1. \/ fits /\ arrays' = kept /\ UNCHANGED expiry
        \/ \E a \in Array : /\ Fresh(a) /\ expiry'.array = a
                            /\ arrays' = [kept EXCEPT ![a] = Copied([i \in Slot |-> None], found, n)]
    BY DEF appendStale, kept, inPlace
  <2>2. CASE \E a \in Array :
               /\ Fresh(a) /\ expiry'.array = a
               /\ arrays' = [kept EXCEPT ![a] = Copied([i \in Slot |-> None], found, n)]
    BY <1>4, <1>12, <2>2
  <2> QED
    BY <1>11, <2>1, <2>2

\* A refresh that returns workers moves a prefix of the queue to the purger.
LEMMA RefreshKeepsHands ==
  ASSUME Types, HoldersAt, InOneHand, NEW p \in Purger, slice[p].next > slice[p].len,
         ppc[p] = "lock", ppc' = [ppc EXCEPT ![p] = "finish"],
         UNCHANGED <<hold, chan, wpc, victim>>, ~overwritten',
         NEW n \in 1..Len(fifo), NEW k \in 0..n-1, WQ!Refresh(n),
         appendStale(p, SubSeq(fifo, n - k + 1, n) \o SubSeq(fifo, 1, n - k), k)
  PROVE  InOneHand'
<1> USE PoolAssumption
<1> DEFINE found == Found(n, k)
           S == { fifo[i] : i \in 1..n }
<1>1. /\ Len(found) = n /\ n \in 1..Cap
      /\ \A i \in 1..n : found[i] \in Worker
      /\ \A i \in 1..k : n - k + i \in 1..n /\ found[i] = fifo[n - k + i]
      /\ \A i \in k+1..n : i - k \in 1..n /\ found[i] = fifo[i - k]
  <2>1. PoolTypes
    BY DEF Types
  <2> QED
    BY <2>1, FoundInOrder
<1>2. appendStale(p, found, k)
  BY DEF Found
<1> HIDE DEF found
<1>3. S \subseteq Queued /\ Queued' = Queued \ S /\ QueuedOnce'
  BY RefreshTakesPrefix DEF Types, InOneHand
<1>4. PICK m \in Nat : m = Len(fifo) /\ DOMAIN fifo = 1..m /\ n <= m
  BY DEF Types, PoolTypes
<1>5. S = { found[i] : i \in 1..n }
  <2>1. ASSUME NEW i \in 1..n PROVE found[i] \in S
    <3>1. i \in 1..k \/ i \in k+1..n
      OBVIOUS
    <3> QED
      BY <1>1, <3>1
  <2>2. ASSUME NEW i \in 1..n PROVE \E j \in 1..n : fifo[i] = found[j]
    <3>1. CASE i <= n - k
      <4>1. i + k \in k+1..n /\ (i + k) - k = i /\ i + k \in 1..n
        BY <1>1, <3>1
      <4>2. found[i + k] = fifo[i]
        BY <1>1, <4>1
      <4> QED
        BY <4>1, <4>2
    <3>2. CASE i > n - k
      <4>1. i - (n - k) \in 1..k /\ n - k + (i - (n - k)) = i /\ i - (n - k) \in 1..n
        BY <1>1, <3>2
      <4>2. found[i - (n - k)] = fifo[i]
        BY <1>1, <4>1
      <4> QED
        BY <4>1, <4>2
    <3> QED
      BY <3>1, <3>2
  <2> QED
    BY <2>1, <2>2, ZenonT(30)
<1>6. \A i, j \in 1..n : found[i] = found[j] => i = j
  <2> DEFINE at(i) == IF i <= k THEN n - k + i ELSE i - k
  <2>1. ASSUME NEW i \in 1..n PROVE at(i) \in DOMAIN fifo /\ found[i] = fifo[at(i)]
    <3>1. CASE i <= k
      <4>1. i \in 1..k
        BY <3>1
      <4> QED
        BY <1>1, <1>4, <3>1, <4>1
    <3>2. CASE ~(i <= k)
      <4>1. i \in k+1..n
        BY <3>2
      <4> QED
        BY <1>1, <1>4, <3>2, <4>1
    <3> QED
      BY <3>1, <3>2
  <2>2. ASSUME NEW i \in 1..n, NEW j \in 1..n, at(i) = at(j) PROVE i = j
    BY <1>1, <2>2
  <2> HIDE DEF at
  <2> QED
    BY <2>1, <2>2 DEF InOneHand, QueuedOnce
<1>7. /\ slice'[p] = [array |-> expiry'.array, next |-> 1, len |-> n]
      /\ \A i \in 1..n : Stored(p, i)' = found[i]
      /\ \A q \in Purger : q # p =>
           /\ slice'[q] = slice[q]
           /\ \A i \in slice[q].next..slice[q].len :
                /\ Stored(q, i)' = Stored(q, i)
                /\ \A j \in 1..n : <<slice[q].array, i>> # <<expiry'.array, j>>
  BY <1>1, <1>2, AppendTakesSlots, SMTT(30) DEF Types
<1>8. \A q \in Purger : ppc'[q] = IF q = p THEN "finish" ELSE ppc[q]
  BY DEF Types, PurgeTypes
<1>9. Condemning(p) = {} /\ Condemning(p)' = 1..n
  <2>1. Condemning(p) = {}
    BY DEF Condemning, Types, SliceTypes
  <2>2. Condemning(p)' = 1..n
    BY <1>7, <1>8 DEF Condemning
  <2> QED
    BY <2>1, <2>2
<1>10. ASSUME NEW q \in Purger, q # p
       PROVE  /\ Condemning(q)' = Condemning(q) /\ Uncleared(q)' = Uncleared(q)
              /\ \A i \in Condemning(q) : Stored(q, i)' = Stored(q, i)
              /\ Uncleared(p)' \cap Uncleared(q) = {}
  <2>1. slice'[q] = slice[q] /\ ppc'[q] = ppc[q]
    BY <1>7, <1>8, <1>10
  <2>2. Condemning(q)' = Condemning(q) /\ Uncleared(q)' = Uncleared(q)
    BY <2>1 DEF Condemning, Uncleared
  <2>3. \A i \in Condemning(q) : Stored(q, i)' = Stored(q, i)
    BY <1>7, <1>10 DEF Condemning
  <2>4. Uncleared(p)' = { <<expiry'.array, j>> : j \in 1..n }
    BY <1>7 DEF Uncleared
  <2> QED
    BY <1>7, <1>10, <2>2, <2>3, <2>4 DEF Uncleared
<1>11. Condemned' = Condemned \cup S
  <2>1. ASSUME NEW w \in Worker PROVE w \in Condemned' <=> w \in Condemned \/ w \in S
    <3>1. (\E i \in Condemning(p)' : Stored(p, i)' = w) <=> w \in S
      <4>1. w \in S <=> \E i \in 1..n : found[i] = w
        BY <1>5
      <4> HIDE DEF S
      <4> QED
        BY <1>7, <1>9, <4>1
    <3>2. ASSUME NEW q \in Purger, q # p
          PROVE  (\E i \in Condemning(q)' : Stored(q, i)' = w)
                   <=> (\E i \in Condemning(q) : Stored(q, i) = w)
      BY <1>10, <3>2
    <3>3. ~ \E i \in Condemning(p) : Stored(p, i) = w
      BY <1>9
    <3> QED
      BY <3>1, <3>2, <3>3 DEF Condemned
  <2>2. S \subseteq Worker
    BY <1>3 DEF Queued
  <2> QED
    BY <2>1, <2>2 DEF Condemned
<1>12. CondemnedOnce'
  <2>1. ASSUME NEW q \in Purger, q # p, NEW j \in Condemning(q)', NEW i \in 1..n
        PROVE  Stored(q, j)' # Stored(p, i)'
    <3>1. j \in Condemning(q) /\ Stored(q, j)' = Stored(q, j)
      BY <1>10, <2>1
    <3>2. Stored(q, j) \in Worker /\ Stored(q, j) \in Condemned
      BY <3>1 DEF InOneHand, CondemnedOnce, Condemned
    <3>3. Stored(p, i)' \in Queued
      BY <1>3, <1>5, <1>7
    <3> QED
      BY <3>1, <3>2, <3>3 DEF InOneHand, Partition
  <2>2. ASSUME NEW q \in Purger, NEW i \in Condemning(q)' PROVE Stored(q, i)' \in Worker
    <3>1. CASE q = p
      BY <1>1, <1>7, <1>9, <2>2, <3>1
    <3>2. CASE q # p
      BY <1>10, <2>2, <3>2 DEF InOneHand, CondemnedOnce
    <3> QED
      BY <3>1, <3>2
  <2>3. ASSUME NEW q \in Purger, NEW r \in Purger, NEW i \in Condemning(q)',
               NEW j \in Condemning(r)', Stored(q, i)' = Stored(r, j)'
        PROVE  q = r /\ i = j
    <3>1. CASE q = p /\ r = p
      BY <1>6, <1>7, <1>9, <2>3, <3>1
    <3>2. CASE q = p /\ r # p
      BY <1>9, <2>1, <2>3, <3>2
    <3>3. CASE q # p /\ r = p
      BY <1>9, <2>1, <2>3, <3>3
    <3>4. CASE q # p /\ r # p
      <4>1. /\ i \in Condemning(q) /\ Stored(q, i)' = Stored(q, i)
            /\ j \in Condemning(r) /\ Stored(r, j)' = Stored(r, j)
        BY <1>10, <2>3, <3>4
      <4>2. Stored(q, i) = Stored(r, j)
        BY <2>3, <4>1
      <4>3. CondemnedOnce
        BY DEF InOneHand
      <4> QED
        BY <4>1, <4>2, <4>3 DEF CondemnedOnce
    <3> QED
      BY <3>1, <3>2, <3>3, <3>4
  <2> QED
    BY <2>2, <2>3 DEF CondemnedOnce
<1>13. SlotsApart'
  BY <1>10 DEF InOneHand, SlotsApart
<1>14. Sending'
  <2>1. ASSUME NEW q \in Purger
        PROVE  ppc'[q] # "panic" /\ (ppc'[q] = "send" => victim'[q] = Stored(q, slice[q].next)')
    <3>1. CASE q = p
      BY <1>8, <3>1
    <3>2. CASE q # p
      <4>1. ppc'[q] = ppc[q] /\ slice'[q] = slice[q] /\ ppc[q] # "panic"
        BY <1>7, <1>8, <3>2 DEF InOneHand, Sending
      <4>2. CASE ppc[q] = "send"
        <5>1. slice[q].next \in slice[q].next..slice[q].len
          BY <4>2 DEF HoldersAt, Types, SliceTypes
        <5> QED
          BY <1>7, <3>2, <4>1, <4>2, <5>1, SMTT(30) DEF InOneHand, Sending, Stored
      <4> QED
        BY <4>1, <4>2
    <3> QED
      BY <3>1, <3>2
  <2> QED
    BY <2>1 DEF Sending, Stored
<1>15. Held' = Held /\ Reached' = Reached /\ Away' = Away /\ HeldOnce'
  BY DEF Held, Reached, Away, InOneHand, HeldOnce
<1>16. Partition'
  BY <1>3, <1>11, <1>15 DEF InOneHand, Partition
<1> QED
  BY <1>3, <1>12, <1>13, <1>14, <1>15, <1>16 DEF InOneHand

\* A purger moves workers from the queue to its slots, and from there one by
\* one to their channels.
LEMMA PurgeKeepsHands ==
  ASSUME Types, HoldersAt, InOneHand, ~overwritten', NEW p \in Purger, purgeStep(p)
  PROVE  InOneHand'
<1> USE PoolAssumption
<1>1. UNCHANGED <<hold, wpc>>
  BY DEF purgeStep, svars, wvars, purgeReturn, purgeTick, purgeRefresh, purgeRead,
     purgeFinish, purgeClear, purgeWake
<1>2. Held' = Held /\ Away' = Away /\ HeldOnce'
  BY <1>1 DEF Held, Away, InOneHand, HeldOnce
<1>3. \A q \in Purger : q # p => ppc'[q] = ppc[q]
  BY DEF purgeStep, ppcStep, purgeReturn, purgeTick, purgeRefresh, purgeRead, purgeFinish,
     purgeClear, purgeWake, Types, PurgeTypes
<1>4. slice[p].next \in Nat \ {0} /\ slice[p].len \in 0..Cap /\ slice[p].array \in Array
  BY DEF Types, SliceTypes
<1>5. ASSUME UNCHANGED <<fifo, chan>>, \A q \in Purger : q # p => slice'[q] = slice[q],
             UNCHANGED arrays, Condemning(p)' = Condemning(p), Uncleared(p)' = Uncleared(p),
             Condemning(p) # {} => slice'[p].array = slice[p].array, Sending'
      PROVE  InOneHand'
  <2>1. \A q \in Purger : /\ Condemning(q)' = Condemning(q) /\ Uncleared(q)' \subseteq Uncleared(q)
    BY <1>3, <1>5 DEF Condemning, Uncleared
  <2>2. \A q \in Purger : \A i \in Condemning(q) : Stored(q, i)' = Stored(q, i)
    BY <1>5 DEF Stored
  <2>3. Condemned' = Condemned /\ CondemnedOnce' /\ SlotsApart'
    BY <2>1, <2>2, PurgersKeepSlots DEF InOneHand
  <2>4. Queued' = Queued /\ Reached' = Reached /\ QueuedOnce'
    BY <1>5 DEF Queued, Reached, InOneHand, QueuedOnce
  <2>5. Partition'
    BY <1>2, <2>3, <2>4 DEF InOneHand, Partition
  <2> QED
    BY <1>2, <1>5, <2>3, <2>4, <2>5 DEF InOneHand
<1>6. CASE purgeReturn(p) \/ purgeTick(p)
  <2>1. UNCHANGED <<fifo, chan, arrays, slice, victim>>
    BY <1>6 DEF purgeReturn, purgeTick, queue, wvars, staleWorkers
  <2>2. ppc[p] = "select" /\ ppc'[p] \in {"lock", "returned"}
    BY <1>6 DEF purgeReturn, purgeTick, ppcStep, Types, PurgeTypes
  <2>3. Condemning(p)' = Condemning(p) /\ Uncleared(p)' = Uncleared(p)
    BY <2>1, <2>2 DEF Condemning, Uncleared
  <2>4. Sending'
    BY <1>3, <2>1, <2>2 DEF InOneHand, Sending, Stored
  <2> QED
    BY <1>5, <2>1, <2>3, <2>4
<1>7. CASE purgeRefresh(p)
  <2>1. /\ ppc[p] = "lock" /\ ppc' = [ppc EXCEPT ![p] = "finish"]
        /\ UNCHANGED <<chan, victim>> /\ slice[p].next > slice[p].len
    BY <1>7 DEF purgeRefresh, ppcStep, wvars, HoldersAt
  <2>2. CASE UNCHANGED <<queue, arrays, expiry, slice, overwritten>>
    <3>1. ppc'[p] = "finish"
      BY <2>1 DEF Types, PurgeTypes
    <3>2. Condemning(p)' = Condemning(p) /\ Uncleared(p)' = Uncleared(p)
      BY <2>1, <2>2, <3>1 DEF Condemning, Uncleared
    <3>3. Sending'
      BY <1>3, <2>1, <2>2, <3>1 DEF InOneHand, Sending, Stored
    <3> QED
      BY <1>5, <2>1, <2>2, <3>2, <3>3 DEF queue
  <2>3. ASSUME NEW n \in 1..Len(fifo), NEW k \in 0..n-1, WQ!Refresh(n),
               appendStale(p, SubSeq(fifo, n - k + 1, n) \o SubSeq(fifo, 1, n - k), k)
        PROVE  InOneHand'
    BY <1>1, <2>1, <2>3, RefreshKeepsHands
  <2> QED
    BY <1>7, <2>2, <2>3 DEF purgeRefresh
<1>8. CASE purgeRead(p)
  <2> DEFINE w == Stored(p, slice[p].next)
  <2>1. /\ UNCHANGED <<fifo, chan, arrays, slice>> /\ slice[p].next <= slice[p].len
        /\ ppc[p] = "finish" /\ ppc' = [ppc EXCEPT ![p] = IF w = None THEN "panic" ELSE "send"]
        /\ victim' = [victim EXCEPT ![p] = w]
    BY <1>8 DEF purgeRead, ppcStep, queue, wvars, Stored
  <2>2. slice[p].next \in Condemning(p)
    BY <1>4, <2>1 DEF Condemning
  <2>3. w \in Worker
    BY <2>2 DEF InOneHand, CondemnedOnce
  <2>4. ppc'[p] = "send" /\ victim'[p] = w /\ \A q \in Purger : q # p => victim'[q] = victim[q]
    BY <2>1, <2>3 DEF Types, PurgeTypes, SliceTypes
  <2>5. Condemning(p)' = Condemning(p) /\ Uncleared(p)' = Uncleared(p)
    BY <2>1, <2>4 DEF Condemning, Uncleared
  <2>6. Sending'
    BY <1>3, <2>1, <2>4 DEF InOneHand, Sending, Stored
  <2> QED
    BY <1>5, <2>1, <2>5, <2>6
<1>9. CASE purgeFinish(p)
  <2> DEFINE w == victim[p]
             next == slice[p].next
  <2>1. /\ ppc[p] = "send" /\ ppc' = [ppc EXCEPT ![p] = "clear"]
        /\ chan' = [chan EXCEPT ![w] = Finish] /\ victim' = [victim EXCEPT ![p] = None]
        /\ UNCHANGED <<fifo, arrays, slice>>
    BY <1>9 DEF purgeFinish, ppcStep, SendTo, queue
  <2>2. next <= slice[p].len /\ next \in Condemning(p) /\ w = Stored(p, next)
    BY <1>4, <2>1 DEF HoldersAt, Condemning, InOneHand, Sending
  <2>3. w \in Worker /\ w \in Condemned
    BY <2>2 DEF InOneHand, CondemnedOnce, Condemned
  <2>4. ppc'[p] = "clear" /\ Condemning(p)' = Condemning(p) \ {next}
    BY <2>1 DEF Types, PurgeTypes, Condemning
  <2>5. \A q \in Purger : q # p => Condemning(q)' = Condemning(q)
    BY <1>3, <2>1 DEF Condemning
  <2>6. \A q \in Purger : Uncleared(q)' = Uncleared(q) /\ \A i : Stored(q, i)' = Stored(q, i)
    BY <2>1 DEF Uncleared, Stored
  <2>7. \A q \in Purger : \A i \in Condemning(q) : Stored(q, i) = w => q = p /\ i = next
    BY <2>2 DEF InOneHand, CondemnedOnce
  <2>8. \A q \in Purger : Condemning(q)' \subseteq Condemning(q)
    BY <2>4, <2>5
  <2>9. Condemned' = Condemned \ {w}
    <3>1. ASSUME NEW v \in Worker PROVE v \in Condemned' <=> v \in Condemned /\ v # w
      BY <2>2, <2>4, <2>5, <2>6, <2>7 DEF Condemned
    <3> QED
      BY <3>1 DEF Condemned
  <2>10. CondemnedOnce'
    BY <2>6, <2>8 DEF InOneHand, CondemnedOnce
  <2>11. SlotsApart'
    BY <2>6 DEF InOneHand, SlotsApart
  <2>12. Sending'
    <3>1. \A q \in Purger : q # p => victim'[q] = victim[q]
      BY <2>1 DEF Types, SliceTypes
    <3> QED
      BY <1>3, <2>1, <2>4, <3>1 DEF InOneHand, Sending, Stored
  <2>13. Reached' = Reached \cup {w}
    BY <2>1, <2>3 DEF Reached, Types, WorkerTypes
  <2>14. Queued' = Queued /\ QueuedOnce'
    BY <2>1 DEF Queued, InOneHand, QueuedOnce
  <2>15. Partition'
    BY <1>2, <2>3, <2>9, <2>13, <2>14 DEF InOneHand, Partition
  <2> QED
    BY <1>2, <2>10, <2>11, <2>12, <2>14, <2>15 DEF InOneHand
<1>10. CASE purgeClear(p)
  <2> DEFINE a == slice[p].array
             next == slice[p].next
  <2>1. /\ ppc[p] = "clear" /\ ppc' = [ppc EXCEPT ![p] = "finish"]
        /\ arrays' = [arrays EXCEPT ![a][next] = None]
        /\ slice' = [slice EXCEPT ![p].next = next + 1]
        /\ UNCHANGED <<fifo, chan, victim>>
    BY <1>10 DEF purgeClear, ppcStep, queue, wvars
  <2>2. next <= slice[p].len
    BY <2>1 DEF HoldersAt
  <2>3. /\ ppc'[p] = "finish"
        /\ slice'[p].array = a /\ slice'[p].next = next + 1 /\ slice'[p].len = slice[p].len
        /\ \A q \in Purger : q # p => slice'[q] = slice[q]
    BY <2>1 DEF Types, PurgeTypes, SliceTypes
  <2>4. \A b \in Array, i \in Slot : <<b, i>> # <<a, next>> => arrays'[b][i] = arrays[b][i]
    BY <1>4, <2>1 DEF Types, SliceTypes
  <2>5. Condemning(p) = next+1..slice[p].len /\ Condemning(p)' = next+1..slice[p].len
    <3>1. Condemning(p) = next+1..slice[p].len
      BY <1>4, <2>1 DEF Condemning
    <3>2. Condemning(p)' = next+1..slice[p].len
      BY <2>3 DEF Condemning
    <3> QED
      BY <3>1, <3>2
  <2>6. Uncleared(p)' \subseteq Uncleared(p)
    BY <1>4, <2>3 DEF Uncleared
  <2>7. \A q \in Purger : Condemning(q)' = Condemning(q) /\ Uncleared(q)' \subseteq Uncleared(q)
    <3>1. ASSUME NEW q \in Purger, q # p
          PROVE  Condemning(q)' = Condemning(q) /\ Uncleared(q)' = Uncleared(q)
      BY <1>3, <2>3, <3>1 DEF Condemning, Uncleared
    <3> QED
      BY <2>5, <2>6, <3>1
  <2>8. \A q \in Purger : \A i \in slice[q].next..slice[q].len :
           i \in Slot /\ slice[q].array \in Array
    BY DEF Types, SliceTypes, Slot
  <2>9. \A q \in Purger : q # p => \A i \in slice[q].next..slice[q].len :
           <<slice[q].array, i>> # <<a, next>>
    <3>1. <<a, next>> \in Uncleared(p)
      BY <1>4, <2>2 DEF Uncleared
    <3> QED
      BY <3>1, ZenonT(30) DEF InOneHand, SlotsApart, Uncleared
  <2>10. ASSUME NEW q \in Purger, NEW i \in Condemning(q) PROVE Stored(q, i)' = Stored(q, i)
    <3>1. CASE q = p
      <4>1. i \in Slot /\ i # next
        BY <1>4, <2>5, <2>10, <3>1 DEF Slot
      <4> QED
        BY <1>4, <2>3, <2>4, <3>1, <4>1 DEF Stored
    <3>2. CASE q # p
      <4>1. i \in slice[q].next..slice[q].len
        BY <2>10 DEF Condemning
      <4> QED
        BY <2>3, <2>4, <2>8, <2>9, <3>2, <4>1 DEF Stored
    <3> QED
      BY <3>1, <3>2
  <2>11. Condemned' = Condemned /\ CondemnedOnce' /\ SlotsApart'
    BY <2>7, <2>10, PurgersKeepSlots DEF InOneHand
  <2>12. Sending'
    <3>1. ASSUME NEW q \in Purger, q # p, ppc[q] = "send"
          PROVE  Stored(q, slice[q].next)' = Stored(q, slice[q].next)
      <4>1. slice[q].next \in Condemning(q)
        BY <3>1 DEF HoldersAt, Condemning, Types, SliceTypes
      <4> QED
        BY <2>3, <2>10, <3>1, <4>1 DEF Stored
    <3> QED
      BY <1>3, <2>1, <2>3, <3>1 DEF InOneHand, Sending
  <2>13. Queued' = Queued /\ Reached' = Reached /\ QueuedOnce'
    BY <2>1 DEF Queued, Reached, InOneHand, QueuedOnce
  <2>14. Partition'
    BY <1>2, <2>11, <2>13 DEF InOneHand, Partition
  <2> QED
    BY <1>2, <2>11, <2>12, <2>13, <2>14 DEF InOneHand
<1>11. CASE purgeWake(p)
  <2>1. /\ UNCHANGED <<fifo, chan, arrays, victim>> /\ slice[p].next > slice[p].len
        /\ ppc[p] = "finish" /\ ppc'[p] = "select" /\ slice'[p] = NoSlice
        /\ \A q \in Purger : q # p => slice'[q] = slice[q]
    BY <1>11 DEF purgeWake, ppcStep, queue, wvars, Types, PurgeTypes, SliceTypes
  <2>2. Condemning(p) = {} /\ Uncleared(p) = {}
    BY <1>4, <2>1 DEF Condemning, Uncleared
  <2>3. Condemning(p)' = {} /\ Uncleared(p)' = {}
    BY <2>1 DEF Condemning, Uncleared, NoSlice
  <2>4. Sending'
    BY <1>3, <2>1 DEF InOneHand, Sending, Stored
  <2> QED
    BY <1>5, <2>1, <2>2, <2>3, <2>4
<1> QED
  BY <1>6, <1>7, <1>8, <1>9, <1>10, <1>11 DEF purgeStep

\* reset moves idle workers from the queue to their channels; nothing else the
\* controller does touches a worker.
LEMMA CtlKeepsHands ==
  ASSUME Types, HoldersAt, InOneHand,
         \/ workerSignal \/ releaseStep \/ Reboot
         \/ \E n \in 1..MaxCap : Tune(n)
         \/ \E r \in {"none", "running"} : Release(r)
  PROVE  InOneHand'
<1> USE PoolAssumption
<1>1. UNCHANGED <<hold, arrays, slice, victim, wpc>>
  BY DEF svars, wvars, pvars, staleWorkers, workerSignal, Reboot, releaseStep, releaseStop,
     releaseFinish, releaseReset, releaseBroadcast, pollRunning, pollPurgeDone,
     pollTicktockDone, Tune, Release
<1>2. CASE releaseFinish
  <2>1. PICK w \in Worker : WQ!Detach(w) /\ chan' = [chan EXCEPT ![w] = Finish]
    BY <1>2 DEF releaseFinish, SendTo
  <2>2. w \in Queued /\ Queued' = Queued \ {w} /\ QueuedOnce'
    BY <2>1, DetachTakesOne DEF Types, InOneHand
  <2>3. Reached' = Reached \cup {w}
    BY <2>1 DEF Reached, Types, WorkerTypes
  <2>4. Held' = Held /\ Away' = Away /\ HeldOnce'
    BY <1>1 DEF Held, Away, InOneHand, HeldOnce
  <2>5. ppc' = ppc
    BY <1>2 DEF releaseFinish, pvars
  <2>6. Condemned' = Condemned /\ CondemnedOnce' /\ SlotsApart' /\ Sending'
    BY <1>1, <2>5, PurgersAlone
  <2>7. Partition'
    BY <2>2, <2>3, <2>4, <2>6 DEF InOneHand, Partition
  <2> QED
    BY <2>2, <2>4, <2>6, <2>7 DEF InOneHand
<1>3. CASE \/ workerSignal \/ releaseStop \/ releaseReset \/ releaseBroadcast
           \/ pollRunning \/ pollPurgeDone \/ pollTicktockDone
           \/ \E n \in 1..MaxCap : Tune(n)
           \/ \E r \in {"none", "running"} : Release(r)
  <2>1. UNCHANGED <<fifo, chan, ppc>>
    BY <1>3 DEF queue, wvars, pvars, workerSignal, releaseStop, releaseReset,
       releaseBroadcast, pollRunning, pollPurgeDone, pollTicktockDone, Tune, Release
  <2> QED
    BY <1>1, <2>1, QuietStepKeepsHands
<1>4. CASE Reboot
  <2>1. UNCHANGED <<fifo, chan>>
    BY <1>4 DEF Reboot, queue, wvars
  <2>2. reboots \in Nat /\ reboots + 1 \in Purger /\ ppc[reboots + 1] = "none"
    BY <1>4 DEF Reboot, Types, CtlTypes, Purger, HoldersAt
  <2>3. ppc' = ppc \/ ppc' = [ppc EXCEPT ![reboots + 1] = "select"]
    BY <1>4 DEF Reboot
  <2>4. \A q \in Purger : ppc'[q] = ppc[q] \/ (ppc[q] = "none" /\ ppc'[q] = "select")
    BY <2>2, <2>3 DEF Types, PurgeTypes
  <2>5. \A q \in Purger : /\ Condemning(q)' = Condemning(q) /\ Uncleared(q)' \subseteq Uncleared(q)
                          /\ \A i : Stored(q, i)' = Stored(q, i)
    BY <1>1, <2>4 DEF Condemning, Uncleared, Stored
  <2>6. Condemned' = Condemned /\ CondemnedOnce' /\ SlotsApart'
    BY <2>5, PurgersKeepSlots DEF InOneHand
  <2>7. Sending'
    BY <1>1, <2>4 DEF InOneHand, Sending, Stored
  <2>8. Queued' = Queued /\ Held' = Held /\ Reached' = Reached /\ Away' = Away
    BY <1>1, <2>1 DEF Queued, Held, Reached, Away
  <2>9. QueuedOnce' /\ HeldOnce'
    BY <1>1, <2>1 DEF InOneHand, QueuedOnce, HeldOnce
  <2>10. Partition'
    BY <2>6, <2>8 DEF InOneHand, Partition
  <2> QED
    BY <2>6, <2>7, <2>9, <2>10 DEF InOneHand
<1> QED
  BY <1>2, <1>3, <1>4 DEF releaseStep

\* The argument behind OneHolder, inductive: nothing takes back that a slot has
\* been overwritten.
LEMMA HandsInvariant == Spec => []Hands
<1>1. Init => Hands
  <2> SUFFICES ASSUME Init PROVE InOneHand
    BY DEF Hands
  <2> USE PoolAssumption
  <2>1. /\ fifo = <<>> /\ hold = [s \in Submitter |-> None]
        /\ slice = [p \in Purger |-> NoSlice] /\ chan = [w \in Worker |-> None]
        /\ wpc = [w \in Worker |-> "cached"]
    BY DEF Init, WQ!Init
  <2>2. \A p \in Purger : ppc[p] \in {"none", "select"}
    BY DEF Init
  <2>3. \A p \in Purger : Condemning(p) = {} /\ Uncleared(p) = {}
    BY <2>1 DEF Condemning, Uncleared, NoSlice
  <2>4. Queued = {} /\ Held = {} /\ Condemned = {} /\ Reached = {} /\ Away = Worker
    BY <2>1, <2>3 DEF Queued, Held, Condemned, Reached, Away
  <2>5. Partition
    BY <2>4 DEF Partition
  <2>6. QueuedOnce /\ HeldOnce
    BY <2>1 DEF QueuedOnce, HeldOnce
  <2>7. CondemnedOnce /\ SlotsApart /\ Sending
    BY <2>2, <2>3 DEF CondemnedOnce, SlotsApart, Sending
  <2> QED
    BY <2>5, <2>6, <2>7 DEF InOneHand
<1>2. Types /\ HoldersAt /\ Hands /\ [Next]_vars => Hands'
  <2> SUFFICES ASSUME Types, HoldersAt, Hands, [Next]_vars, ~overwritten' PROVE InOneHand'
    BY DEF Hands
  <2>1. InOneHand
    <3>1. overwritten' = overwritten \/ \E p \in Purger : purgeRefresh(p)
      BY DEF Next, submitStep, workerStep, purgeStep, releaseStep, pvars, staleWorkers, vars,
         Submit, retrieveIdle, retrieveCompare, retrieveFull, condWait, condWake, runWorker,
         inputFunc, workerReceive, workerRun, revertCheck, revertLock, revertInsert,
         workerExit, workerPut, workerSignal, purgeReturn, purgeTick, purgeRead, purgeFinish,
         purgeClear, purgeWake, Tune, Release, releaseStop, releaseFinish, releaseReset,
         releaseBroadcast, pollRunning, pollPurgeDone, pollTicktockDone, Reboot
    <3>2. ASSUME NEW p \in Purger, purgeRefresh(p) PROVE ~overwritten
      BY <3>2, ZenonT(30) DEF purgeRefresh, appendStale
    <3> QED
      BY <3>1, <3>2 DEF Hands
  <2>2. CASE Next
    BY <2>1, <2>2, SubmitKeepsHands, WorkerKeepsHands, PurgeKeepsHands, CtlKeepsHands DEF Next
  <2>3. CASE UNCHANGED vars
    <3>1. UNCHANGED <<fifo, hold, arrays, slice, victim, ppc, chan, wpc>>
      BY <2>3 DEF vars, queue, svars, wvars, pvars, staleWorkers
    <3> QED
      BY <2>1, <3>1, QuietStepKeepsHands
  <2> QED
    BY <2>2, <2>3
<1> QED
  BY <1>1, <1>2, TypesInvariant, HoldersInvariant, PTL DEF Spec

\* Until a refresh writes into a slot of wq.expiry that another purger has yet
\* to clear, every worker object is in exactly one hand, for any number of
\* submitters, workers, purgers and operations of the controller
\* (worker_loop_queue.go:77-107, pool.go:135-149, 383-445): two sends never meet
\* in one channel and no goroutine is forgotten at its receive.
THEOREM WorkersHaveOneHolder == Spec => []OneHolder
<1>1. Types /\ Hands => OneHolder
  BY HandsGiveOneHolder
<1> QED
  BY <1>1, TypesInvariant, HandsInvariant, PTL
----------------------------------------------------------------------------
(* Every task runs once *)

\* The workers whose channel holds the task of s, and those that run it.
Sent(s) == { w \in Worker : chan[w] = s }
Running(s) == { w \in Worker : task[w] = s }

\* A goroutine has a task exactly while it runs it.
TaskWhileRunning == \A w \in Worker : task[w] # None <=> wpc[w] = "run"

TaskInv == TaskRunsExactlyOnce /\ TaskWhileRunning

\* Sets of workers are finite.
LEMMA SentFinite ==
  ASSUME NEW s \in Submitter
  PROVE  IsFiniteSet(Sent(s)) /\ IsFiniteSet(Running(s))
BY PoolAssumption, FS_Subset DEF Sent, Running

\* A step that neither sends nor runs a task of anyone keeps TaskInv.
LEMMA NoTaskStep ==
  ASSUME TaskInv, UNCHANGED <<task, executed>>,
         \A s \in Submitter : Sent(s)' = Sent(s),
         \A s \in Submitter : spc'[s] = "nil" <=> spc[s] = "nil",
         \A w \in Worker : wpc'[w] = "run" <=> wpc[w] = "run"
  PROVE  TaskInv'
<1>1. TaskWhileRunning'
  BY DEF TaskInv, TaskWhileRunning
<1>2. TaskRunsExactlyOnce'
  BY DEF TaskInv, TaskRunsExactlyOnce, Sent
<1> QED
  BY <1>1, <1>2 DEF TaskInv

\* A submitter sends its task once, and its Submit returns nil with that.
LEMMA SubmitKeepsTaskInv ==
  ASSUME Types, HoldersAt, TaskInv, NEW s \in Submitter, submitStep(s)
  PROVE  TaskInv'
<1> USE PoolAssumption
<1>1. CASE ~inputFunc(s)
  <2>1. UNCHANGED <<task, executed, chan>>
    BY <1>1 DEF submitStep, wvars, Submit, retrieveIdle, retrieveCompare, retrieveFull,
       condWait, condWake, runWorker
  <2>2. \A t \in Submitter : spc'[t] = "nil" <=> spc[t] = "nil"
    BY <1>1 DEF submitStep, Submit, retrieveIdle, retrieveCompare, retrieveFull, condWait,
       condWake, runWorker, Retrying, spcStep, Types, SubmitTypes
  <2>3. \A w \in Worker : wpc'[w] = "run" <=> wpc[w] = "run"
    <3>1. CASE runWorker(s)
      BY <3>1 DEF runWorker, Types, WorkerTypes
    <3>2. CASE ~runWorker(s)
      BY <1>1, <3>2 DEF submitStep, wvars, Submit, retrieveIdle, retrieveCompare,
         retrieveFull, condWait, condWake
    <3> QED
      BY <3>1, <3>2
  <2>4. \A t \in Submitter : Sent(t)' = Sent(t)
    BY <2>1 DEF Sent
  <2> QED
    BY <2>1, <2>2, <2>3, <2>4, NoTaskStep
<1>2. CASE inputFunc(s)
  <2> DEFINE w == hold[s]
  <2>1. /\ spc[s] = "send" /\ spc' = [spc EXCEPT ![s] = "nil"]
        /\ chan[w] = None /\ chan' = [chan EXCEPT ![w] = s]
        /\ UNCHANGED <<wpc, task, executed>>
    BY <1>2 DEF inputFunc, SendTo, spcStep
  <2>2. w \in Worker
    BY <2>1 DEF HoldersAt, Types, SubmitTypes
  <2>3. \A v \in Worker : chan'[v] = IF v = w THEN s ELSE chan[v]
    BY <2>1, <2>2 DEF Types, WorkerTypes
  <2>4. TaskWhileRunning'
    BY <2>1 DEF TaskInv, TaskWhileRunning
  <2>5. ASSUME NEW t \in Submitter
        PROVE  executed'[t] + Cardinality(Sent(t)') + Cardinality(Running(t)')
                 = IF spc'[t] = "nil" THEN 1 ELSE 0
    <3>1. Running(t)' = Running(t) /\ executed'[t] = executed[t]
      BY <2>1 DEF Running
    <3>2. /\ executed[t] + Cardinality(Sent(t)) + Cardinality(Running(t))
               = IF spc[t] = "nil" THEN 1 ELSE 0
          /\ executed[t] \in Nat
          /\ Cardinality(Sent(t)) \in Nat /\ Cardinality(Running(t)) \in Nat
      BY SentFinite, FS_CardinalityType DEF TaskInv, TaskRunsExactlyOnce, Sent, Running,
         Types, WorkerTypes
    <3>3. CASE t = s
      <4>1. Sent(s)' = Sent(s) \cup {w} /\ w \notin Sent(s)
        BY <2>1, <2>2, <2>3 DEF Sent
      <4>2. Cardinality(Sent(s)') = Cardinality(Sent(s)) + 1
        BY <4>1, SentFinite, FS_AddElement
      <4>3. spc'[s] = "nil"
        BY <2>1 DEF Types, SubmitTypes
      <4> QED
        BY <2>1, <3>1, <3>2, <3>3, <4>2, <4>3
    <3>4. CASE t # s
      <4>1. Sent(t)' = Sent(t)
        BY <2>1, <2>2, <2>3, <3>4 DEF Sent
      <4>2. spc'[t] = spc[t]
        BY <2>1, <3>4 DEF Types, SubmitTypes
      <4> QED
        BY <3>1, <3>2, <4>1, <4>2
    <3> QED
      BY <3>3, <3>4
  <2> QED
    BY <2>4, <2>5 DEF TaskInv, TaskRunsExactlyOnce, Sent, Running
<1> QED
  BY <1>1, <1>2

\* A worker goroutine takes a task out of its channel and runs it once.
LEMMA WorkerKeepsTaskInv ==
  ASSUME Types, TaskInv, NEW w \in Worker, workerStep(w)
  PROVE  TaskInv'
<1> USE PoolAssumption
<1>1. CASE ~workerReceive(w) /\ ~workerRun(w)
  <2>1. UNCHANGED <<task, executed, chan, spc>>
    BY <1>1 DEF workerStep, svars, revertCheck, revertLock, revertInsert, workerExit, workerPut
  <2>2. \A v \in Worker : wpc'[v] = "run" <=> wpc[v] = "run"
    <3>1. wpc[w] # "run" /\ \E to : to # "run" /\ wpc' = [wpc EXCEPT ![w] = to]
      <4>1. CASE revertCheck(w) \/ revertLock(w)
        BY <4>1 DEF revertCheck, revertLock
      <4>2. CASE revertInsert(w)
        BY <4>2 DEF revertInsert
      <4>3. CASE workerExit(w) \/ workerPut(w)
        BY <4>3 DEF workerExit, workerPut
      <4> QED
        BY <1>1, <4>1, <4>2, <4>3 DEF workerStep
    <3> QED
      BY <3>1 DEF Types, WorkerTypes
  <2>3. \A s \in Submitter : Sent(s)' = Sent(s)
    BY <2>1 DEF Sent
  <2> QED
    BY <2>1, <2>2, <2>3, NoTaskStep
<1>2. CASE workerReceive(w)
  <2>1. /\ wpc[w] = "receive" /\ chan[w] # None
        /\ wpc' = [wpc EXCEPT ![w] = IF chan[w] = Finish THEN "exit" ELSE "run"]
        /\ task' = [task EXCEPT ![w] = IF chan[w] = Finish THEN None ELSE chan[w]]
        /\ chan' = [chan EXCEPT ![w] = None]
        /\ UNCHANGED <<spc, executed>>
    BY <1>2 DEF workerReceive, svars
  <2>2. \A v \in Worker :
          /\ chan'[v] = IF v = w THEN None ELSE chan[v]
          /\ task'[v] = IF v # w THEN task[v] ELSE IF chan[w] = Finish THEN None ELSE chan[w]
          /\ wpc'[v] = IF v # w THEN wpc[v] ELSE IF chan[w] = Finish THEN "exit" ELSE "run"
    BY <2>1 DEF Types, WorkerTypes
  <2>3. TaskWhileRunning'
    BY <2>1, <2>2 DEF TaskInv, TaskWhileRunning
  <2>4. task[w] = None
    BY <2>1 DEF TaskInv, TaskWhileRunning
  <2>5. ASSUME NEW t \in Submitter
        PROVE  executed'[t] + Cardinality(Sent(t)') + Cardinality(Running(t)')
                 = IF spc'[t] = "nil" THEN 1 ELSE 0
    <3>1. /\ executed[t] + Cardinality(Sent(t)) + Cardinality(Running(t))
               = IF spc[t] = "nil" THEN 1 ELSE 0
          /\ executed[t] \in Nat
          /\ Cardinality(Sent(t)) \in Nat /\ Cardinality(Running(t)) \in Nat
      BY SentFinite, FS_CardinalityType DEF TaskInv, TaskRunsExactlyOnce, Sent, Running,
         Types, WorkerTypes
    <3>2. t # None /\ t # Finish
      OBVIOUS
    <3>3. CASE chan[w] = t
      <4>1. Sent(t)' = Sent(t) \ {w} /\ w \in Sent(t)
        BY <2>2, <3>2, <3>3 DEF Sent
      <4>2. Running(t)' = Running(t) \cup {w} /\ w \notin Running(t)
        BY <2>2, <2>4, <3>2, <3>3 DEF Running
      <4>3. Cardinality(Sent(t)') = Cardinality(Sent(t)) - 1
        BY <4>1, SentFinite, FS_RemoveElement
      <4>4. Cardinality(Running(t)') = Cardinality(Running(t)) + 1
        BY <4>2, SentFinite, FS_AddElement
      <4> QED
        BY <2>1, <3>1, <4>3, <4>4
    <3>4. CASE chan[w] # t
      <4>1. Sent(t)' = Sent(t) /\ Running(t)' = Running(t)
        BY <2>2, <2>4, <3>2, <3>4 DEF Sent, Running
      <4> QED
        BY <2>1, <3>1, <4>1
    <3> QED
      BY <3>3, <3>4
  <2> QED
    BY <2>3, <2>5 DEF TaskInv, TaskRunsExactlyOnce, Sent, Running
<1>3. CASE workerRun(w)
  <2>1. /\ wpc[w] = "run" /\ task' = [task EXCEPT ![w] = None]
        /\ executed' = [executed EXCEPT ![task[w]] = executed[task[w]] + 1]
        /\ UNCHANGED <<spc, chan>>
    BY <1>3 DEF workerRun, svars
  <2>2. \E to : to # "run" /\ wpc' = [wpc EXCEPT ![w] = to]
    BY <1>3 DEF workerRun
  <2>3. \A v \in Worker : task'[v] = IF v = w THEN None ELSE task[v]
    BY <2>1 DEF Types, WorkerTypes
  <2>4. TaskWhileRunning'
    BY <2>2, <2>3 DEF TaskInv, TaskWhileRunning, Types, WorkerTypes
  <2>5. \A t \in Submitter :
          executed'[t] = IF t = task[w] THEN executed[t] + 1 ELSE executed[t]
    BY <2>1 DEF Types, WorkerTypes
  <2>6. ASSUME NEW t \in Submitter
        PROVE  executed'[t] + Cardinality(Sent(t)') + Cardinality(Running(t)')
                 = IF spc'[t] = "nil" THEN 1 ELSE 0
    <3>1. /\ executed[t] + Cardinality(Sent(t)) + Cardinality(Running(t))
               = IF spc[t] = "nil" THEN 1 ELSE 0
          /\ executed[t] \in Nat
          /\ Cardinality(Sent(t)) \in Nat /\ Cardinality(Running(t)) \in Nat
      BY SentFinite, FS_CardinalityType DEF TaskInv, TaskRunsExactlyOnce, Sent, Running,
         Types, WorkerTypes
    <3>2. Sent(t)' = Sent(t)
      BY <2>1 DEF Sent
    <3>3. CASE task[w] = t
      <4>1. Running(t)' = Running(t) \ {w} /\ w \in Running(t)
        BY <2>3, <3>3 DEF Running
      <4>2. Cardinality(Running(t)') = Cardinality(Running(t)) - 1
        BY <4>1, SentFinite, FS_RemoveElement
      <4>3. executed'[t] = executed[t] + 1
        BY <2>5, <3>3
      <4> QED
        BY <2>1, <3>1, <3>2, <4>2, <4>3
    <3>4. CASE task[w] # t
      <4>1. Running(t)' = Running(t)
        BY <2>3, <3>4 DEF Running
      <4>2. executed'[t] = executed[t]
        BY <2>5, <3>4
      <4> QED
        BY <2>1, <3>1, <3>2, <4>1, <4>2
    <3> QED
      BY <3>3, <3>4
  <2> QED
    BY <2>4, <2>6 DEF TaskInv, TaskRunsExactlyOnce, Sent, Running
<1> QED
  BY <1>1, <1>2, <1>3

\* Purgers and the controller send nothing but Finish, to an empty channel.
LEMMA OthersKeepTaskInv ==
  ASSUME Types, TaskInv,
         \/ \E p \in Purger : purgeStep(p)
         \/ workerSignal \/ releaseStep \/ Reboot
         \/ \E n \in 1..MaxCap : Tune(n)
         \/ \E r \in {"none", "running"} : Release(r)
  PROVE  TaskInv'
<1> USE PoolAssumption
<1>1. UNCHANGED <<spc, wpc, task, executed>>
        /\ (chan' = chan \/ \E w : chan[w] = None /\ chan' = [chan EXCEPT ![w] = Finish])
  <2>1. ASSUME NEW p \in Purger, purgeStep(p)
        PROVE  UNCHANGED <<spc, wpc, task, executed>>
                 /\ (chan' = chan
                      \/ \E w : chan[w] = None /\ chan' = [chan EXCEPT ![w] = Finish])
    <3>1. CASE purgeFinish(p)
      BY <3>1 DEF purgeFinish, SendTo, svars
    <3>2. CASE ~purgeFinish(p)
      BY <2>1, <3>2 DEF purgeStep, svars, wvars, purgeReturn, purgeTick, purgeRefresh,
         purgeRead, purgeClear, purgeWake
    <3> QED
      BY <3>1, <3>2
  <2>2. CASE releaseFinish
    BY <2>2 DEF releaseFinish, SendTo, svars
  <2>3. CASE \/ workerSignal \/ Reboot
             \/ releaseStop \/ releaseReset \/ releaseBroadcast
             \/ pollRunning \/ pollPurgeDone \/ pollTicktockDone
    BY <2>3 DEF svars, wvars, workerSignal, Reboot, releaseStop, releaseReset,
       releaseBroadcast, pollRunning, pollPurgeDone,
     pollTicktockDone, PollAgain
  <2>4. CASE \E n \in 1..MaxCap : Tune(n)
    BY <2>4 DEF svars, wvars, Tune
  <2>5. CASE \E r \in {"none", "running"} : Release(r)
    BY <2>5 DEF svars, wvars, Release
  <2> QED
    BY <2>1, <2>2, <2>3, <2>4, <2>5 DEF releaseStep
<1>2. ASSUME NEW s \in Submitter PROVE Sent(s)' = Sent(s)
  BY <1>1 DEF Sent, Types, WorkerTypes
<1> QED
  BY <1>1, <1>2, NoTaskStep

\* The argument behind TaskRunsExactlyOnce, inductive.
LEMMA TaskInvariant == Spec => []TaskInv
<1>1. Init => TaskInv
  <2> SUFFICES ASSUME Init PROVE TaskInv
    OBVIOUS
  <2>1. /\ chan = [w \in Worker |-> None] /\ task = [w \in Worker |-> None]
        /\ wpc = [w \in Worker |-> "cached"] /\ executed = [s \in Submitter |-> 0]
        /\ spc = [s \in Submitter |-> "start"]
    BY DEF Init
  <2>2. \A s \in Submitter : Sent(s) = {} /\ Running(s) = {}
    BY <2>1, PoolAssumption DEF Sent, Running
  <2>3. TaskRunsExactlyOnce
    BY <2>1, <2>2, FS_EmptySet DEF TaskRunsExactlyOnce, Sent, Running
  <2> QED
    BY <2>1, <2>3 DEF TaskInv, TaskWhileRunning
<1>2. Types /\ HoldersAt /\ TaskInv /\ [Next]_vars => TaskInv'
  <2> SUFFICES ASSUME Types, HoldersAt, TaskInv, [Next]_vars PROVE TaskInv'
    OBVIOUS
  <2>1. CASE Next
    BY <2>1, SubmitKeepsTaskInv, WorkerKeepsTaskInv, OthersKeepTaskInv DEF Next
  <2>2. CASE UNCHANGED vars
    <3>1. UNCHANGED <<spc, wpc, task, executed, chan>>
      BY <2>2 DEF vars, svars, wvars
    <3>2. \A s \in Submitter : Sent(s)' = Sent(s)
      BY <3>1 DEF Sent
    <3> QED
      BY <3>1, <3>2, NoTaskStep
  <2> QED
    BY <2>1, <2>2
<1> QED
  BY <1>1, <1>2, TypesInvariant, HoldersInvariant, PTL DEF Spec

\* A task whose Submit returned nil is sent, or running, or has run, exactly
\* once, for any number of submitters and workers (pool.go:186-194,
\* worker.go:36-53): no purge, Tune, Release or Reboot loses or repeats it.
THEOREM TasksRunExactlyOnce == Spec => []TaskRunsExactlyOnce
<1>1. TaskInv => TaskRunsExactlyOnce
  BY DEF TaskInv
<1> QED
  BY <1>1, TaskInvariant, PTL

\* What the polling loop knows once it has read Running() = 0: the tasks accepted
\* by then have run.
PolledAll ==
    cpc \in {"pollPurge", "pollTick"} /\ ~overwritten =>
      \A s \in accepted : executed[s] = 1

\* Nobody but the controller in its loop touches what the loop remembers, and a
\* task that has run does not run again.
LEMMA OthersKeepPolledAll ==
  ASSUME Types, PolledAll, TaskInv, TaskInv', Types', UNCHANGED <<cpc, accepted>>,
         overwritten => overwritten',
         \A s \in Submitter : executed'[s] >= executed[s]
  PROVE  PolledAll'
<1> SUFFICES ASSUME cpc \in {"pollPurge", "pollTick"}, ~overwritten', NEW s \in accepted
             PROVE  executed'[s] = 1
  BY DEF PolledAll
<1>1. s \in Submitter /\ executed[s] = 1
  BY DEF PolledAll, Types, CtlTypes
<1>2. executed'[s] \in Nat /\ executed'[s] <= 1
  <2>1. /\ Cardinality(Sent(s)') \in Nat /\ Cardinality(Running(s)') \in Nat
        /\ executed'[s] \in Nat
    <3>1. \A t \in Submitter : IsFiniteSet(Sent(t)') /\ IsFiniteSet(Running(t)')
      BY PoolAssumption, FS_Subset DEF Sent, Running
    <3> QED
      BY <1>1, <3>1, FS_CardinalityType DEF Types, WorkerTypes
  <2>2. executed'[s] + Cardinality(Sent(s)') + Cardinality(Running(s)')
          = IF spc'[s] = "nil" THEN 1 ELSE 0
    BY <1>1 DEF TaskInv, TaskRunsExactlyOnce, Sent, Running
  <2> QED
    BY <2>1, <2>2
<1>3. executed'[s] >= executed[s]
  BY <1>1
<1> QED
  BY <1>1, <1>2, <1>3

\* When the loop reads running = 0 every worker is cached, or done and about to
\* be, so no accepted task is in a channel or being run.
LEMMA ReadingZeroMeansDrained ==
  ASSUME Types, Counters, InOneHand, TaskInv, running = 0, NEW s \in Submitter, spc[s] = "nil"
  PROVE  executed[s] = 1
<1>1. \A w \in Worker : wpc[w] \in {"cached", "put"}
  BY CountedFinite, FS_EmptySet DEF Counters, Counted
<1>2. Sent(s) = {}
  BY <1>1, PoolAssumption DEF InOneHand, Partition, Reached, Away, Sent
<1>3. Running(s) = {}
  BY <1>1, PoolAssumption DEF TaskInv, TaskWhileRunning, Running
<1>4. executed[s] \in Nat
  BY DEF Types, WorkerTypes
<1> QED
  BY <1>2, <1>3, <1>4, FS_EmptySet DEF TaskInv, TaskRunsExactlyOnce, Sent, Running

\* PolledAll always holds.
LEMMA PolledInvariant == Spec => []PolledAll
<1>1. Init => PolledAll
  BY DEF Init, PolledAll
<1>2. Types /\ Types' /\ Counters /\ Hands /\ TaskInv /\ TaskInv' /\ PolledAll /\ [Next]_vars
        => PolledAll'
  <2> SUFFICES ASSUME Types, Types', Counters, Hands, TaskInv, TaskInv', PolledAll, [Next]_vars
               PROVE  PolledAll'
    OBVIOUS
  <2>1. CASE pollRunning
    <3>1. UNCHANGED <<executed, overwritten>>
      BY <2>1 DEF pollRunning, wvars, pvars, staleWorkers
    <3>2. CASE running = 0 /\ accepted' = { s \in Submitter : spc[s] = "nil" }
      BY <3>1, <3>2, ReadingZeroMeansDrained DEF PolledAll, Hands
    <3>3. CASE cpc' = "idle"
      BY <3>3 DEF PolledAll
    <3> QED
      BY <2>1, <3>2, <3>3 DEF pollRunning
  <2>2. CASE pollPurgeDone
    <3>1. UNCHANGED <<executed, overwritten>>
      BY <2>2 DEF pollPurgeDone, wvars, pvars, staleWorkers
    <3>2. cpc = "pollPurge" /\ ((cpc' = "pollTick" /\ accepted' = accepted) \/ cpc' = "poll")
      BY <2>2 DEF pollPurgeDone, PollAgain
    <3> QED
      BY <3>1, <3>2 DEF PolledAll
  <2>3. CASE pollTicktockDone
    BY <2>3 DEF pollTicktockDone, PollAgain, PolledAll
  <2>4. CASE \/ releaseStop \/ releaseFinish \/ releaseReset \/ releaseBroadcast \/ Reboot
             \/ (\E n \in 1..MaxCap : Tune(n))
             \/ (\E r \in {"none", "running"} : Release(r))
    <3>1. cpc \notin {"pollPurge", "pollTick"} /\ cpc' \notin {"pollPurge", "pollTick"}
      BY <2>4 DEF releaseStop, releaseFinish, releaseReset, releaseBroadcast, Reboot, Tune,
         Release
    <3> QED
      BY <3>1 DEF PolledAll
  <2>5. CASE \/ (\E s \in Submitter : submitStep(s)) \/ (\E w \in Worker : workerStep(w))
             \/ (\E p \in Purger : purgeStep(p)) \/ workerSignal \/ UNCHANGED vars
    <3>1. UNCHANGED <<cpc, accepted>>
      <4>1. CASE \E s \in Submitter : submitStep(s)
        BY <4>1 DEF submitStep, cvars, Submit, retrieveIdle, retrieveCompare, retrieveFull,
           condWait, condWake, runWorker, inputFunc
      <4>2. CASE \E w \in Worker : workerStep(w)
        BY <4>2 DEF workerStep, cvars, workerReceive, workerRun, revertCheck, revertLock,
           revertInsert, workerExit, workerPut
      <4>3. CASE \E p \in Purger : purgeStep(p)
        BY <4>3 DEF purgeStep, cvars, purgeReturn, purgeTick, purgeRefresh, purgeRead,
           purgeFinish, purgeClear, purgeWake
      <4>4. CASE workerSignal \/ UNCHANGED vars
        BY <4>4 DEF workerSignal, vars, cvars
      <4> QED
        BY <2>5, <4>1, <4>2, <4>3, <4>4
    <3>2. \A s \in Submitter : executed'[s] >= executed[s]
      <4>1. ASSUME NEW w \in Worker, workerRun(w)
            PROVE  \A s \in Submitter : executed'[s] >= executed[s]
        <5>1. executed' = [executed EXCEPT ![task[w]] = executed[task[w]] + 1]
          BY <4>1 DEF workerRun
        <5> QED
          BY <5>1 DEF Types, WorkerTypes
      <4>2. CASE executed' = executed
        BY <4>2 DEF Types, WorkerTypes
      <4>3. executed' = executed \/ \E w \in Worker : workerRun(w)
        BY <2>5 DEF submitStep, workerStep, purgeStep, wvars, vars, Submit, retrieveIdle,
           retrieveCompare, retrieveFull, condWait, condWake, runWorker, inputFunc,
           workerReceive, revertCheck, revertLock, revertInsert, workerExit, workerPut,
           workerSignal, purgeReturn, purgeTick, purgeRefresh, purgeRead, purgeFinish,
           purgeClear, purgeWake
      <4> QED
        BY <4>1, <4>2, <4>3
    <3>3. overwritten => overwritten'
      <4>1. ASSUME NEW p \in Purger, purgeRefresh(p) PROVE overwritten => overwritten'
        BY <4>1, ZenonT(30) DEF purgeRefresh, appendStale
      <4>2. overwritten' = overwritten \/ \E p \in Purger : purgeRefresh(p)
        BY <2>5 DEF submitStep, workerStep, purgeStep, pvars, staleWorkers, vars, Submit,
           retrieveIdle, retrieveCompare, retrieveFull, condWait, condWake, runWorker,
           inputFunc, workerReceive, workerRun, revertCheck, revertLock, revertInsert,
           workerExit, workerPut, workerSignal, purgeReturn, purgeTick, purgeRead,
           purgeFinish, purgeClear, purgeWake
      <4> QED
        BY <4>1, <4>2
    <3> QED
      BY <3>1, <3>2, <3>3, OthersKeepPolledAll
  <2> QED
    BY <2>1, <2>2, <2>3, <2>4, <2>5 DEF Next, releaseStep
<1> QED
  BY <1>1, <1>2, TypesInvariant, CountersCount, HandsInvariant, TaskInvariant, PTL DEF Spec

\* When ReleaseTimeout returns nil, what had been accepted when its loop read
\* running = 0 has run (pool.go:352-362), whatever happens between its three
\* reads: every worker running does not count is away from its receive, so its
\* channel is empty, and it has no task.
THEOREM NilFromReleaseTimeoutMeansDrained == Spec => NilMeansDrained
<1>1. ASSUME PolledAll, [Next]_vars, rt = "running", rt' = "nil", ~overwritten
      PROVE  \A s \in accepted : executed[s] = 1
  <2>1. cpc = "pollTick"
    <3>1. CASE \E t \in Submitter : submitStep(t)
      BY <1>1, <3>1 DEF submitStep, cvars, Submit, retrieveIdle, retrieveCompare,
         retrieveFull, condWait, condWake, runWorker, inputFunc
    <3>2. CASE \E w \in Worker : workerStep(w)
      BY <1>1, <3>2 DEF workerStep, cvars, workerReceive, workerRun, revertCheck,
         revertLock, revertInsert, workerExit, workerPut
    <3>3. CASE \E p \in Purger : purgeStep(p)
      BY <1>1, <3>3 DEF purgeStep, cvars, purgeReturn, purgeTick, purgeRefresh,
         purgeRead, purgeFinish, purgeClear, purgeWake
    <3>4. CASE workerSignal \/ Reboot \/ \E n \in 1..MaxCap : Tune(n)
      BY <1>1, <3>4 DEF workerSignal, Reboot, Tune, cvars
    <3>5. CASE \E r \in {"none", "running"} : Release(r)
      BY <1>1, <3>5 DEF Release
    <3>6. CASE \/ releaseStop \/ releaseFinish \/ releaseReset \/ releaseBroadcast
               \/ pollRunning \/ pollPurgeDone
      BY <1>1, <3>6 DEF releaseStop, releaseFinish, releaseReset, releaseBroadcast,
         pollRunning, pollPurgeDone, PollAgain
    <3>7. CASE UNCHANGED vars
      BY <1>1, <3>7 DEF vars, cvars
    <3>8. CASE pollTicktockDone
      BY <3>8 DEF pollTicktockDone
    <3> QED
      BY <1>1, <3>1, <3>2, <3>3, <3>4, <3>5, <3>6, <3>7, <3>8 DEF Next, releaseStep
  <2> QED
    BY <1>1, <2>1 DEF PolledAll
<1>2. PolledAll /\ [Next]_vars => (rt = "running" /\ rt' = "nil" /\ ~overwritten =>
                                     \A s \in accepted : executed[s] = 1)
  BY <1>1
<1> QED
  BY <1>2, PolledInvariant, PTL DEF Spec, NilMeansDrained
=============================================================================

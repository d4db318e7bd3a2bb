-------------------------------- MODULE Pool --------------------------------
(***************************************************************************)
(* The goroutine pool, psygo/pool/pool.go and worker.go.                   *)
(*                                                                         *)
(* Submitters are goroutines that call Pool.Submit once each, with one     *)
(* task; workers are goWorker objects and the goroutine each runs; purgers *)
(* are the purgeStaleWorkers goroutines, one per NewPool or Reboot; one    *)
(* controlling goroutine calls Tune, Release, ReleaseTimeout and Reboot,   *)
(* one after the other.                                                    *)
(*                                                                         *)
(* running, capacity, waiting and state are atomics, read and written with *)
(* or without Pool.lock.  A step is one change of shared state, together   *)
(* with the condition the code has just read for it: a comparison of two   *)
(* atomics is one step, and so is a condition and the notification that    *)
(* follows it.  Pool.lock is a variable, because critical sections are     *)
(* longer than a step; taking it is merged with the first access it        *)
(* protects.                                                               *)
(*                                                                         *)
(* refresh returns wq.expiry, one slice for all purgers, and a purger      *)
(* walks through it without the lock.  Reboot can start a purger while an  *)
(* earlier one still walks, so the slots of the arrays behind wq.expiry    *)
(* are variables too, and each access to a slot is a step.                 *)
(***************************************************************************)
EXTENDS Integers, Sequences, FiniteSets, SequencesExt

CONSTANTS
    Submitter,         \* goroutines that call Submit, one task each
    Worker,            \* worker objects workerCache hands out
    None,              \* no worker, no task, no lock owner
    Cap,               \* the size given to NewPool, positive
    MaxCap,            \* bound on the capacity Tune may set
    Options,           \* the option records a pool may be made with
    Spare,             \* how many slots more than needed append may allocate
    MaxTunes,          \* bound on Tune
    MaxReleases,       \* bound on Release and ReleaseTimeout
    MaxReboots         \* bound on Reboot

Purger == 0..MaxReboots
NoPurger == -1
Array == Purger        \* arrays behind wq.expiry: one per purger is enough
Slot == 1..Cap         \* their slots: a refresh never returns more workers
NoSlice == [array |-> 0, next |-> 1, len |-> 0]
Ctl == "ctl"           \* the controlling goroutine, as a lock owner
Finish == "finish"     \* the nil that finish() sends

ASSUME PoolAssumption ==
    /\ Cap \in Nat \ {0} /\ MaxCap \in Nat /\ Cap <= MaxCap
    /\ Options \subseteq [Nonblocking : BOOLEAN, MaxBlockingTasks : Nat,
                         DisablePurge : BOOLEAN, workerChanCap : {0, 1}]
    /\ Spare \subseteq Nat
    /\ MaxTunes \in Nat /\ MaxReleases \in Nat /\ MaxReboots \in Nat
    /\ None \notin Submitter \cup Worker
    /\ {Ctl, Finish} \cap (Submitter \cup Worker \cup {None}) = {}
    /\ Submitter \cap Worker = {}
    /\ IsFiniteSet(Submitter) /\ IsFiniteSet(Worker)

VARIABLES
    options,    \* Pool.options, and the package's workerChanCap
    state,      \* "OPENED" or "CLOSED"
    capacity, running, waiting,
    lock,       \* the owner of Pool.lock
    fifo, size, \* Pool.workers
    notify,     \* the notify list of Pool.cond
    spc,        \* what each submitter does next, or how its Submit ended
    hold,       \* the worker a submitter got from retrieveWorker
    wpc,        \* what each worker goroutine does next
    task,       \* the task a worker goroutine is running
    chan,       \* the content of each worker's task channel
    signalling, \* worker goroutines past workerCache.Put, before Signal
    ppc,        \* what each purger does next
    arrays,     \* the slots of the arrays allocated for wq.expiry
    expiry,     \* wq.expiry: its array and how many slots that has room for
    slice,      \* staleWorkers of each purger, and the index its loop is at
    victim,     \* the worker whose finish() a purger is in
    overwritten, \* a refresh wrote a slot another purger had yet to clear (history)
    stopPurge,  \* the purger Pool.stopPurge cancels, or NoPurger
    cancelled,  \* purgers whose context is cancelled
    purgeDone,  \* Pool.purgeDone = 1
    cpc,        \* where the controller is in Release or ReleaseTimeout
    rt,         \* how the last ReleaseTimeout ended, "running" before that
    accepted,   \* the Submits that had returned nil when the polling loop read
                \* Running() = 0 (history)
    emptied,    \* reset has detached a worker
    tunes, releases, reboots,  \* how often Tune, Release, Reboot were called
    executed    \* how often each task ran (history)

queue == <<fifo, size>>
svars == <<spc, hold>>
wvars == <<wpc, task, chan, signalling, executed>>
staleWorkers == <<arrays, expiry, slice, victim, overwritten>>
pvars == <<ppc, staleWorkers, stopPurge, cancelled, purgeDone>>
calls == <<tunes, releases, reboots>>
cvars == <<cpc, rt, accepted, emptied, calls>>
vars == <<options, state, capacity, running, waiting, lock, queue, notify,
          svars, wvars, pvars, cvars>>

WQ == INSTANCE WorkerQueue WITH Limit <- Cap

Init ==
    /\ options \in Options
    /\ state = "OPENED"
    /\ capacity = Cap /\ running = 0 /\ waiting = 0
    /\ lock = None
    /\ WQ!Init
    /\ notify = <<>>
    /\ spc = [s \in Submitter |-> "start"]
    /\ hold = [s \in Submitter |-> None]
    /\ wpc = [w \in Worker |-> "cached"]
    /\ task = [w \in Worker |-> None]
    /\ chan = [w \in Worker |-> None]
    /\ signalling = 0
    /\ ppc = [p \in Purger |->
                IF p = 0 /\ ~options.DisablePurge THEN "select" ELSE "none"]
    /\ arrays = [a \in Array |-> [i \in Slot |-> None]]
    /\ expiry = [array |-> 0, room |-> 0]
    /\ slice = [p \in Purger |-> NoSlice]
    /\ victim = [p \in Purger |-> None]
    /\ overwritten = FALSE
    /\ stopPurge = IF options.DisablePurge THEN NoPurger ELSE 0
    /\ cancelled = {}
    /\ purgeDone = FALSE
    /\ cpc = "idle" /\ rt = "none" /\ accepted = {} /\ emptied = FALSE
    /\ tunes = 0 /\ releases = 0 /\ reboots = 0
    /\ executed = [s \in Submitter |-> 0]

IsClosed == state = "CLOSED"

\* sync.Cond wakes its waiters in the order of their Wait calls.
Signal == notify' = IF notify = <<>> THEN <<>> ELSE Tail(notify)
Broadcast == notify' = <<>>

\* A send on w.task: it waits for room in the channel, or, if the channel is
\* unbuffered, for the worker to be at its receive.
SendTo(w, m) ==
    /\ chan[w] = None
    /\ options.workerChanCap = 0 => wpc[w] = "receive"
    /\ chan' = [chan EXCEPT ![w] = m]
----------------------------------------------------------------------------
(* Submit and retrieveWorker *)

spcStep(s, from, to) == spc[s] = from /\ spc' = [spc EXCEPT ![s] = to]

Submit(s) ==
    /\ spcStep(s, "start", IF IsClosed THEN "ErrPoolClosed" ELSE "lock")
    /\ UNCHANGED <<options, state, capacity, running, waiting, lock, queue, notify,
                   hold, wvars, pvars, cvars>>

\* A submitter may look into the queue: it takes the lock, or has it already
\* because it came back from cond.Wait.
Retrying(s) ==
    \/ spc[s] = "lock" /\ lock = None
    \/ spc[s] = "retry" /\ lock = s

retrieveIdle(s) ==
    /\ Retrying(s)
    /\ \E w \in Worker :
         /\ WQ!Detach(w)
         /\ hold' = [hold EXCEPT ![s] = w]
    /\ spc' = [spc EXCEPT ![s] = "send"]
    /\ lock' = None
    /\ UNCHANGED <<options, state, capacity, running, waiting, notify, wvars, pvars,
                   cvars>>

\* No idle worker: the comparison of Cap() and Running() decides between a
\* new worker and waiting, and keeps the lock in the second case only.
retrieveCompare(s) ==
    /\ Retrying(s)
    /\ fifo = <<>>
    /\ \/ /\ capacity > running
          /\ spc' = [spc EXCEPT ![s] = "get"]
          /\ lock' = None
       \/ /\ capacity <= running
          /\ spc' = [spc EXCEPT ![s] = "full"]
          /\ lock' = s
    /\ UNCHANGED <<options, state, capacity, running, waiting, queue, notify, hold,
                   wvars, pvars, cvars>>

Overloaded ==
    \/ options.Nonblocking
    \/ options.MaxBlockingTasks # 0 /\ waiting >= options.MaxBlockingTasks

retrieveFull(s) ==
    /\ \/ /\ Overloaded
          /\ spcStep(s, "full", "ErrPoolOverload")
          /\ lock' = None
          /\ UNCHANGED waiting
       \/ /\ ~Overloaded
          /\ spcStep(s, "full", "wait")
          /\ waiting' = waiting + 1
          /\ UNCHANGED lock
    /\ UNCHANGED <<options, state, capacity, running, queue, notify, hold, wvars, pvars,
                   cvars>>

\* cond.Wait joins the notify list before it gives up the lock.
condWait(s) ==
    /\ spcStep(s, "wait", "asleep")
    /\ notify' = Append(notify, s)
    /\ lock' = None
    /\ UNCHANGED <<options, state, capacity, running, waiting, queue, hold, wvars, pvars,
                   cvars>>

\* cond.Wait returns with the lock held; the state is looked at again.
condWake(s) ==
    /\ s \notin Range(notify)
    /\ lock = None
    /\ waiting' = waiting - 1
    /\ spcStep(s, "asleep", IF IsClosed THEN "ErrPoolClosed" ELSE "retry")
    /\ lock' = IF IsClosed THEN None ELSE s
    /\ UNCHANGED <<options, state, capacity, running, queue, notify, hold, wvars, pvars,
                   cvars>>

\* Mutant: the started worker is not counted.
RunWithoutAdd(s) ==
    /\ spcStep(s, "get", "send")
    /\ \E w \in Worker :
         /\ wpc[w] = "cached"
         /\ wpc' = [wpc EXCEPT ![w] = "receive"]
         /\ hold' = [hold EXCEPT ![s] = w]
    /\ UNCHANGED running
    /\ UNCHANGED <<options, state, capacity, waiting, lock, queue, notify, task, chan,
                   signalling, executed, pvars, cvars>>

\* workerCache.Get and w.run(), outside the lock.
runWorker(s) ==
    /\ spcStep(s, "get", "send")
    /\ \E w \in Worker :
         /\ wpc[w] = "cached"
         /\ wpc' = [wpc EXCEPT ![w] = "receive"]
         /\ hold' = [hold EXCEPT ![s] = w]
    /\ running' = running + 1
    /\ UNCHANGED <<options, state, capacity, waiting, lock, queue, notify, task, chan,
                   signalling, executed, pvars, cvars>>

inputFunc(s) ==
    /\ spcStep(s, "send", "nil")
    /\ SendTo(hold[s], s)
    /\ hold' = [hold EXCEPT ![s] = None]
    /\ UNCHANGED <<options, state, capacity, running, waiting, lock, queue, notify, wpc,
                   task, signalling, executed, pvars, cvars>>
----------------------------------------------------------------------------
(* The worker goroutine *)

\* Mutant: a task that arrives at a closed pool is dropped.
ReceiveDropsWhenClosed(w) ==
    /\ wpc[w] = "receive" /\ chan[w] # None
    /\ wpc' = [wpc EXCEPT ![w] = IF chan[w] = Finish \/ IsClosed THEN "exit" ELSE "run"]
    /\ task' = [task EXCEPT ![w] = IF chan[w] = Finish \/ IsClosed THEN None ELSE chan[w]]
    /\ chan' = [chan EXCEPT ![w] = None]
    /\ UNCHANGED <<options, state, capacity, running, waiting, lock, queue, notify,
                   svars, signalling, executed, pvars, cvars>>

workerReceive(w) ==
    /\ wpc[w] = "receive" /\ chan[w] # None
    /\ wpc' = [wpc EXCEPT ![w] = IF chan[w] = Finish THEN "exit" ELSE "run"]
    /\ task' = [task EXCEPT ![w] = IF chan[w] = Finish THEN None ELSE chan[w]]
    /\ chan' = [chan EXCEPT ![w] = None]
    /\ UNCHANGED <<options, state, capacity, running, waiting, lock, queue, notify,
                   svars, signalling, executed, pvars, cvars>>

\* f() returns or panics.
workerRun(w) ==
    /\ wpc[w] = "run"
    /\ executed' = [executed EXCEPT ![task[w]] = @ + 1]
    /\ task' = [task EXCEPT ![w] = None]
    /\ \/ wpc' = [wpc EXCEPT ![w] = "revert"]
       \/ wpc' = [wpc EXCEPT ![w] = "exit"]
    /\ UNCHANGED <<options, state, capacity, running, waiting, lock, queue, notify,
                   svars, chan, signalling, pvars, cvars>>

\* revertWorker before the lock.
revertCheck(w) ==
    /\ wpc[w] = "revert"
    /\ IF running > capacity \/ IsClosed
       THEN wpc' = [wpc EXCEPT ![w] = "exit"] /\ Broadcast
       ELSE wpc' = [wpc EXCEPT ![w] = "lock"] /\ UNCHANGED notify
    /\ UNCHANGED <<options, state, capacity, running, waiting, lock, queue, svars, task,
                   chan, signalling, executed, pvars, cvars>>

\* Mutant: the state is not looked at again under the lock.
RevertWithoutDoubleCheck(w) ==
    /\ wpc[w] = "lock" /\ lock = None
    /\ wpc' = [wpc EXCEPT ![w] = "insert"] /\ lock' = w
    /\ UNCHANGED <<options, state, capacity, running, waiting, queue, notify, svars,
                   task, chan, signalling, executed, pvars, cvars>>

\* revertWorker's second look at the state, under the lock.
revertLock(w) ==
    /\ wpc[w] = "lock" /\ lock = None
    /\ IF IsClosed
       THEN wpc' = [wpc EXCEPT ![w] = "exit"] /\ UNCHANGED lock
       ELSE wpc' = [wpc EXCEPT ![w] = "insert"] /\ lock' = w
    /\ UNCHANGED <<options, state, capacity, running, waiting, queue, notify, svars,
                   task, chan, signalling, executed, pvars, cvars>>

\* Mutant: an insert that fails is taken for one that succeeds.
InsertErrorIgnored(w) ==
    /\ wpc[w] = "insert"
    /\ \/ /\ WQ!Insert(w)
          /\ Signal
          /\ wpc' = [wpc EXCEPT ![w] = "receive"]
       \/ /\ ~WQ!CanInsert
          /\ wpc' = [wpc EXCEPT ![w] = "receive"]
          /\ UNCHANGED <<queue, notify>>
    /\ lock' = None
    /\ UNCHANGED <<options, state, capacity, running, waiting, svars, task, chan,
                   signalling, executed, pvars, cvars>>

\* Mutant: the waiters are not told of the worker.
InsertWithoutSignal(w) ==
    /\ wpc[w] = "insert"
    /\ \/ /\ WQ!Insert(w)
          /\ UNCHANGED notify
          /\ wpc' = [wpc EXCEPT ![w] = "receive"]
       \/ /\ ~WQ!CanInsert
          /\ wpc' = [wpc EXCEPT ![w] = "exit"]
          /\ UNCHANGED <<queue, notify>>
    /\ lock' = None
    /\ UNCHANGED <<options, state, capacity, running, waiting, svars, task, chan,
                   signalling, executed, pvars, cvars>>

revertInsert(w) ==
    /\ wpc[w] = "insert"
    /\ \/ /\ WQ!Insert(w)
          /\ Signal
          /\ wpc' = [wpc EXCEPT ![w] = "receive"]
       \/ /\ ~WQ!CanInsert
          /\ wpc' = [wpc EXCEPT ![w] = "exit"]
          /\ UNCHANGED <<queue, notify>>
    /\ lock' = None
    /\ UNCHANGED <<options, state, capacity, running, waiting, svars, task, chan,
                   signalling, executed, pvars, cvars>>

\* The deferred function of run: addRunning(-1), workerCache.Put, Signal.
workerExit(w) ==
    /\ wpc[w] = "exit"
    /\ running' = running - 1
    /\ wpc' = [wpc EXCEPT ![w] = "put"]
    /\ UNCHANGED <<options, state, capacity, waiting, lock, queue, notify, svars, task,
                   chan, signalling, executed, pvars, cvars>>

workerPut(w) ==
    /\ wpc[w] = "put"
    /\ wpc' = [wpc EXCEPT ![w] = "cached"]
    /\ signalling' = signalling + 1
    /\ UNCHANGED <<options, state, capacity, running, waiting, lock, queue, notify,
                   svars, task, chan, executed, pvars, cvars>>

workerSignal ==
    /\ signalling > 0
    /\ signalling' = signalling - 1
    /\ Signal
    /\ UNCHANGED <<options, state, capacity, running, waiting, lock, queue, svars, wpc,
                   task, chan, executed, pvars, cvars>>
----------------------------------------------------------------------------
(* purgeStaleWorkers *)

ppcStep(p, from, to) == ppc[p] = from /\ ppc' = [ppc EXCEPT ![p] = to]

\* The context is cancelled, or the ticker fires and the pool is closed.
purgeReturn(p) ==
    /\ ppcStep(p, "select", "returned")
    /\ p \in cancelled \/ IsClosed
    /\ purgeDone' = TRUE
    /\ UNCHANGED <<options, state, capacity, running, waiting, lock, queue, notify,
                   svars, wvars, staleWorkers, stopPurge, cancelled, cvars>>

\* The ticker fires.  select may choose it even if the context is done.
purgeTick(p) ==
    /\ ppcStep(p, "select", "lock")
    /\ ~IsClosed
    /\ UNCHANGED <<options, state, capacity, running, waiting, lock, queue, notify,
                   svars, wvars, staleWorkers, stopPurge, cancelled, purgeDone,
                   cvars>>

\* The slots purger p has not cleared yet.
Uncleared(p) == { <<slice[p].array, i>> : i \in slice[p].next..slice[p].len }

\* The array append allocates when wq.expiry's has not enough room: one that no
\* loop goes through, the first one so that the choice is no choice.
Fresh(a) ==
    /\ \A p \in Purger : slice[p].next <= slice[p].len => slice[p].array # a
    /\ \A b \in Array : b < a => \E p \in Purger :
         slice[p].next <= slice[p].len /\ slice[p].array = b

\* Slots of an array after the first n workers of found were copied to it.
Copied(slots, found, n) == [i \in Slot |-> IF i <= n THEN found[i] ELSE slots[i]]

\* Mutant: the second append of a wrapped ring is forgotten.
AppendForgetsHead(p, found, k) ==
    LET n == IF k = 0 THEN Len(found) ELSE k
    IN /\ \E a \in Array :
            /\ Fresh(a)
            /\ arrays' = [arrays EXCEPT ![a] = Copied(@, found, n)]
            /\ expiry' = [array |-> a, room |-> n]
       /\ slice' = [slice EXCEPT ![p] = [array |-> expiry'.array, next |-> 1, len |-> n]]
       /\ UNCHANGED overwritten

\* wq.expiry = append(wq.expiry[:0], found...), in two appends when the ring
\* has wrapped: the first k workers, then the rest.  An append that fits writes
\* into the array there is.
appendStale(p, found, k) ==
    LET n == Len(found)
        fits == n <= expiry.room
        inPlace == IF fits THEN n ELSE IF k <= expiry.room THEN k ELSE 0
        written == { <<expiry.array, i>> : i \in 1..inPlace }
        kept == [arrays EXCEPT ![expiry.array] = Copied(@, found, inPlace)]
    IN /\ \/ /\ fits
             /\ arrays' = kept
             /\ UNCHANGED expiry
          \/ /\ ~fits
             /\ \E a \in Array, room \in n..Cap :
                  /\ Fresh(a) /\ room - n \in Spare
                  /\ arrays' = [kept EXCEPT ![a] = Copied([i \in Slot |-> None], found, n)]
                  /\ expiry' = [array |-> a, room |-> room]
       /\ slice' = [slice EXCEPT ![p] = [array |-> expiry'.array, next |-> 1, len |-> n]]
       /\ overwritten' = (overwritten \/ \E q \in Purger : written \cap Uncleared(q) # {})

\* Which workers are stale depends on the clock: any prefix of the queue.  When
\* the ring has wrapped inside it, the k workers that were inserted last come
\* first.
purgeRefresh(p) ==
    /\ ppcStep(p, "lock", "finish")
    /\ lock = None
    /\ \/ UNCHANGED <<queue, arrays, expiry, slice, overwritten>>
       \/ \E n \in 1..Len(fifo) : \E k \in 0..n-1 :
            /\ WQ!Refresh(n)
            /\ appendStale(p, SubSeq(fifo, n - k + 1, n) \o SubSeq(fifo, 1, n - k), k)
    /\ UNCHANGED <<options, state, capacity, running, waiting, lock, notify, svars,
                   wvars, victim, stopPurge, cancelled, purgeDone, cvars>>

\* The loop over staleWorkers, one slot after the other.  The slot is read, the
\* worker in it is told to finish, and the slot is cleared.  Nothing recovers
\* the panic of a finish() on nil: it ends the process.  (The other goroutines
\* go on in the model, which adds behaviours and takes none away.)
purgeRead(p) ==
    LET w == arrays[slice[p].array][slice[p].next]
    IN /\ slice[p].next <= slice[p].len
       /\ ppcStep(p, "finish", IF w = None THEN "panic" ELSE "send")
       /\ victim' = [victim EXCEPT ![p] = w]
       /\ UNCHANGED <<options, state, capacity, running, waiting, lock, queue, notify,
                      svars, wvars, arrays, expiry, slice, overwritten, stopPurge,
                      cancelled, purgeDone, cvars>>

purgeFinish(p) ==
    /\ ppcStep(p, "send", "clear")
    /\ SendTo(victim[p], Finish)
    /\ victim' = [victim EXCEPT ![p] = None]
    /\ UNCHANGED <<options, state, capacity, running, waiting, lock, queue, notify,
                   svars, wpc, task, signalling, executed, arrays, expiry, slice,
                   overwritten, stopPurge, cancelled, purgeDone, cvars>>

purgeClear(p) ==
    /\ ppcStep(p, "clear", "finish")
    /\ arrays' = [arrays EXCEPT ![slice[p].array][slice[p].next] = None]
    /\ slice' = [slice EXCEPT ![p].next = @ + 1]
    /\ UNCHANGED <<options, state, capacity, running, waiting, lock, queue, notify,
                   svars, wvars, expiry, victim, overwritten, stopPurge, cancelled,
                   purgeDone, cvars>>

\* Mutant: the purger wakes nobody.
PurgeNeverWakes(p) ==
    /\ ppcStep(p, "finish", "select")
    /\ slice[p].next > slice[p].len
    /\ slice' = [slice EXCEPT ![p] = NoSlice]
    /\ UNCHANGED notify
    /\ UNCHANGED <<options, state, capacity, running, waiting, lock, queue, svars, wvars,
                   arrays, expiry, victim, overwritten, stopPurge, cancelled, purgeDone,
                   cvars>>

purgeWake(p) ==
    /\ ppcStep(p, "finish", "select")
    /\ slice[p].next > slice[p].len
    /\ slice' = [slice EXCEPT ![p] = NoSlice]
    /\ IF running = 0 \/ (waiting > 0 /\ capacity - running > 0)
       THEN Broadcast ELSE UNCHANGED notify
    /\ UNCHANGED <<options, state, capacity, running, waiting, lock, queue, svars, wvars,
                   arrays, expiry, victim, overwritten, stopPurge, cancelled, purgeDone,
                   cvars>>
----------------------------------------------------------------------------
(* The controller *)

Tune(n) ==
    /\ cpc = "idle"
    /\ tunes < MaxTunes /\ tunes' = tunes + 1
    /\ n # capacity
    /\ capacity' = n
    /\ IF n = capacity + 1 THEN Signal
       ELSE IF n > capacity THEN Broadcast
       ELSE UNCHANGED notify
    /\ UNCHANGED <<options, state, running, waiting, lock, queue, svars, wvars, pvars,
                   cpc, rt, accepted, emptied, releases, reboots>>

\* Release, or the call of Release in ReleaseTimeout (r = "running").
Release(r) ==
    /\ cpc = "idle" /\ ~IsClosed
    /\ releases < MaxReleases
    /\ r = "running" => options.DisablePurge \/ stopPurge # NoPurger
    /\ state' = "CLOSED"
    /\ cpc' = "stop" /\ rt' = r
    /\ releases' = releases + 1
    /\ UNCHANGED <<options, capacity, running, waiting, lock, queue, notify, svars,
                   wvars, pvars, accepted, emptied, tunes, reboots>>

releaseStop ==
    /\ cpc = "stop" /\ cpc' = "reset"
    /\ cancelled' = cancelled \cup ({stopPurge} \ {NoPurger})
    /\ stopPurge' = NoPurger
    /\ UNCHANGED <<options, state, capacity, running, waiting, lock, queue, notify,
                   svars, wvars, ppc, staleWorkers, purgeDone, rt, accepted, emptied,
                   calls>>

\* One iteration of reset's loop: the lock is held while finish sends.
releaseFinish ==
    /\ cpc = "reset" /\ lock \in {None, Ctl}
    /\ \E w \in Worker : WQ!Detach(w) /\ SendTo(w, Finish)
    /\ lock' = Ctl /\ emptied' = TRUE
    /\ UNCHANGED <<options, state, capacity, running, waiting, notify, svars, wpc, task,
                   signalling, executed, pvars, cpc, rt, accepted, calls>>

releaseReset ==
    /\ cpc = "reset" /\ lock \in {None, Ctl}
    /\ fifo = <<>>
    /\ size' = IF emptied THEN 0 ELSE size
    /\ lock' = None /\ emptied' = FALSE
    /\ cpc' = "broadcast"
    /\ UNCHANGED <<options, state, capacity, running, waiting, fifo, notify, svars,
                   wvars, pvars, rt, accepted, calls>>

releaseBroadcast ==
    /\ cpc = "broadcast"
    /\ cpc' = IF rt = "running" THEN "poll" ELSE "idle"
    /\ Broadcast
    /\ UNCHANGED <<options, state, capacity, running, waiting, lock, queue, svars,
                   wvars, pvars, rt, accepted, emptied, calls>>

\* Mutant: Running() = 0 is not waited for.
PollIgnoresRunning ==
    /\ cpc = "poll"
    /\ \/ /\ cpc' = "pollPurge"
          /\ accepted' = { s \in Submitter : spc[s] = "nil" }
          /\ UNCHANGED rt
       \/ /\ cpc' = "idle" /\ rt' = "ErrTimeout"
          /\ UNCHANGED accepted
    /\ UNCHANGED <<options, state, capacity, running, waiting, lock, queue, notify,
                   svars, wvars, pvars, emptied, calls>>

\* The loop of ReleaseTimeout, one atomic read after the other; a read that
\* fails leads back to its head.
pollRunning ==
    /\ cpc = "poll"
    /\ \/ /\ running = 0
          /\ cpc' = "pollPurge"
          /\ accepted' = { s \in Submitter : spc[s] = "nil" }
          /\ UNCHANGED rt
       \/ /\ cpc' = "idle" /\ rt' = "ErrTimeout"
          /\ UNCHANGED accepted
    /\ UNCHANGED <<options, state, capacity, running, waiting, lock, queue, notify,
                   svars, wvars, pvars, emptied, calls>>

\* The next round of the loop.
PollAgain == cpc' = "poll" /\ accepted' = {} /\ UNCHANGED rt

pollPurgeDone ==
    /\ cpc = "pollPurge"
    /\ IF options.DisablePurge \/ purgeDone
       THEN cpc' = "pollTick" /\ UNCHANGED <<accepted, rt>>
       ELSE PollAgain
    /\ UNCHANGED <<options, state, capacity, running, waiting, lock, queue, notify,
                   svars, wvars, pvars, emptied, calls>>

\* ticktock touches nothing the pool's other goroutines wait for: it has
\* stopped by now or not.
pollTicktockDone ==
    /\ cpc = "pollTick"
    /\ \/ cpc' = "idle" /\ rt' = "nil" /\ accepted' = {}
       \/ PollAgain
    /\ UNCHANGED <<options, state, capacity, running, waiting, lock, queue, notify,
                   svars, wvars, pvars, emptied, calls>>

Reboot ==
    /\ cpc = "idle" /\ IsClosed
    /\ reboots < MaxReboots
    /\ reboots' = reboots + 1
    /\ state' = "OPENED"
    /\ purgeDone' = FALSE
    /\ IF options.DisablePurge THEN UNCHANGED <<stopPurge, ppc>>
       ELSE /\ stopPurge' = reboots + 1
            /\ ppc' = [ppc EXCEPT ![reboots + 1] = "select"]
    /\ UNCHANGED <<options, capacity, running, waiting, lock, queue, notify, svars,
                   wvars, staleWorkers, cancelled, cpc, rt, accepted, emptied, tunes,
                   releases>>
----------------------------------------------------------------------------
submitStep(s) ==
    \/ Submit(s) \/ retrieveIdle(s) \/ retrieveCompare(s) \/ retrieveFull(s)
    \/ condWait(s) \/ condWake(s) \/ runWorker(s) \/ inputFunc(s)

workerStep(w) ==
    \/ workerReceive(w) \/ workerRun(w) \/ revertCheck(w) \/ revertLock(w)
    \/ revertInsert(w) \/ workerExit(w) \/ workerPut(w)

purgeStep(p) ==
    \/ purgeReturn(p) \/ purgeTick(p) \/ purgeRefresh(p) \/ purgeRead(p)
    \/ purgeFinish(p) \/ purgeClear(p) \/ purgeWake(p)

releaseStep ==
    \/ releaseStop \/ releaseFinish \/ releaseReset \/ releaseBroadcast
    \/ pollRunning \/ pollPurgeDone \/ pollTicktockDone

Next ==
    \/ \E s \in Submitter : submitStep(s)
    \/ \E w \in Worker : workerStep(w)
    \/ workerSignal
    \/ \E p \in Purger : purgeStep(p)
    \/ \E n \in 1..MaxCap : Tune(n)
    \/ \E r \in {"none", "running"} : Release(r)
    \/ releaseStep
    \/ Reboot

Spec == Init /\ [][Next]_vars

\* The Go scheduler runs every goroutine that can run, the ticker keeps
\* firing and tasks end.  Nothing makes the controller start an operation.
Fairness ==
    /\ \A s \in Submitter : WF_vars(submitStep(s))
    /\ \A w \in Worker : WF_vars(workerStep(w))
    /\ WF_vars(workerSignal)
    /\ \A p \in Purger : WF_vars(purgeStep(p))
    /\ WF_vars(releaseStep)

FairSpec == Spec /\ Fairness
----------------------------------------------------------------------------
Returned == {"nil", "ErrPoolClosed", "ErrPoolOverload"}

PoolTypes ==
    /\ options \in Options
    /\ state \in {"OPENED", "CLOSED"}
    /\ capacity \in 1..MaxCap
    /\ lock \in Submitter \cup Worker \cup {Ctl, None}
    /\ fifo \in Seq(Worker) /\ Len(fifo) <= Cap /\ size \in {0, Cap}
    /\ notify \in Seq(Submitter)

SubmitTypes ==
    /\ spc \in [Submitter -> {"start", "lock", "retry", "full", "wait", "asleep",
                              "get", "send"} \cup Returned]
    /\ hold \in [Submitter -> Worker \cup {None}]

WorkerTypes ==
    /\ wpc \in [Worker -> {"cached", "receive", "run", "revert", "lock",
                           "insert", "exit", "put"}]
    /\ task \in [Worker -> Submitter \cup {None}]
    /\ chan \in [Worker -> Submitter \cup {Finish, None}]
    /\ signalling \in Nat
    /\ executed \in [Submitter -> Nat]

PurgeTypes ==
    /\ ppc \in [Purger -> {"none", "select", "lock", "finish", "send", "clear",
                           "panic", "returned"}]
    /\ stopPurge \in Purger \cup {NoPurger}
    /\ cancelled \subseteq Purger
    /\ purgeDone \in BOOLEAN

SliceTypes ==
    /\ arrays \in [Array -> [Slot -> Worker \cup {None}]]
    /\ expiry \in [array : Array, room : 0..Cap]
    /\ slice \in [Purger -> [array : Array, next : Nat \ {0}, len : 0..Cap]]
    /\ victim \in [Purger -> Worker \cup {None}]
    /\ overwritten \in BOOLEAN

CtlTypes ==
    /\ cpc \in {"idle", "stop", "reset", "broadcast", "poll", "pollPurge", "pollTick"}
    /\ accepted \subseteq Submitter
    /\ rt \in {"none", "running", "nil", "ErrTimeout"}
    /\ emptied \in BOOLEAN
    /\ tunes \in 0..MaxTunes /\ releases \in 0..MaxReleases /\ reboots \in 0..MaxReboots

\* The types of the variables.  running and waiting, counted up and down by
\* atomics of different goroutines (pool.go:374-380), never become negative.
TypeOK ==
    /\ PoolTypes /\ SubmitTypes /\ WorkerTypes /\ PurgeTypes /\ SliceTypes /\ CtlTypes
    /\ running \in Nat /\ waiting \in Nat

\* The indices of the slots whose workers purger p still has to tell to finish.
Condemning(p) == { i \in slice[p].next..slice[p].len :
                     ~(ppc[p] = "clear" /\ i = slice[p].next) }

Holders(w) ==
    { <<"queue", i>> : i \in { i \in DOMAIN fifo : fifo[i] = w } }
    \cup { <<"submitter", s>> : s \in { s \in Submitter : hold[s] = w } }
    \cup (UNION { { <<"purger", p, i>> :
                      i \in { i \in Condemning(p) : arrays[slice[p].array][i] = w } } :
                  p \in Purger })
    \cup (IF chan[w] # None THEN { <<"channel">> } ELSE {})
    \cup (IF wpc[w] # "receive" THEN { <<"itself">> } ELSE {})

\* Every worker is in exactly one hand: one place of the queue, one submitter
\* about to send it a task, one slot of a purger about to finish it, its own
\* channel, or its own goroutine; and no purger meets an empty slot.  With two
\* hands two sends could meet in one channel and the second would block, in
\* reset while it holds the lock; with none the goroutine would wait for ever
\* at its receive.  All of this ends when a refresh writes into a slot that
\* another purger has yet to clear (worker_loop_queue.go:83 against
\* pool.go:146-149), and not before.
OneHolder ==
    ~overwritten =>
      /\ \A w \in Worker : Cardinality(Holders(w)) = 1
      /\ \A p \in Purger : ppc[p] # "panic"

\* A task whose Submit returned nil is in one worker's channel, or being run,
\* or was run once; no other task is ever run.
TaskRunsExactlyOnce ==
    \A s \in Submitter :
      executed[s] + Cardinality({ w \in Worker : chan[w] = s })
                  + Cardinality({ w \in Worker : task[w] = s })
        = IF spc[s] = "nil" THEN 1 ELSE 0

\* Once Release has emptied the queue no worker gets back into it, whatever
\* revertWorker had read before (pool.go:430-432): no idle goroutine outlives
\* the pool.
ReleasedStaysEmpty ==
    IsClosed /\ cpc \notin {"stop", "reset"} => fifo = <<>>

\* The submitters Signal or Broadcast has woken and that have not yet looked
\* into the queue.
Awake == { s \in Submitter : \/ spc[s] = "asleep" /\ s \notin Range(notify)
                             \/ spc[s] = "retry" }

\* While callers sleep in retrieveWorker, every idle worker has a caller on
\* its way to it: one Signal per insert is enough (pool.go:440-441).
IdleNeverOverlooked ==
    ~IsClosed /\ notify # <<>> => Len(fifo) <= Cardinality(Awake)

\* When ReleaseTimeout returns nil, every task whose Submit had returned nil
\* when the loop read Running() = 0 has been run: running counts a worker from
\* before it is handed out until it is done.  (A Submit that passed its look at
\* the state before Release can still return nil between that read and the nil
\* of ReleaseTimeout, pool.go:354-357, and its task is not waited for.)
NilMeansDrained ==
    [][rt = "running" /\ rt' = "nil" /\ ~overwritten =>
         \A s \in accepted : executed[s] = 1]_vars

\* While the pool is open every Submit that got past its first look at the
\* state returns, provided the purger is there to repair lost wake-ups
\* (pool.go:157-159).
SubmitReturns ==
    \A s \in Submitter :
      (spc[s] = "lock" /\ ~options.DisablePurge) ~> (spc[s] \in Returned \/ IsClosed)

\* After Release every worker goroutine ends (pool.go:324, worker.go:42-50).
WorkersEndAfterRelease ==
    IsClosed ~> (\A w \in Worker : wpc[w] = "cached" \/ ~IsClosed)

\* pool.go:340-341: Release wakes the callers waiting in retrieveWorker so that
\* none of them blocks infinitely; every Submit returns, the pool closed or not.
NoCallerBlocksInfinitely ==
    \A s \in Submitter : spc[s] = "lock" ~> spc[s] \in Returned

\* pool.go:76: the pool limits the goroutines to its capacity.
CapacityLimitsGoroutines == running <= capacity
=============================================================================

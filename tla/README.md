# A verification of psyweb

psyweb is a Go framework: a web engine with a router and middlewares, a
goroutine pool, an RPC client and server with registry, discovery and circuit
breaker, and a small ORM. This directory holds TLA+ models of these parts, TLC
configurations that check them on small instances, and proofs of the most
important properties for every instance. Paths below are relative to
`src/psygo/`.

    tlc -config Pool.cfg MCPool.tla       checks one configuration
    tlapm RpcClientProof.tla              checks the proofs of one module

## Inventory

| component | state | operations | what makes it correct |
|---|---|---|---|
| worker queue (`pool/worker_loop_queue.go`) | ring `items`, `head`, `tail`, `size`, `isFull` | insert, detach, refresh (binary search), reset, all under `Pool.lock` | a bounded FIFO; refresh evicts exactly the expired workers |
| goroutine pool (`pool/pool.go`, `worker.go`) | queue, `running`, `capacity`, `waiting`, `state`, condition variable, one channel per worker | Submit, Tune, Release, ReleaseTimeout, Reboot; worker and purger goroutines | a task runs once; no worker is shared or lost; nobody waits for ever; at most `capacity` goroutines |
| RPC client (`rpc/client.go`) | `seq`, `pending`, `closing`, `shutdown`, mutexes `sending` and `mu` | Go, Call, Close; send goroutines, one receive goroutine | each call completed once, by its own response; no call forgotten |
| RPC server (`rpc/server.go`, `service.go`) | per connection: codec, WaitGroup; per request: channels `called` and `sent` | ServeConn, serveCodec, handleRequest | each request answered once; the connection closed when the client is gone |
| circuit breaker (`rpc/breaker/breaker.go`) | `state`, `generation`, `counts`, `expiry` | Execute | opens after failures, waits for its timeout, decides when half-open |
| registry (`rpc/registry/registry.go`) | table of servers with start times; in each server a heartbeat loop | putServer, aliveServers, Heartbeat | a server that beats is listed, a dead one is forgotten |
| discovery (`rpc/xclient/discovery*.go`) | list, `lastUpdate`, `index`, `mu` | Update, Refresh, Get, GetAll | the list follows the registry |
| load-balancing client (`rpc/xclient/xclient.go`, dialling of `rpc/client.go`) | `clients`, `mu`; per Broadcast: error, reply, context | dial, Call, Broadcast, Close | one connection to an address and none left open; what is reported fits the calls |
| web engine (`psy.go`, `router.go`, `trie.go`) | a trie and handlers for each method, groups, `pool` of contexts | addRoute, getRoute, ServeHTTP | the most specific route; a context serves one request |
| request context and middlewares (`context.go`, `recovery.go`, `auth.go`, `log.go`, `token/JWTAuth.go`) | handlers and index, status, `Keys`; the goroutine's stack | Next, Abort, Fail, Render; Logger, Recovery, BasicAuth, AuthInterceptor | handlers once and in order; panics are answered |
| ORM (`orm/psyorm.go`, `orm/session`, `orm/clause`) | session: clauses, table, transaction; the database's transactions | Model, Where, OrderBy, Limit, statements; Begin, Commit, Rollback, Transaction | all changes or none; no clause gets into another statement |
| binding, render, logger, config, tracer | none worth modelling | formatting | - |

How they interact: submitters, workers and the purger share the pool's state,
by channels, atomics, a spin lock and a condition variable. An RPC client and
a server exchange messages over one connection; the server runs every request
through its breaker, which all connections share; a load-balancing client asks
the discovery for an address and keeps one RPC client for each; servers send
heartbeats to the registry, which the discovery reads over HTTP. `orderCenter`
is a program whose handler starts several goroutines that use one load-balancing
client. The web engine runs a request's handlers in one goroutine, where they
call each other through Next; a handler may call Transaction, whose deferred
function meets the panics that unwind the same stack.

What is hard here: shared counters read outside the lock that protects the
decision made with them (pool), unsynchronised state (breaker), three parties
that may complete the same call (client), a timeout that races with an answer
(server), wake-ups that come before the sleep (pool), one mutex held while a
connection is made (load-balancing client), requests and answers that get lost
(heartbeats), lists that are stale, panics that pass through several deferred
functions (web, ORM), and operations that are legal one by one and wrong in
sequence (Reboot after Release, statements after Commit). `PROJECT.json` lists these hazards at their lines.

## Modules

| module | models | checked by |
|---|---|---|
| `WorkerQueue` | what the pool relies on of its queue: a bounded FIFO | refined by `LoopQueue`; its actions are steps of `Pool` |
| `LoopQueue` | the ring buffer, and the stamps refresh searches for | `LoopQueue.cfg`, `LoopQueueProof` |
| `Pool` | submitters, workers, purgers and the controlling goroutine | `Pool.cfg`, `PoolLive.cfg`, `PoolCapacity.cfg`, `PoolReleaseBlocks.cfg`, `PoolProof` |
| `RpcClient` | the client end of a connection | `RpcClient.cfg`, `RpcClientProof` |
| `RpcServer` | the server end of a connection | `RpcServer.cfg`, `RpcServerBlocks.cfg`, `RpcServerProof` |
| `Breaker` | the circuit breaker and its callers | `Breaker.cfg`, `BreakerStuck.cfg`, `BreakerProof` |
| `Registry` | the table of the registry, and the heartbeat loops | as part of `XClient` |
| `Discovery` (extends `Registry`) | the lists of both discoveries and their users | as part of `XClient` |
| `XClient` (extends `Discovery`) | dialling, Call, Broadcast, Close, `orderCenter` | `XClient.cfg`, `XClientProof` |
| `Router` | the trie and the route of a path | as part of `App` |
| `Web` (extends `Router`) | ServeHTTP, contexts, handler chains, panics | as part of `App` |
| `Orm` | sessions, statements, Transaction | as part of `App` |
| `App` (extends `Web` and `Orm`) | a program that registers routes and serves requests with transactions | `App.cfg`, `AppProof` |

`FiniteInduction` models nothing: it holds the lemmas on induction and on sequences
that `LoopQueueProof`, `XClientProof` and `AppProof` share.

The `MC` modules only give TLC its constants. A definition whose comment says
"Mutant" is no part of a specification: it is a plausible mistake in the
operator that follows it, and shows which property would notice the mistake.

### WorkerQueue and LoopQueue

`LoopQueue` has the fields of `loopQueue` as variables and one action for each
of its operations. They run under `Pool.lock`, so each is atomic. The clock of
the pool is part of the module because of one line: `revertWorker` reads
`nowTime` before it takes the lock (`pool.go:427`), so `Stamp` and `Insert` are
two actions, and the queue need not be sorted by stamps. The binary search is
the recursive function `search` of the interval that is left, line by line, with
the set of the positions that are not expired; `RefreshEvictsExpired` compares
its outcome with a scan whenever the stamps are in queue order. When they are
not, refresh may return fewer workers than have expired (TLC finds this in a
few steps if the hypothesis is dropped); these workers stay until a later tick.

`ImplementsWorkerQueue` is refinement: the abstract queue is the sequence of the
`len` slots from `head` on. An insert that fails is no step of the queue, so what it
says of room is one direction: an insert that succeeds had room. `Pool` then uses the
operations of `WorkerQueue`.

### Pool

A worker object is in `cached` (new, or in `workerCache`), waits at its
`receive`, runs a task, and goes through `revert`, `lock` and `insert` of
`revertWorker` or through `exit`, `put` and the final Signal of its deferred
function. A submitter goes through Submit and `retrieveWorker`. The comparison
of `Cap()` with `Running()` and the increment of `running` in `run` are separate
steps, as are the comparison and the Wait of a submitter that finds the pool
full: the lock is released, or not taken by the other side, between them.
`sync.Cond` is its list of waiting goroutines, in order. A channel of capacity 0
(one processor) or 1 is one slot. What refresh takes is an arbitrary prefix of
the queue here: `LoopQueue` shows which.

refresh returns `wq.expiry`, one slice for all purgers, and the purger walks through
it after it has released the lock. So the memory behind it is in the model: `arrays`
are the arrays append has allocated, `expiry` which of them `wq.expiry` is in and how
many slots that has room for, `slice` which slots each purger has yet to visit. refresh
appends to the array there is, or to a new one when it has no room (`Spare` is what
append may allocate more than needed). purgeRead, purgeFinish and purgeClear are the
three accesses of the loop.
After a Reboot an old purger may still be walking while a new one refreshes: then
slots it has yet to visit are written over. `overwritten` says that this has happened.

The controlling goroutine calls Tune, Release, ReleaseTimeout and Reboot one
after the other. ReleaseTimeout's wait ends at any time with `ErrTimeout`. Its loop
is three steps, one for each atomic it reads, and any other goroutine may come in
between. A submitter that had passed its look at the state before Release can
therefore still start a worker and return nil after `Running()` was read as 0, and its
task is not waited for: a nil of ReleaseTimeout does not mean that every accepted
task has run. `NilMeansDrained` says what it does mean: the tasks whose Submit had
returned nil when 0 was read (`accepted`) have run.

`OneHolder` is the invariant behind most of the others: a worker is in one place
of the queue, or with one submitter, or with one purger, or has one message in
its channel, or runs. It is what makes a send never block, in particular the
sends in reset, which hold the lock. It holds until `overwritten`, and the theorem
says so: a worker in a slot that was written over is told twice to finish or never,
and finish may be called on nil (`panic`). The other invariants hold afterwards too,
except `NilMeansDrained`.

Two statements of the code's comments are not true of it, and a run shows each:
`CapacityLimitsGoroutines` (`pool.go:76`) and `NoCallerBlocksInfinitely`
(`pool.go:340-341`).

### RpcClient

One action for each critical section of `Client.mu` and for each access to the
connection. `sending` is a variable. `ctxDone` and `callCancelled` are two steps,
because Call reads `call.Seq` without a lock before removeCall takes the mutex.
The server is external: it may answer a number it has received, or 0, up to
`MaxAnswers` times. A body that cannot be decoded ends the receive loop, with
the connection still up.

A Write that fails is three steps: what was encoded is flushed, so the server may
have got the request (`sendWriteFails`), the connection is closed (`writeCloses`), and
send takes the call from pending (`sendFailed`). In between the server may answer and
receive complete the call: this is the case of `client.go:124-125`, and a writer that
completed the call whether it is pending or not would do it a second time (the mutant
`SendFailedAlwaysDone`).

### RpcServer

The unbuffered channels `called` and `sent` are rendezvous: one step for both
sides. Which of timeout, breaker and limiter are set is chosen in the initial
state. The option decoder may swallow requests that arrive together with the
option (`server.go:60`); then no later header can be decoded (`garbled`).
A response is written, or the encoding fails: then GobCodec.Write closes the
connection (`Break`, `conn` is "broken"), under the handlers that have not answered
yet, and of what the client sent only what is buffered can still be read. A response
on a closed connection is in `lost`. So `ClosedAfterAnswers` is about the connection
serveCodec closes: all responses have been written by then, and those that are missing
were lost to such a Write, by handlers that came to their response all the same. After
it the loop and all handlers end, as after a hang-up (`ClosedAfterHangUp`).
Between the two specifications of one connection, the server's answers in
`RpcClient` are the responses of this module, and the requests here are the
ones `RpcClient` writes.

With a breaker and a timeout together, a rejected request is answered twice, by
the rejection and by the timeout, so `AnsweredAtMostOnce` excludes that
configuration. The client drops the second answer (`ResponseReachesItsCall`
holds with any number of answers).

### Breaker

The breaker's mutex is held by NewGeneration only. Every other read and write is
a step of its own, as far as another goroutine can tell the difference: the two
values `currentState` returns, the test and the write of the state, the new
generation, and the read and the write of an increment. Which callers use the
breaker is chosen initially, so the same run has a part with one caller, where
the properties of the comments hold (`HalfOpenAdmits`, `OpenWaitsForTimeout`,
`HalfOpenDecides`), and one with two, where only `ExpiryFitsState` and `OpenEnds`
survive. With two, a request that was admitted before the breaker became
half-open is counted in the half-open state and uses up its limit
(`BreakerStuck.cfg`); and the state can be seen before its expiry is set, so that
an open breaker can be taken for one whose time is over.

### Registry, Discovery and XClient

`Registry` keeps for each address the age of its entry, up to the timeout. A
heartbeat may fail to arrive, or arrive and lose its answer; either ends the loop
for good, as in the code, and the server is forgotten although it runs. Servers
die and the registry restarts empty. A heartbeat that is due is sent, or has
failed, before the next unit of time: this is what a default of one unit less
than the timeout buys (`registry.go:100`).

In `Discovery` Get is two steps, Refresh and the selection, because each takes
`d.mu` for itself; between them the list may be replaced, by Update or by another
goroutine's Refresh, or have become empty. While RegistryDiscovery asks the
registry it keeps `d.mu`, so asking and storing are two steps with the mutex held.

`XClient` has one task for each address that Call or Broadcast uses. dial holds
`xc.mu` while it connects: the client of an address is reused if it is available,
closed and replaced if not. dialTimeout starts a goroutine that builds the client
(`build`), and gives up when the connect timeout is over. An end of the receive
loop of a cached client (`clientFails`) and Close may come at any time.
Broadcast's goroutines end in any order under its mutex. A call ends here with a
result, an error or its context; `RpcClient` is the detail of it. The goroutines
of `orderCenter` share one error variable, as in the program.

`SocketsAccounted` counts the connections: one for each cached client, one for
the dial under way, no other.

### Router

The trie is the sequence of its nodes in the order they were made, a node named
by the parts that lead to it. `way` follows insert down the trie: a part goes to
the first child that fits, and a wild child fits every part, so a route that is
registered after a wild one is merged into it. `search` is the depth-first search
with its return to the next child: what it finds at a node is a function of what
it finds at the children. `parsePattern`, `way` and `search` are recursive functions,
so that they can be proved about. `RouterFindsBest` compares it with a
definition that knows no trie: of the routes that match, the one that names its
parts where the others leave them open. The theorem for merged routes would be
false, and the property says so (`merged`). Parameters have the names of the
constant `Name`, as in the code: a name that stands twice keeps what was sent for its
last place, and a '*' alone has no parameter, so only for routes whose open parts have
names of their own (`namesApart`) the parameters give back the path. The routes of the
run have a repeated name and a '*' alone among them.

### Web

The stack of a request's goroutine is a sequence of frames: which handler, and
whether it is at its start, waits in Next or has come back from it. Next is a loop
in every frame and `index` is shared by all of them; `proceed` is one turn of the
innermost loop. Recovery is a frame whose deferred function runs when the stack
is unwound to it. `contexts` is what a pooled context keeps from the requests
before it: the user in `Keys`, which reset does not clear. The application's
handler does anything: answers, aborts, fails, calls Next again, panics.

`HandlersRunInOrder` says nothing of how a chain ends that BasicAuth has refused: its
comment promises an end that the code does not make (see below), and the model has
what the code does. Of the user in `Keys` it says what is true for every handler,
behind BasicAuth or not: behind a BasicAuth that let the request pass it is the user of
this request, and otherwise one who was let pass on the same context before, in a
request that is over.

### Orm and App

`Orm` is one session of a Transaction and what the database holds of it. A
statement collects clauses, may have a hook that runs statements before it, is
built, and clears the session whether it fails or not. `lost` stands for a Commit
whose answer never came. The deferred function of Transaction rolls back after a
panic or an error, and commits otherwise; runtime.Goexit is no panic for recover,
so it commits. In `App` the function of a Transaction runs inside the handler, so
its panic goes first through `ends`, then through `unwind`.

## Runs and bounds

| run | instance | distinct states |
|---|---|---|
| `loop_queue` | 3 slots, 4 workers, clock 0..3 | 370 000 |
| `pool` | 3 submitters, 3 workers, capacity 2, one Tune, Release, Reboot | 777 000 |
| `pool_live` | 2 submitters, 2 workers, capacity 1 | 165 000 |
| `rpc_client` | 2 calls, one answer for each number and one stray answer | 208 000 |
| `breaker` | 1 and 2 callers, limits 1 | 490 000 |
| `rpc_server` | 3 requests, one for an unknown method, 8 configurations | 191 000 |
| `xclient` | 2 servers, 2 goroutines; four kinds of use | 100 000 |
| `webapp` | 3 of 12 routes in every order and 9 paths; 2 requests and 2 contexts; 1 transaction of 2 statements | 354 000 |

The four other runs each look for one counterexample, on the smallest instance
that has one: `PoolCapacity.cfg`, `PoolReleaseBlocks.cfg`, `RpcServerBlocks.cfg`
and `BreakerStuck.cfg`.

Why these are enough for the interesting cases: with three slots and four
workers the ring fills, rejects, wraps in every position and is searched at
every length. With three submitters and capacity two, two workers are idle or
busy while the third submitter waits, is overloaded or comes late. Two calls are
enough for one to be registered while the other is written, answered or
terminated. Two callers give every race of the breaker between two of its steps;
limits of 1 let the breaker open, half-open and close within few requests.

The two larger compositions have a constant `Config` with the kinds of use, one
of which is chosen initially; each leaves out what the others are about. Those of
`XClient` are: the registry's clock with a goroutine that asks the discovery, one
that calls and one that broadcasts through one client, the two goroutines of an
order, and two goroutines that use a list given by the application. Two servers
give a Broadcast one success and one error in both orders, and a dial that waits
for the other's. Those of `App` are: routing alone; two requests with BasicAuth
and a panic that share contexts; the JWT interceptor between two Recoveries with
every kind of panic; an engine without a logger; and the transaction. Three
routes of twelve are enough for every pair to meet below a wild part, for a search
that has to turn back and for a route that is merged. One Reboot is enough for two
purgers to be alive. `Spare` is 0 in the runs: for at most two workers append
allocates exactly what is needed.

Symmetry is used only where no liveness is checked. `CHECK_DEADLOCK FALSE` is
set where the system may come to rest: all tasks done, all calls ended.

Every bound is a constant in a guard or an initial state: `MaxTime`, `MaxTunes`,
`MaxReleases`, `MaxReboots`, `MaxCap`, `Spare`, `MaxAnswers`, `MaxLimited`, `MaxStatements`,
`MaxIndex`, and the number of routes in `Config`; a function begins at most one
transaction more than the one it was given. The ages of entries and lists stop at
the timeout they are compared with. The breaker's counts stop one
above the values they are compared with, which loses nothing.

## Fairness

Weak fairness for every goroutine that can run: that is what the Go scheduler
gives. In `Pool` it includes that tasks end and that the purger's ticker keeps
firing; nothing is assumed of the controlling goroutine, except that a Release
it has begun goes on. In `RpcClient` it includes that the server answers a
request it has received while the connection is up: the client has no timeout of
its own, so without it a call waits for its context. Nothing makes a context
end, a connection break or a client close. In `RpcServer` calls return, and the
limiter refuses at most `MaxLimited` times: with a limiter that never gives a
token the loop does not end. In `Breaker` callers keep calling, requests return,
and time passes. In `XClient` a caller has strong fairness, because a Go mutex
does not let a waiting goroutine starve although each of its chances may be taken
by another one; users of the discovery keep asking, heartbeats that are due are
sent, and time passes. This is fairness for what the goroutines do by themselves
(`ownStep`). Nothing makes the goroutine that builds a client end, the registry answer
a request (Refresh has no timeout, and holds `d.mu` while it waits), or client.Call
return (it has no timeout of its own, and the server may never answer). The properties
state what they need of this: `ListConverges` that each request to the registry is
answered in the end, `CallsReturn` the same, a connect timeout, and that the calls
the goroutine itself has made to servers return. A server that never answers may keep
its own callers, and the property says that it keeps nobody else. TLC refutes it if
either hypothesis is dropped.

## Proofs

`RpcClientProof` proves, for every set of calls and every `MaxAnswers`, that
`TypeOK`, `DoneAtMostOnce`, `NoCallForgotten` and `ResponseReachesItsCall` are
invariants of `RpcClient!Spec`. The only assumption is `ClientAssumption`: `None`
is not a call and `MaxAnswers` is a natural number.

None of the three properties is inductive. `DoneAtMostOnce` needs to know who may
complete a call: a call that is pending, or that receive holds, is not done
(`Rights`), and receive's call is not in pending any more. That needs that the
entries of pending are distinct calls under their own numbers (`Numbered`), that
only the owner of `sending` is writing, and that nobody is when the client shuts
down (`Writing`): terminateCalls completes what is pending and leaves it there,
so a writer that fails after it would complete its call a second time. `Fresh`
says that a call which was not registered has left no trace, `Cancelling` that a
caller who gives up removes its own number or 0. The invariant `IInv` is the
conjunction; there is one step of the proof for each action.

`LoopQueueProof` proves, for rings of every size, every set of workers and every
expiry time, all the properties of `LoopQueue.cfg`, the refinement among them
(`QueueAssumption`: the size is positive, and nil is no worker). What is in a slot is
told by its position counted from the head (`Pos`, `Slot`), so that wrapping is in a
few lemmas on these two only.

- `RingInv`: how head, tail, size and isFull fit together (`Shape`), that a slot is in
  use exactly if its position is below the length (`Filled`), that no worker is in
  two slots, and that none about to be inserted is in the ring already. Each
  operation is a step on the positions: insert fills the first free one, refresh
  and detach drop the first ones (`Dropped`).
- `RefreshEvictsExpired` is an action property: its core is `BinarySearchFinds`, that
  with ascending stamps the loop ends at the last expired position, by induction on
  the length of the interval that is left.
- `ImplementsWorkerQueue`: a step of the ring is a step of `WorkerQueue` on the
  sequence `Fifo`, or leaves it alone.

`PoolProof` proves, for every finite set of submitters and workers, every capacity and
every bound on Tune, Release and Reboot, all the safety properties of `Pool.cfg`. The
assumption is `PoolAssumption`: the capacity is positive, submitters and workers are
finite and distinct from each other and from the tokens `None`, `ctl` and `finish`, and
the options have their types.

- Types and counters: the types are inductive by themselves, except that nothing in
  them keeps `running - 1` and `waiting - 1` from being negative. `Counters`
  does: each counter is the number of goroutines between two of their program
  points. `ReleasedStaysEmpty` follows from `ReleaseInv`: whoever is in a
  critical section owns the lock, so when reset ends no worker is at its insert,
  and afterwards none passes the second look at the state.
- `IdleNeverOverlooked` needs `IdleInv`: the list of the condition holds sleepers, each
  once (`Sleepers`), and from a submitter's look at the empty queue until it sleeps
  the queue stays empty, since the lock is its own (`NoneIdle`). Then the number of
  idle workers grows by one only with a Signal, which wakes one more sleeper.
- `OneHolder` follows from `Hands`: as long as no slot has been written over, the
  workers queued, held by submitters, in slots that purgers have yet to visit, with a
  message, and away from their receive partition `Worker`, no place of one kind is
  shared, and no two purgers go through one slot (`SlotsApart`). Each step moves one
  worker, or a prefix of the queue, between two of the five sets. That a send
  finds its channel empty is a consequence, not an assumption. What an old purger and
  a refresh can have in common is in `HoldersAt`: slots, and nothing else.
- `TaskRunsExactlyOnce` is inductive once a goroutine has a task
  exactly while it runs it. `NilMeansDrained` uses all of it: `running = 0`
  means that every worker is cached or about to be, by `Counters`; then no
  channel holds a task, by `Hands`, and none is being run. What was accepted at that
  read has run then, and stays so through the two reads that follow (`PolledAll`).

`RpcServerProof` proves the safety properties of `RpcServer.cfg` for every finite
set of requests (`ServerAssumption`). `Counted` makes the WaitGroup the number of
handlers that have not ended, `Fresh` says that what is still in the stream, or
just being read, has left no trace, and `Paired` gives for each request the
possible pairs of positions of its handler and of the goroutine of its call, with
the number of answers in each, written or lost: where both breaker and timeout are set
only a lower bound on the answers is left. `Closing` and `Losing` say that only
serveCodec closes the connection without breaking it, at its end, and that a response
is lost only on a connection that a Write has broken.

`BreakerProof` proves the safety properties of `Breaker.cfg` for every finite set
of callers, every `MaxRequests`, threshold and interval (`BreakerAssumption`).
`ExpiryFitsState` is inductive as it stands. `HalfOpenAdmits` and
`OpenWaitsForTimeout` need `Lone`: what the only caller knows of the state at
each step, and by how much requests is ahead of successes.

`XClientProof` proves the safety properties of `XClient.cfg` for every finite set of
servers, every set of callers, lists and kinds of use, and every timeout
(`RegistryAssumption`, `DiscoveryAssumption`, `XClientAssumption`; the ones that
are not plain types are that a default timeout is longer than one unit and that
an order has a goroutine). For `TypeOK` that the lists of the discoveries are
sequences of servers is the point: the registry answers with the sorted list of the
servers alive, which exists because a finite set can be listed (`AscendingList`). There are three more invariants, each with one step for
each action.

- `BeatInv`: the age of a beating server's entry is at most the time since its
  ticker fired, which stays below the period; so the entry is younger than the
  timeout unless a heartbeat is due, and then it is sent before time passes.
- `SocketInv` adds `Dials` to `SocketsAccounted`: `xc.mu` is held by exactly the dial
  under way, so there is at most one, and no client is cached for its address.
- `AnswerInv`: `Fits` is what Broadcast's error, reply and context say of the calls
  that have ended so far (a call that was cancelled has an error before it, which
  is the one that counts), and `Orders` that the shared error of `orderCenter` is
  that of one of its goroutines. Both need `Quiet`: a goroutine that is not in a
  call has left no trace.

`AppProof` proves all the invariants of `App.cfg`, `TypeOK` and `RouterFindsBest` among
them, for every set of requests, contexts, paths and routes, every sequence of
groups with any middlewares, every `MaxStatements` and every kind of program.
`AppAssumption` says that sessions are requests, that paths and patterns are
sequences of parts, and that the members of a `Config` have their types. One of them
is more than a type: no program registers the empty string as a pattern. The code
takes an empty pattern for none, so such a route is never found.

- `OrmInv`: while a function that leaves Begin, Commit and Rollback alone runs, it
  has one transaction, open, which holds exactly its changes, and nothing is
  stored (`Transacts`); the clauses set are those that were given (`Clauses`).
- `WebInv`: what is true of a request that is served is `Serving`. `Called`: the
  handlers entered are the first `index` ones until one aborts. `Stacked`: frames
  stand in the order of their handlers, all but the top wait in Next, and a frame
  that has come back has seen the chain end. `Guarded`: a Recovery that was entered
  is on the stack, or nothing above it is and nothing will be. This is what makes
  `Caught` true when the handler, which is the last of its chain, panics: every
  Recovery entered waits below it. `Panicking` keeps it while the stack unwinds.
  `Keyed`: a BasicAuth that was entered with a known user has left the user in the
  context, or is just about to.
- `AppTypes` adds the types: what is sent is one of the statuses of the code, no
  frame is left when a request has ended (`Answered`), and what a function has done
  in its transaction, or stored, is no more than its statements (`Bounded`).
- `Inside` joins them: a transaction that is running has the application's handler
  on top of its request's stack, so the engine does not move until it has ended.

Lemmas about operators (`Proceed`, `Returns`, `CallsNext`, `Writes`, `Aborts`, `Raises`,
`Pops`, `Recovers`) carry the web part: each says what one operator does to any
request that satisfies `Serving`.

The router is proved in four parts, each a section of `AppProof`.

- The recursive functions: `parsePattern` gives parts of which only the last may be a
  star, `way` begins at the root and adds one part at each height, and `insert` makes
  the nodes that are missing below what is known of the way.
- `RouterInv`, the inductive invariant: every trie has the shape of one (`TrieShape`),
  and as long as no route is merged, it is the trie of its routes (`TrieExact`): its
  nodes differ, each one leads to a route, each route has a node at every height,
  a wild child is the last of its node, and a node has the pattern of the last route
  with its parts. That no route is merged is what makes the way of a new one its own
  (`WayIsOwn`), and what keeps a static child from coming behind a wild one. The
  invariant was checked on `App.cfg` before it was proved.
- `SearchFindsBest`: below a node with the first parts of the path the search finds the
  best of the routes that match, or there is none, by induction on the number of
  parts that are left. The children are tried in order and the wild one is the last,
  so the first child with an answer has the best one.
- The parameters: what is sent for the open parts, put together by `FlattenSeq`, is
  the path (`FilledIsSent`); and the number of the handler is that of the last
  route with the pattern found.

Induction over data is needed for all of this, and for the ring. The library's
theorems for it take an operator as a parameter, which no prover here can
instantiate. `FiniteInduction` states induction for sets instead: a set that has 0 and
the successor of each of its numbers has all of them (`NatSetInduction`). It follows
from the library's theorem that strict inclusion is well founded on the finite
subsets of a set. `NatRecursion` says with it what a recursive function on an interval
is; the functions on other domains (`search` of both modules) have an induction of
their own on what is left to do.

Only checked by TLC: the liveness properties. Liveness under fairness and ENABLED
are out of the reach of the proof system.

## What the models show and the code's words do not

Four statements have a run that refutes them (`findings` in `PROJECT.json`). These
were met while modelling as well; the models have what the code does:

- BasicAuth's comment says "we return 401 and abort handlers chain" (`auth.go:55`).
  It returns without Abort, so the next handlers run; only the first status counts.
  No property asserts either of the two.
- Recovery's `err.(error)` panics itself for a value that is no error
  (`recovery.go:30` promises a 500); the panic goes on to the next Recovery.
- reset leaves `Keys` and `Errors` of the last request in a pooled context, so a
  handler may find the user of that one (`HandlersRunInOrder` says whose it can be).
- Broadcast to an empty list calls nobody and returns nil.
- After Commit or Rollback the session keeps the ended transaction, so its next
  statements fail. A second Begin forgets the first transaction; when it fails the
  transaction is nil and the deferred Rollback panics. A function ended by
  runtime.Goexit is committed.
- Two purgers share `wq.expiry` after a Reboot, and a worker may be lost or told twice
  to finish; a nil of ReleaseTimeout may come before an accepted task has run (see Pool).
- When the encoding of one response fails the connection is closed, and the other
  calls on it are not answered.
- A hook that runs a statement clears the WHERE of the statement that called it.
- A route registered after a wild one at the same part is merged into it.
- The goroutines of `orderCenter` share one error: the answer is that of the last.
- The goroutine that builds a client blocks for ever after a connect timeout.

## Not modelled

The components with status `not_modelled` in `PROJECT.json` (spin lock, binding and
rendering, logger, configuration and tracing, debug page) keep no state that two
steps could see differently, or are locks and formatting. Of the modelled parts:

- pool: sizes that are not positive (`NewPool` panics for them), concurrent control
  calls of one pool, panic handlers;
- breaker: the fallback and state-change callbacks;
- RPC: Accept and the start of servers, gob, which methods a service registers;
- web: templates and static files, queries, forms, files and cookies, the text of
  logs, and how tokens are made, signed and refreshed; several methods, since each
  has a trie of its own;
- the demonstration programs except `orderCenter`: they only register handlers;
- ORM: Migrate, HasTable, CreateTable and DropTable, which are sequences of
  statements outside the database's transactions, a Raw statement that defines data
  (MySQL commits what was done before it), the reading of rows, and the text of SQL.

## Plan

1. The ORM's migration: the statements that copy a table, with the database's
   implicit commits, and the connection HasTable keeps.
2. `Pool` with two controlling goroutines.
3. An abstract specification of what a caller may expect of a call, refined by
   `RpcClient`, as the call of `XClient`.
4. Proofs: every safety property that a run checks is proved. What is left is what the
   steps above add: the refinement of an abstract call by `RpcClient`, step by step,
   and the invariants of `Pool` with two controlling goroutines.

------------------------------- MODULE XClient -------------------------------
(***************************************************************************)
(* The load-balancing client, psygo/rpc/xclient/xclient.go, the dialling   *)
(* of psygo/rpc/client.go, and a program that uses them, the handlers of   *)
(* orderCenter/main.go.  It composes Discovery and Registry: Call asks the *)
(* discovery for an address, Broadcast for all of them, and each address   *)
(* called is a task: dial, which finds or makes a client under xc.mu, then *)
(* the call.  What a client does with a call is module RpcClient; here it  *)
(* ends, with a response or an error.                                      *)
(***************************************************************************)
EXTENDS Discovery

CONSTANTS Config,   \* what the runs are about: see ConfigType
          Calling,  \* what each of Caller uses: "call", "broadcast", or both
          Lists     \* the lists the application may give to Update

VARIABLES
    config,     \* the kind of run
    op,         \* what each goroutine is doing: "idle", "call" or "broadcast"
    task,       \* task[c][s]: where the call of c to the server s is
    result,     \* result[c][s]: how it ended
    xmu,        \* the task that holds xc.mu: <<c, s>>, or None
    clients,    \* xc.clients: the state of the client cached for an address
    sockets,    \* open connections to each address
    building,   \* the goroutine that makes the client, for the dial under way
    err,        \* e of Broadcast, err of Call; "nil", "failed" or "cancelled"
    cancelled,  \* Broadcast has cancelled its context
    replyFrom,  \* the servers whose reply was stored in the caller's reply
    lastErr,    \* orderCenter: the variable err its goroutines share
    answer      \* orderCenter: what the handler answered

taskvars == <<task, result, xmu, clients, sockets, building>>
xvars == <<op, taskvars, err, cancelled, replyFrom, lastErr, answer>>
vars == <<config, registryvars, discoveryvars, xvars>>

\* user: the goroutines call the discovery directly, or use one XClient for
\* Call and Broadcast, or are the goroutines of one request to orderCenter.
\* callers: those of them there are.  connectTimeout: Option.ConnectTimeout is
\* not 0.  clock: the run is long enough for units of time to pass; without it
\* the registry and its table stay what they are.
ConfigType == [discovery : {"multi", "registry"}, user : {"direct", "xclient", "order"},
               callers : SUBSET Caller, connectTimeout : BOOLEAN, clock : BOOLEAN]

ASSUME XClientAssumption ==
    /\ Config \subseteq ConfigType /\ Lists \subseteq SUBSET Server
    /\ \A k \in Config : k.user = "order" => k.callers # {}
    /\ None \notin Caller \X Server

Outcome == {"nil", "failed", "cancelled"}

TypeOK ==
    /\ RegistryTypeOK /\ DiscoveryTypeOK
    /\ config \in Config
    /\ op \in [Caller -> {"idle", "call", "broadcast", "done"}]
    /\ task \in [Caller -> [Server -> {"none", "dial", "build", "call", "finish",
                                       "done"}]]
    /\ result \in [Caller -> [Server -> Outcome]]
    /\ xmu \in (Caller \X Server) \cup {None}
    /\ clients \in [Server -> {"none", "available", "shutdown"}]
    /\ sockets \in [Server -> Nat]
    /\ building \in {"none", "running", "client", "error"}
    /\ err \in [Caller -> Outcome]
    /\ cancelled \in [Caller -> BOOLEAN]
    /\ replyFrom \in [Caller -> SUBSET Server]
    /\ lastErr \in Outcome
    /\ answer \in {"none", "succeed", "failed", "closed"}

Init ==
    /\ config \in Config
    /\ IF config.clock THEN RegistryInit ELSE \E S \in Lists : registered(S)
    /\ DiscoveryInit
    /\ config.user # "direct" => index = 0    \* random selection does not look at it
    /\ kind = config.discovery
    /\ IF kind = "multi" THEN \E S \in Lists : list = inOrder(S) ELSE list = <<>>
    /\ op = [c \in Caller |-> "idle"]
    /\ task = [c \in Caller |-> [s \in Server |-> "none"]]
    /\ result = [c \in Caller |-> [s \in Server |-> "nil"]]
    /\ xmu = None
    /\ clients = [s \in Server |-> "none"]
    /\ sockets = [s \in Server |-> 0]
    /\ building = "none"
    /\ err = [c \in Caller |-> "nil"]
    /\ cancelled = [c \in Caller |-> FALSE]
    /\ replyFrom = [c \in Caller |-> {}]
    /\ lastErr = "nil" /\ answer = "none"

taskAt(c, s, from, to) ==
    task[c][s] = from /\ task' = [task EXCEPT ![c][s] = to]

\* call returns: its outcome goes to the goroutine that made it.
taskEnds(c, s, from, r) ==
    taskAt(c, s, from, "finish") /\ result' = [result EXCEPT ![c][s] = r]
----------------------------------------------------------------------------
(* dial *)

\* A mutant of dropClient: an unavailable client is forgotten, not closed.
forgetClient(s) == sockets

\* An unavailable client is closed before it is dropped from the cache.
dropClient(s) ==
    IF clients[s] = "shutdown" THEN [sockets EXCEPT ![s] = @ - 1] ELSE sockets

\* XDial and dialTimeout: the connection is made and a goroutine starts to build
\* the client on it, while xc.mu stays locked; or it cannot be made.
XDial(c, s) ==
    \/ /\ taskAt(c, s, "dial", "build")
       /\ xmu' = <<c, s>>
       /\ sockets' = [dropClient(s) EXCEPT ![s] = @ + 1]
       /\ building' = "running"
       /\ UNCHANGED result
    \/ /\ taskEnds(c, s, "dial", "failed")
       /\ sockets' = dropClient(s)
       /\ UNCHANGED <<xmu, building>>

\* dial takes xc.mu; an available client is the result at once.
dial(c, s) ==
    /\ xmu = None
    /\ IF clients[s] = "available"
         THEN taskAt(c, s, "dial", "call") /\ UNCHANGED <<result, xmu, clients, sockets, building>>
         ELSE clients' = [clients EXCEPT ![s] = "none"] /\ XDial(c, s)

\* NewClient and NewHTTPClient write the option and read the server's consent;
\* for http the server may never give it.
build ==
    /\ building = "running" /\ building' \in {"client", "error"}
    /\ UNCHANGED <<task, result, xmu, clients, sockets>>

\* The result arrives on ch: the client is cached, or the connection closed.
dialReturns(c, s) ==
    /\ building \in {"client", "error"} /\ building' = "none"
    /\ xmu' = None
    /\ IF building = "client"
         THEN /\ taskAt(c, s, "build", "call")
              /\ clients' = [clients EXCEPT ![s] = "available"]
              /\ UNCHANGED <<result, sockets>>
         ELSE /\ taskEnds(c, s, "build", "failed")
              /\ sockets' = [sockets EXCEPT ![s] = @ - 1]
              /\ UNCHANGED clients

\* The connection is closed when the timeout is over; the goroutine that builds
\* the client goes on without it, and blocks for ever on its own ch, which
\* nobody receives from.
giveUp(c, s) ==
    /\ config.connectTimeout
    /\ taskEnds(c, s, "build", "failed")
    /\ building' = "none"
    /\ sockets' = [sockets EXCEPT ![s] = @ - 1]
    /\ UNCHANGED clients

\* A mutant of dialTimesOut: the return on a timeout leaves xc.mu locked.
returnsLocked(c, s) == giveUp(c, s) /\ UNCHANGED xmu

\* The timeout is over first.
dialTimesOut(c, s) == giveUp(c, s) /\ xmu' = None

\* client.Call: a response, an error of the server or of the connection, or the
\* end of the context.
callEnds(c, s) ==
    /\ \/ taskEnds(c, s, "call", "nil")
       \/ taskEnds(c, s, "call", "failed")
       \/ cancelled[c] /\ taskEnds(c, s, "call", "cancelled")
    /\ UNCHANGED <<xmu, clients, sockets, building>>

\* The receive loop of a client ends: it is not available any more, and nobody
\* has closed its connection.
clientFails(s) ==
    /\ clients[s] = "available"
    /\ clients' = [clients EXCEPT ![s] = "shutdown"]
    /\ UNCHANGED <<task, result, xmu, sockets, building>>

\* A mutant of closed: a connection is closed where there is none.
closedEverywhere == [s \in Server |-> sockets[s] - 1]

closed == [s \in Server |-> IF clients[s] = "none" THEN sockets[s] ELSE sockets[s] - 1]

\* XClient.Close.
closeClients ==
    /\ xmu = None
    /\ sockets' = closed
    /\ clients' = [s \in Server |-> "none"]
    /\ UNCHANGED <<task, result, xmu, building>>

taskSteps(c, s) ==
    dial(c, s) \/ dialReturns(c, s) \/ dialTimesOut(c, s) \/ callEnds(c, s)
----------------------------------------------------------------------------
(* Call and Broadcast *)

begin(c, o, m) ==
    /\ op[c] = "idle" /\ op' = [op EXCEPT ![c] = o]
    /\ Get(c, m)

\* The discovery has answered: one task for each address.  Without an address
\* Call returns the error; GetAll has none to give, so Broadcast to an empty
\* list goes on with no task and returns nil.
startTasks(c) ==
    /\ op[c] \in {"call", "broadcast"} /\ getReturns(c)
    /\ IF getter[c] = "failed"
         THEN /\ err' = [err EXCEPT ![c] = "failed"]
              /\ UNCHANGED task
         ELSE /\ task' = [task EXCEPT ![c] =
                             [s \in Server |-> IF s \in got[c] THEN "dial" ELSE "none"]]
              /\ UNCHANGED err
    /\ UNCHANGED <<op, result, xmu, clients, sockets, building, cancelled, replyFrom, lastErr,
                   answer>>

\* A mutant of firstError: a later error replaces the first one.
lastError(c, s) == IF result[c][s] # "nil" THEN result[c][s] ELSE err[c]

firstError(c, s) ==
    IF result[c][s] # "nil" /\ err[c] = "nil" THEN result[c][s] ELSE err[c]

\* The end of a goroutine of Broadcast, under its mutex: the first error is kept
\* and cancels the other calls, the first success fills the reply.
finishTask(c, s) ==
    /\ op[c] = "broadcast" /\ taskAt(c, s, "finish", "done")
    /\ err' = [err EXCEPT ![c] = firstError(c, s)]
    /\ cancelled' = [cancelled EXCEPT ![c] = @ \/ err[c] # firstError(c, s)]
    /\ replyFrom' = IF result[c][s] = "nil" /\ replyFrom[c] = {}
                      THEN [replyFrom EXCEPT ![c] = {s}] ELSE replyFrom
    /\ UNCHANGED <<op, result, xmu, clients, sockets, building, lastErr, answer>>

\* The one task of Call is Call itself.
finishCall(c, s) ==
    /\ op[c] = "call" /\ taskAt(c, s, "finish", "done")
    /\ err' = [err EXCEPT ![c] = result[c][s]]
    /\ replyFrom' = IF result[c][s] = "nil" THEN [replyFrom EXCEPT ![c] = {s}] ELSE replyFrom
    /\ UNCHANGED <<op, result, xmu, clients, sockets, building, cancelled, lastErr, answer>>

ended(c) == getter[c] = "idle" /\ \A s \in Server : task[c][s] \in {"none", "done"}

\* wg.Wait of Broadcast, and the return of both; their variables are gone.  A
\* goroutine of orderCenter stores the error in the variable all of them share,
\* and ends.
return(c) ==
    /\ op[c] \in {"call", "broadcast"} /\ ended(c)
    /\ op' = [op EXCEPT ![c] = IF config.user = "order" THEN "done" ELSE "idle"]
    /\ task' = [task EXCEPT ![c] = [s \in Server |-> "none"]]
    /\ result' = [result EXCEPT ![c] = [s \in Server |-> "nil"]]
    /\ cancelled' = [cancelled EXCEPT ![c] = FALSE]
    /\ replyFrom' = [replyFrom EXCEPT ![c] = {}]
    /\ IF config.user = "order"
         THEN lastErr' = err[c] /\ UNCHANGED err
         ELSE err' = [err EXCEPT ![c] = "nil"] /\ UNCHANGED lastErr
    /\ UNCHANGED <<xmu, clients, sockets, building, answer>>
----------------------------------------------------------------------------
(* The handler of orderCenter: its goroutines have been started; when all have
   ended it answers, and its deferred call closes the clients. *)

orderAnswers ==
    /\ config.user = "order" /\ answer = "none"
    /\ \A c \in config.callers : op[c] = "done"
    /\ answer' = IF lastErr = "nil" THEN "succeed" ELSE "failed"
    /\ UNCHANGED <<op, taskvars, err, cancelled, replyFrom, lastErr>>

orderCloses ==
    /\ answer \in {"succeed", "failed"} /\ answer' = "closed"
    /\ closeClients
    /\ UNCHANGED <<op, err, cancelled, replyFrom, lastErr>>
----------------------------------------------------------------------------
restvars == <<op, err, cancelled, replyFrom, lastErr, answer>>

callerStep(c) ==
    \/ getNext(c) /\ UNCHANGED <<config, xvars>>
    \/ startTasks(c) /\ UNCHANGED <<config, registryvars>>
    \/ /\ \/ \E s \in Server : \/ taskSteps(c, s) /\ UNCHANGED restvars
                               \/ finishTask(c, s) \/ finishCall(c, s)
          \/ return(c)
       /\ UNCHANGED <<config, registryvars, discoveryvars>>

\* A user of the discovery itself: it calls Get or GetAll again and again.
asks(c) ==
    /\ config.user = "direct" /\ c \in config.callers
    /\ \/ getReturns(c)
       \/ "call" \in Calling[c] /\ Get(c, "roundRobin")
       \/ "broadcast" \in Calling[c] /\ Get(c, "all")
    /\ UNCHANGED <<config, registryvars, xvars>>

calls(c) ==
    /\ c \in config.callers
    /\ \/ /\ config.user = "order" \/ (config.user = "xclient" /\ "call" \in Calling[c])
          /\ begin(c, "call", "random")
       \/ /\ config.user = "xclient" /\ "broadcast" \in Calling[c]
          /\ begin(c, "broadcast", "all")
    /\ UNCHANGED <<config, registryvars, taskvars, err, cancelled, replyFrom, lastErr, answer>>

timePasses == config.clock /\ tick /\ UNCHANGED <<config, xvars>>

beats(s) == sendHeartbeat(s) /\ UNCHANGED <<config, discoveryvars, xvars>>

environment ==
    \/ timePasses
    \/ config.clock /\ registryNext /\ UNCHANGED <<config, discoveryvars, xvars>>
    \/ /\ kind = "multi" /\ config.user = "direct"
       /\ \E S \in Lists : Update(S)
       /\ UNCHANGED <<config, registryvars, xvars>>
    \/ /\ \/ \E s \in Server : clientFails(s)
          \/ config.user = "xclient" /\ closeClients
       /\ UNCHANGED <<config, registryvars, discoveryvars, restvars>>

builder == build /\ UNCHANGED <<config, registryvars, discoveryvars, restvars>>

order == (orderAnswers \/ orderCloses) /\ UNCHANGED <<config, registryvars, discoveryvars>>

Next ==
    \/ \E c \in Caller : callerStep(c) \/ asks(c) \/ calls(c)
    \/ environment \/ builder \/ order

\* A step of c that is neither the answer of the registry nor the end of a
\* client.Call: what its goroutines do by themselves.
ownStep(c) ==
    /\ callerStep(c)
    /\ getter[c] # "store"
    /\ \A s \in Server : task[c][s] = "call" => task'[c][s] = "call"

\* Go's mutexes let no goroutine starve, so a caller that can go on again and
\* again does; a server sends what is due, and time passes.  Nothing makes the
\* goroutine that builds a client come to an end, the registry answer, or a
\* client.Call return: a property that needs one of them says so.
Fairness ==
    /\ \A c \in Caller : SF_vars(ownStep(c)) /\ WF_vars(asks(c))
    /\ \A s \in Server : WF_vars(beats(s))
    /\ SF_vars(timePasses)

Spec == Init /\ [][Next]_vars /\ Fairness
----------------------------------------------------------------------------
\* Every open connection is that of the client cached for its address or of the
\* dial under way to it: none is left open by a dial that failed or timed out, by
\* a client that broke down and was replaced, or by Close, however these fall
\* together, and there is never a second one to an address (xclient.go:23: clients
\* are reused, and Close closes the connections that were made).
SocketsAccounted ==
    \A s \in Server :
        sockets[s] = (IF clients[s] # "none" THEN 1 ELSE 0)
                     + (IF \E c \in Caller : task[c][s] = "build" THEN 1 ELSE 0)

\* What Broadcast reports fits what happened to its calls, in whatever order they
\* end: the error is nil as long as no call has failed, it is one that really
\* happened and never the cancellation Broadcast caused itself, and the reply is
\* that of one server that answered.  A request to orderCenter, whose goroutines
\* overwrite each other's error, succeeds only if one of its calls did.
AnswersFitCalls ==
    /\ \A c \in Caller :
         LET called == {s \in Server : task[c][s] = "done"}
             succeeded == {s \in called : result[c][s] = "nil"}
         IN op[c] = "broadcast" /\ called # {} =>
              /\ err[c] = "nil" <=> succeeded = called
              /\ err[c] # "cancelled"
              /\ replyFrom[c] = {} <=> succeeded = {}
              /\ \A s \in replyFrom[c] : replyFrom[c] = {s} /\ s \in succeeded
    /\ answer = "succeed" => \E c \in config.callers : err[c] = "nil"
    /\ answer = "failed" => \E c \in config.callers : err[c] # "nil"

\* With a connect timeout, and as long as the registry answers when it is asked, a
\* Call or Broadcast whose own calls to the servers return does not last for ever,
\* though a server may never finish the connection, and though all wait for each
\* other at xc.mu, which dial holds while it connects: a server that never answers
\* keeps nobody but those who called it (client.Call has no timeout of its own).
CallsReturn ==
    config.connectTimeout /\ []<>(dmu = None) =>
        \A c \in Caller :
            (\A s \in Server : []<>(task[c][s] # "call")) => []<>(op[c] \in {"idle", "done"})
=============================================================================

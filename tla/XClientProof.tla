---------------------------- MODULE XClientProof ----------------------------
(* Proofs of the safety properties of XClient that XClient.cfg checks. *)
EXTENDS XClient, FiniteInduction, TLAPS

USE DEF registryvars, discoveryvars, taskvars, xvars, restvars, vars
----------------------------------------------------------------------------
(* The registry *)

fitting == Duration < Timeout /\ (Duration = 0 => Timeout = DefaultTimeout)

RegistryTypes ==
    /\ servers \in [Server -> Nat \cup {None}]
    /\ heard \subseteq Server
    /\ heartbeat \in [Server -> {"off", "due", "wait", "ended"}]
    /\ ticker \in [Server -> Nat]

\* The age of the entry of a loop that is running is bounded by the time since
\* its last heartbeat.
Beats ==
    /\ \A s \in Server : ticker[s] < period /\ (heartbeat[s] = "off" => s \notin heard)
    /\ fitting => \A s \in heard :
          /\ heartbeat[s] = "wait" => servers[s] \in 0..ticker[s]
          /\ heartbeat[s] = "due" => servers[s] \in 0..period

BeatInv == RegistryTypes /\ Beats

LEMMA PeriodFits == period \in Nat \ {0} /\ (fitting => period < Timeout)
  BY RegistryAssumption DEF period, fitting

\* A step of Next leaves the registry alone, or is one of its own.
LEMMA RegistrySteps ==
    ASSUME [Next]_vars
    PROVE \/ UNCHANGED registryvars
          \/ forgetDead /\ UNCHANGED <<registryUp, heard, heartbeat, ticker>>
          \/ registryTick \/ registryStops \/ registryStarts
          \/ \E s \in Server : Heartbeat(s) \/ sendHeartbeat(s) \/ serverDies(s)
<1>1. CASE UNCHANGED vars
  BY <1>1
<1>2. CASE \E c \in Caller : callerStep(c)
  BY <1>2 DEF callerStep, getNext, Refresh, storeList, select
<1>3. CASE \E c \in Caller : asks(c) \/ calls(c)
  BY <1>3 DEF asks, calls
<1>4. CASE environment
  BY <1>4 DEF environment, timePasses, tick, registryNext, beats
<1>5. CASE builder \/ order
  BY <1>5 DEF builder, order
<1> QED
  BY <1>1, <1>2, <1>3, <1>4, <1>5 DEF Next

LEMMA BeatInit == Init => BeatInv
<1> SUFFICES ASSUME Init PROVE BeatInv
  OBVIOUS
<1>1. CASE RegistryInit
  BY <1>1, PeriodFits DEF RegistryInit, BeatInv, RegistryTypes, Beats
<1>2. CASE \E S \in Lists : registered(S)
  <2>1. PICK S \in Lists : registered(S)
    BY <1>2
  <2>2. S \subseteq Server
    BY XClientAssumption
  <2>3. RegistryTypes
    BY <2>1, <2>2 DEF registered, RegistryTypes
  <2>4. \A s \in Server : /\ ticker[s] = 0
                          /\ heartbeat[s] = IF s \in heard THEN "wait" ELSE "off"
                          /\ s \in heard => servers[s] = 0
    BY <2>1 DEF registered
  <2> QED
    BY <2>3, <2>4, PeriodFits DEF BeatInv, RegistryTypes, Beats
<1> QED
  BY <1>1, <1>2 DEF Init

LEMMA BeatStep == BeatInv /\ [Next]_vars => BeatInv'
<1> SUFFICES ASSUME BeatInv, [Next]_vars PROVE BeatInv'
  OBVIOUS
<1> USE DEF BeatInv, RegistryTypes, Beats
<1>c. (period = period') /\ (fitting = fitting')
  BY DEF period, fitting
<1>1. CASE UNCHANGED registryvars
  BY <1>1, <1>c
<1>2. CASE forgetDead /\ UNCHANGED <<registryUp, heard, heartbeat, ticker>>
  <2>1. ASSUME fitting, NEW s \in heard, beating(s) PROVE s \in alive
    <3>1. servers[s] \in Nat /\ servers[s] <= period
      BY <2>1, PeriodFits DEF beating
    <3> QED
      BY <2>1, <3>1, PeriodFits, RegistryAssumption DEF alive
  <2>2. RegistryTypes'
    BY <1>2 DEF forgetDead
  <2>3. ASSUME fitting, NEW s \in heard, beating(s) PROVE servers'[s] = servers[s]
    BY <2>1, <2>3, <1>2 DEF forgetDead
  <2> QED
    BY <1>2, <1>c, <2>2, <2>3 DEF beating
<1>3. CASE registryTick
  <2>1. RegistryTypes'
    BY <1>3 DEF registryTick
  <2>2. \A s \in Server : ticker'[s] < period
    BY <1>3, PeriodFits DEF registryTick
  <2>3. \A s \in Server : heartbeat'[s] = "off" => heartbeat[s] = "off"
    BY <1>3 DEF registryTick
  <2>4. ASSUME fitting, NEW s \in heard, heartbeat'[s] \in {"wait", "due"}
        PROVE /\ heartbeat[s] = "wait" /\ servers[s] \in 0..ticker[s]
              /\ servers'[s] \in 0..(ticker[s] + 1)
              /\ heartbeat'[s] = "wait" => ticker'[s] = ticker[s] + 1
    <3>1. heartbeat[s] = "wait"
      BY <1>3, <2>4 DEF registryTick
    <3>2. servers[s] \in 0..ticker[s]
      BY <2>4, <3>1
    <3>3. servers'[s] \in 0..(ticker[s] + 1)
      BY <1>3, <3>2, RegistryAssumption DEF registryTick
    <3>4. heartbeat'[s] = "wait" => ticker'[s] = ticker[s] + 1
      BY <1>3, <3>1, PeriodFits DEF registryTick
    <3> QED
      BY <3>1, <3>2, <3>3, <3>4
  <2>5. heard' = heard
    BY <1>3 DEF registryTick
  <2>6. ASSUME fitting, NEW s \in heard, heartbeat'[s] = "due" PROVE servers'[s] \in 0..period
    BY <2>4, <2>6, PeriodFits
  <2> QED
    BY <1>c, <2>1, <2>2, <2>3, <2>4, <2>5, <2>6
<1>4. CASE registryStops
  BY <1>4, <1>c DEF registryStops
<1>5. CASE registryStarts
  BY <1>5, <1>c DEF registryStarts
<1>6. ASSUME NEW s \in Server, Heartbeat(s) PROVE BeatInv'
  BY <1>6, <1>c, PeriodFits DEF Heartbeat
<1>7. ASSUME NEW s \in Server, sendHeartbeat(s) PROVE BeatInv'
  <2>1. RegistryTypes'
    BY <1>7 DEF sendHeartbeat, putServer
  <2>2. /\ ticker' = ticker
        /\ \A t \in Server \ {s} : heartbeat'[t] = heartbeat[t] /\ servers'[t] = servers[t]
    BY <1>7 DEF sendHeartbeat, putServer
  <2>3. heard' \subseteq heard \cup {s} /\ heartbeat'[s] \notin {"off", "due"}
    BY <1>7 DEF sendHeartbeat, putServer
  <2>4. heartbeat'[s] = "wait" => servers'[s] = 0
    BY <1>7 DEF sendHeartbeat, putServer
  <2> QED
    BY <1>c, <2>1, <2>2, <2>3, <2>4
<1>8. ASSUME NEW s \in Server, serverDies(s) PROVE BeatInv'
  BY <1>8, <1>c DEF serverDies
<1> QED
  BY <1>1, <1>2, <1>3, <1>4, <1>5, <1>6, <1>7, <1>8, RegistrySteps

LEMMA BeatSuffices == BeatInv => BeatingServersListed
<1> SUFFICES ASSUME BeatInv, fitting, NEW s \in heard, beating(s) PROVE s \in alive
  BY DEF BeatingServersListed, fitting
<1>1. s \in Server /\ servers[s] \in Nat /\ servers[s] <= period
  BY PeriodFits DEF BeatInv, RegistryTypes, Beats, beating
<1> QED
  BY <1>1, PeriodFits, RegistryAssumption DEF alive

\* Whatever the timeout and the number of servers, a server whose loop runs is
\* alive in the table of every registry process that has heard from it.
THEOREM BeatingServersStayListed == Spec => []BeatingServersListed
  BY BeatInit, BeatStep, BeatSuffices, PTL DEF Spec
----------------------------------------------------------------------------
(* Callers and their calls *)

CallTypes ==
    /\ config \in Config
    /\ op \in [Caller -> {"idle", "call", "broadcast", "done"}]
    /\ getter \in [Caller -> {"idle", "refresh", "store", "select", "selected", "failed"}]
    /\ task \in [Caller -> [Server -> {"none", "dial", "build", "call", "finish", "done"}]]
    /\ result \in [Caller -> [Server -> Outcome]]
    /\ err \in [Caller -> Outcome]
    /\ cancelled \in [Caller -> BOOLEAN]
    /\ replyFrom \in [Caller -> SUBSET Server]

\* A caller that is idle, or waits for the discovery, has left no trace; whoever
\* uses the discovery itself, or does not exist, is always idle.
Quiet ==
    \A c \in Caller :
        /\ op[c] = "idle" \/ getter[c] # "idle" =>
             /\ \A s \in Server : task[c][s] = "none"
             /\ err[c] = "nil" /\ ~cancelled[c] /\ replyFrom[c] = {}
        /\ config.user = "direct" \/ c \notin config.callers => op[c] = "idle"

CallInv == CallTypes /\ Quiet

\* What a step of Next does to the calls.
LEMMA CallSteps ==
    ASSUME [Next]_vars
    PROVE \/ UNCHANGED <<config, op, getter, taskvars, restvars>>
          \/ \E c \in Caller :
               \/ getNext(c) /\ UNCHANGED <<config, xvars>>
               \/ startTasks(c) /\ UNCHANGED config
               \/ /\ \/ \E s \in Server : \/ taskSteps(c, s) /\ UNCHANGED restvars
                                          \/ finishTask(c, s) \/ finishCall(c, s)
                     \/ return(c)
                  /\ UNCHANGED <<config, getter>>
               \/ asks(c) \/ calls(c)
          \/ /\ build \/ closeClients \/ \E s \in Server : clientFails(s)
             /\ UNCHANGED <<config, op, getter, err, cancelled, replyFrom, lastErr>>
             /\ answer' = answer \/ orderCloses
          \/ orderAnswers /\ UNCHANGED <<config, getter>>
<1>1. CASE UNCHANGED vars
  BY <1>1
<1>2. CASE \E c \in Caller : callerStep(c) \/ asks(c) \/ calls(c)
  BY <1>2 DEF callerStep
<1>3. CASE environment
  BY <1>3 DEF environment, timePasses, tick, Update
<1>4. CASE builder
  BY <1>4 DEF builder
<1>5. CASE order
  BY <1>5 DEF order, orderCloses
<1> QED
  BY <1>1, <1>2, <1>3, <1>4, <1>5 DEF Next

LEMMA CallInit == Init => CallInv
  BY DEF Init, DiscoveryInit, CallInv, CallTypes, Quiet, Outcome

LEMMA GetSteps ==
    ASSUME CallTypes, NEW c \in Caller, getNext(c)
    PROVE /\ getter[c] # "idle" /\ getter'[c] # "idle"
          /\ getter' \in [Caller -> {"idle", "refresh", "store", "select", "selected", "failed"}]
          /\ \A d \in Caller \ {c} : getter'[d] = getter[d]
  BY DEF CallTypes, getNext, Refresh, storeList, select, getterAt

LEMMA TaskSteps ==
    ASSUME CallTypes, NEW c \in Caller, NEW s \in Server, taskSteps(c, s)
    PROVE /\ task[c][s] \in {"dial", "build", "call"}
          /\ \E to \in {"build", "call", "finish"} : task' = [task EXCEPT ![c][s] = to]
          /\ \/ UNCHANGED result /\ task'[c][s] # "finish"
             \/ /\ task'[c][s] = "finish"
                /\ \E r \in Outcome : /\ result' = [result EXCEPT ![c][s] = r]
                                      /\ r = "cancelled" => cancelled[c]
<1>1. CASE dial(c, s)
  BY <1>1 DEF CallTypes, dial, XDial, taskAt, taskEnds, Outcome
<1>2. CASE dialReturns(c, s)
  BY <1>2 DEF CallTypes, dialReturns, taskAt, taskEnds, Outcome
<1>3. CASE dialTimesOut(c, s)
  BY <1>3 DEF CallTypes, dialTimesOut, giveUp, taskAt, taskEnds, Outcome
<1>4. CASE callEnds(c, s)
  BY <1>4 DEF CallTypes, callEnds, taskAt, taskEnds, Outcome
<1> QED
  BY <1>1, <1>2, <1>3, <1>4 DEF taskSteps

LEMMA CallStep == CallInv /\ [Next]_vars => CallInv'
<1> SUFFICES ASSUME CallInv, [Next]_vars PROVE CallInv'
  OBVIOUS
<1> USE DEF CallInv, CallTypes, Quiet
<1>1. CASE UNCHANGED <<config, op, getter, taskvars, restvars>>
  BY <1>1
<1>2. ASSUME NEW c \in Caller, getNext(c), UNCHANGED <<config, xvars>> PROVE CallInv'
  BY <1>2, GetSteps
<1>3. ASSUME NEW c \in Caller, startTasks(c), UNCHANGED config PROVE CallInv'
  <2>1. getter' = [getter EXCEPT ![c] = "idle"] /\ op[c] # "idle" /\ UNCHANGED op
    BY <1>3 DEF startTasks, getReturns
  <2>2. err' \in [Caller -> Outcome] /\ \A d \in Caller \ {c} : err'[d] = err[d]
    BY <1>3 DEF startTasks, Outcome
  <2>3. \/ UNCHANGED task
        \/ task' = [task EXCEPT ![c] = [s \in Server |-> IF s \in got[c] THEN "dial" ELSE "none"]]
    BY <1>3 DEF startTasks
  <2>4. /\ task' \in [Caller -> [Server -> {"none", "dial", "build", "call", "finish", "done"}]]
        /\ \A d \in Caller \ {c} : task'[d] = task[d]
    BY <2>3
  <2> QED
    BY <1>3, <2>1, <2>2, <2>4 DEF startTasks
<1>4. ASSUME NEW c \in Caller, NEW s \in Server, taskSteps(c, s),
             UNCHANGED restvars, UNCHANGED <<config, getter>>
      PROVE CallInv'
  <2>1. CallTypes'
    <3>1. task' \in [Caller -> [Server -> {"none", "dial", "build", "call", "finish", "done"}]]
      <4>1. PICK to \in {"build", "call", "finish"} : task' = [task EXCEPT ![c][s] = to]
        BY <1>4, TaskSteps
      <4> QED
        BY <4>1
    <3>2. CASE UNCHANGED result
      BY <1>4, <3>1, <3>2
    <3>3. CASE \E r \in Outcome : result' = [result EXCEPT ![c][s] = r]
      <4>1. PICK r \in Outcome : result' = [result EXCEPT ![c][s] = r]
        BY <3>3
      <4>2. result' \in [Caller -> [Server -> Outcome]]
        BY <4>1
      <4> QED
        BY <1>4, <3>1, <4>2
    <3>4. result' = result \/ \E r \in Outcome : result' = [result EXCEPT ![c][s] = r]
      <4> HIDE DEF CallTypes
      <4> QED
        BY <1>4, TaskSteps
    <3> QED
      BY <3>2, <3>3, <3>4
  <2>2. op[c] # "idle" /\ getter[c] = "idle"
    BY <1>4, TaskSteps
  <2>3. \A d \in Caller \ {c} : task'[d] = task[d]
    BY <1>4, TaskSteps
  <2>4. Quiet'
    BY <1>4, <2>2, <2>3, SMTT(30)
  <2> QED
    BY <2>1, <2>4
<1>5. ASSUME NEW c \in Caller, NEW s \in Server, finishTask(c, s) \/ finishCall(c, s),
             UNCHANGED <<config, getter>>
      PROVE CallInv'
  <2>1. /\ op[c] # "idle" /\ UNCHANGED <<op, result, lastErr, answer>>
        /\ task[c][s] = "finish" /\ task' = [task EXCEPT ![c][s] = "done"]
    BY <1>5 DEF finishTask, finishCall, taskAt
  <2>2. getter[c] = "idle"
    BY <2>1
  <2>3. /\ err' \in [Caller -> Outcome] /\ cancelled' \in [Caller -> BOOLEAN]
        /\ replyFrom' \in [Caller -> SUBSET Server]
        /\ \A d \in Caller \ {c} : /\ err'[d] = err[d] /\ cancelled'[d] = cancelled[d]
                                   /\ replyFrom'[d] = replyFrom[d]
    <3>1. CASE finishTask(c, s)
      <4>1. firstError(c, s) \in Outcome
        BY DEF firstError
      <4> QED
        BY <3>1, <4>1 DEF finishTask
    <3>2. CASE finishCall(c, s)
      <4>1. result[c][s] \in Outcome
        OBVIOUS
      <4> QED
        BY <3>2, <4>1 DEF finishCall
    <3> QED
      BY <1>5, <3>1, <3>2
  <2>4. /\ task' \in [Caller -> [Server -> {"none", "dial", "build", "call", "finish", "done"}]]
        /\ \A d \in Caller \ {c} : task'[d] = task[d]
    BY <2>1
  <2> QED
    BY <1>5, <2>1, <2>2, <2>3, <2>4
<1>6. ASSUME NEW c \in Caller, return(c), UNCHANGED <<config, getter>> PROVE CallInv'
  <2>1. /\ op[c] \in {"call", "broadcast"}
        /\ op' = [op EXCEPT ![c] = IF config.user = "order" THEN "done" ELSE "idle"]
        /\ getter[c] = "idle"
    BY <1>6 DEF return, ended
  <2>2. /\ task' = [task EXCEPT ![c] = [s \in Server |-> "none"]]
        /\ result' = [result EXCEPT ![c] = [s \in Server |-> "nil"]]
        /\ cancelled' = [cancelled EXCEPT ![c] = FALSE]
        /\ replyFrom' = [replyFrom EXCEPT ![c] = {}]
    BY <1>6 DEF return
  <2>3. /\ config.user = "order" => UNCHANGED err
        /\ config.user # "order" => err' = [err EXCEPT ![c] = "nil"]
    BY <1>6 DEF return
  <2>4. CallTypes'
    BY <1>6, <2>1, <2>2, <2>3 DEF Outcome
  <2>5. Quiet'
    BY <1>6, <2>1, <2>2, <2>3
  <2> QED
    BY <2>4, <2>5
<1>7. ASSUME NEW c \in Caller, asks(c) PROVE CallInv'
  <2>1. config.user = "direct" /\ UNCHANGED <<config, xvars>>
    BY <1>7 DEF asks
  <2>2. /\ getter' \in [Caller -> {"idle", "refresh", "store", "select", "selected", "failed"}]
        /\ \A d \in Caller \ {c} : getter'[d] = getter[d]
    <3>1. \E g \in {"idle", "refresh"} : getter' = [getter EXCEPT ![c] = g]
      BY <1>7 DEF asks, getReturns, Get, getterAt
    <3> QED
      BY <3>1
  <2> QED
    BY <2>1, <2>2
<1>8. ASSUME NEW c \in Caller, calls(c) PROVE CallInv'
  <2>1. config.user # "direct" /\ c \in config.callers
    BY <1>8 DEF calls
  <2>2. \E o \in {"call", "broadcast"} : op' = [op EXCEPT ![c] = o] /\ op[c] = "idle"
    BY <1>8 DEF calls, begin
  <2>3. getter' = [getter EXCEPT ![c] = "refresh"]
    BY <1>8 DEF calls, begin, Get, getterAt
  <2> QED
    BY <1>8, <2>1, <2>2, <2>3 DEF calls
<1>9. ASSUME build \/ closeClients \/ \E s \in Server : clientFails(s),
             UNCHANGED <<config, op, getter, err, cancelled, replyFrom, lastErr>>
      PROVE CallInv'
  BY <1>9 DEF build, closeClients, clientFails
<1>10. ASSUME orderAnswers, UNCHANGED <<config, getter>> PROVE CallInv'
  BY <1>10 DEF orderAnswers
<1> QED
  BY <1>1, <1>2, <1>3, <1>4, <1>5, <1>6, <1>7, <1>8, <1>9, <1>10, CallSteps
----------------------------------------------------------------------------
(* Connections *)

\* The one dial under way holds xc.mu, and no client is cached for its address.
Dials ==
    /\ xmu \in (Caller \X Server) \cup {None}
    /\ clients \in [Server -> {"none", "available", "shutdown"}]
    /\ sockets \in [Server -> Int]
    /\ \A c \in Caller, s \in Server : /\ task[c][s] = "build" <=> xmu = <<c, s>>
                                       /\ task[c][s] = "build" => clients[s] = "none"

SocketInv == Dials /\ SocketsAccounted

LEMMA SocketInit == Init => SocketInv
<1> SUFFICES ASSUME Init PROVE SocketInv
  OBVIOUS
<1>1. \A c \in Caller, s \in Server : xmu # <<c, s>>
  <2>1. xmu = None
    BY DEF Init
  <2> QED
    BY <2>1, XClientAssumption
<1> QED
  BY <1>1 DEF Init, SocketInv, Dials, SocketsAccounted

LEMMA SameDials ==
    ASSUME SocketInv, UNCHANGED <<xmu, clients, sockets>>,
           \A c \in Caller, s \in Server : task'[c][s] = "build" <=> task[c][s] = "build"
    PROVE SocketInv'
  BY DEF SocketInv, Dials, SocketsAccounted

\* Where the dial is over, nothing is left of it but its connection or its client.
LEMMA DialEnds ==
    ASSUME CallTypes, SocketInv, NEW c \in Caller, NEW s \in Server,
           NEW to \in {"call", "finish"}, task[c][s] = "build",
           task' = [task EXCEPT ![c][s] = to], xmu' = None,
           \/ /\ clients' = [clients EXCEPT ![s] = "available"] /\ UNCHANGED sockets
           \/ /\ sockets' = [sockets EXCEPT ![s] = @ - 1] /\ UNCHANGED clients
    PROVE SocketInv'
<1> USE DEF CallTypes, SocketInv, Dials
<1>1. \A d \in Caller, t \in Server : task'[d][t] # "build"
  BY Zenon, SMT
<1>2. \A d \in Caller, t \in Server : xmu' # <<d, t>>
  BY XClientAssumption
<1>3. \A t \in Server \ {s} : sockets'[t] = sockets[t] /\ clients'[t] = clients[t]
  OBVIOUS
<1>4. \A t \in Server \ {s} : \A d \in Caller : task[d][t] # "build"
  OBVIOUS
<1>5. sockets[s] = 1 /\ clients[s] = "none"
  <2>1. \E d \in Caller : task[d][s] = "build"
    OBVIOUS
  <2>2. clients[s] = "none"
    OBVIOUS
  <2>3. sockets[s] = (IF clients[s] # "none" THEN 1 ELSE 0)
                     + (IF \E d \in Caller : task[d][s] = "build" THEN 1 ELSE 0)
    BY DEF SocketsAccounted
  <2>4. sockets[s] = 0 + 1
    BY <2>1, <2>2, <2>3
  <2> QED
    BY <2>2, <2>4
<1>6. /\ sockets' \in [Server -> Int]
      /\ clients' \in [Server -> {"none", "available", "shutdown"}]
      /\ sockets'[s] = IF clients'[s] # "none" THEN 1 ELSE 0
  <2>1. CASE clients' = [clients EXCEPT ![s] = "available"] /\ UNCHANGED sockets
    BY <1>5, <2>1
  <2>2. CASE sockets' = [sockets EXCEPT ![s] = @ - 1] /\ UNCHANGED clients
    BY <1>5, <2>2
  <2> QED
    BY <2>1, <2>2
<1>7. SocketsAccounted'
  BY <1>1, <1>3, <1>4, <1>6, SMTT(30) DEF SocketsAccounted
<1>8. Dials'
  BY <1>1, <1>2, <1>6
<1> QED
  BY <1>7, <1>8

LEMMA DialBegins ==
    ASSUME CallTypes, SocketInv, NEW c \in Caller, NEW s \in Server, dial(c, s)
    PROVE SocketInv'
<1> USE DEF CallTypes, SocketInv, Dials
<1>1. \A d \in Caller, t \in Server : task[d][t] # "build" /\ xmu # <<d, t>>
  BY XClientAssumption DEF dial
<1>2. \A t \in Server : sockets[t] = IF clients[t] # "none" THEN 1 ELSE 0
  BY <1>1 DEF SocketsAccounted
<1>3. CASE clients[s] = "available"
  <2>1. \A d \in Caller, t \in Server : task'[d][t] # "build"
    <3>1. task' = [task EXCEPT ![c][s] = "call"]
      BY <1>3 DEF dial, taskAt
    <3> QED
      BY <1>1, <3>1
  <2> QED
    BY <1>1, <1>3, <2>1, SameDials DEF dial
<1>4. CASE clients[s] # "available"
  <2>1. clients' = [clients EXCEPT ![s] = "none"] /\ XDial(c, s)
    BY <1>4 DEF dial
  <2>2. /\ dropClient(s) \in [Server -> Int] /\ dropClient(s)[s] = 0
        /\ \A t \in Server \ {s} : dropClient(s)[t] = sockets[t]
    BY <1>2, <1>4 DEF dropClient
  <2>3. CASE /\ task' = [task EXCEPT ![c][s] = "build"] /\ xmu' = <<c, s>>
             /\ sockets' = [dropClient(s) EXCEPT ![s] = @ + 1]
    <3>1. \A d \in Caller, t \in Server : task'[d][t] = "build" <=> (d = c /\ t = s)
      BY <1>1, <2>3
    <3>2. /\ sockets' \in [Server -> Int] /\ sockets'[s] = 1
          /\ \A t \in Server \ {s} : sockets'[t] = sockets[t]
      BY <2>2, <2>3
    <3>3. SocketsAccounted'
      BY <1>2, <2>1, <3>1, <3>2 DEF SocketsAccounted
    <3>4. Dials'
      BY <2>1, <2>3, <3>1, <3>2
    <3> QED
      BY <3>3, <3>4
  <2>4. CASE /\ task' = [task EXCEPT ![c][s] = "finish"] /\ UNCHANGED xmu
             /\ sockets' = dropClient(s)
    <3>1. \A d \in Caller, t \in Server : task'[d][t] # "build"
      BY <1>1, <2>4
    <3>2. SocketsAccounted'
      BY <1>2, <2>1, <2>2, <2>4, <3>1 DEF SocketsAccounted
    <3>3. /\ clients' \in [Server -> {"none", "available", "shutdown"}]
          /\ sockets' \in [Server -> Int]
      BY <2>1, <2>2, <2>4
    <3>4. Dials'
      BY <1>1, <2>4, <3>1, <3>3
    <3> QED
      BY <3>2, <3>4
  <2> QED
    BY <2>1, <2>3, <2>4 DEF XDial, taskAt, taskEnds
<1> QED
  BY <1>3, <1>4

LEMMA ClientsClose ==
    ASSUME CallTypes, SocketInv, closeClients
    PROVE SocketInv'
<1> USE DEF CallTypes, SocketInv, Dials
<1>1. \A d \in Caller, t \in Server : task[d][t] # "build" /\ xmu # <<d, t>>
  BY XClientAssumption DEF closeClients
<1>2. \A t \in Server : sockets[t] = IF clients[t] # "none" THEN 1 ELSE 0
  BY <1>1 DEF SocketsAccounted
<1>3. \A t \in Server : sockets'[t] = 0 /\ clients'[t] = "none"
  BY <1>2 DEF closeClients, closed
<1>4. sockets' \in [Server -> Int] /\ clients' \in [Server -> {"none", "available", "shutdown"}]
  BY DEF closeClients, closed
<1> QED
  BY <1>1, <1>3, <1>4 DEF closeClients, SocketsAccounted

LEMMA SocketStep == CallInv /\ SocketInv /\ [Next]_vars => SocketInv'
<1> SUFFICES ASSUME CallInv, SocketInv, [Next]_vars PROVE SocketInv'
  OBVIOUS
<1> USE DEF CallInv
<1>1. CASE UNCHANGED <<config, op, getter, taskvars, restvars>>
  BY <1>1, SameDials
<1>2. ASSUME NEW c \in Caller, getNext(c), UNCHANGED <<config, xvars>> PROVE SocketInv'
  BY <1>2, SameDials
<1>3. ASSUME NEW c \in Caller, startTasks(c) PROVE SocketInv'
  <2>1. \A s \in Server : task[c][s] # "build" /\ task'[c][s] # "build"
    BY <1>3 DEF startTasks, getReturns, Quiet, CallTypes
  <2>2. \A d \in Caller \ {c} : task'[d] = task[d]
    BY <1>3 DEF startTasks, CallTypes
  <2> QED
    BY <1>3, <2>1, <2>2, SameDials DEF startTasks
<1>4. ASSUME NEW c \in Caller, NEW s \in Server, taskSteps(c, s) PROVE SocketInv'
  <2>1. CASE dial(c, s)
    BY <2>1, DialBegins
  <2>2. CASE dialReturns(c, s)
    BY <2>2, DialEnds DEF dialReturns, taskAt, taskEnds
  <2>3. CASE dialTimesOut(c, s)
    BY <2>3, DialEnds DEF dialTimesOut, giveUp, taskAt, taskEnds
  <2>4. CASE callEnds(c, s)
    <3>1. task[c][s] = "call" /\ task' = [task EXCEPT ![c][s] = "finish"]
      BY <2>4 DEF callEnds, taskEnds, taskAt
    <3>2. \A d \in Caller, t \in Server : task'[d][t] = "build" <=> task[d][t] = "build"
      BY <3>1 DEF CallTypes
    <3> QED
      BY <2>4, <3>2, SameDials DEF callEnds
  <2> QED
    BY <1>4, <2>1, <2>2, <2>3, <2>4 DEF taskSteps
<1>5. ASSUME NEW c \in Caller, NEW s \in Server, finishTask(c, s) \/ finishCall(c, s)
      PROVE SocketInv'
  <2>1. task[c][s] = "finish" /\ task' = [task EXCEPT ![c][s] = "done"]
    BY <1>5 DEF finishTask, finishCall, taskAt
  <2>2. \A d \in Caller, t \in Server : task'[d][t] = "build" <=> task[d][t] = "build"
    BY <2>1 DEF CallTypes
  <2> QED
    BY <1>5, <2>2, SameDials DEF finishTask, finishCall
<1>6. ASSUME NEW c \in Caller, return(c) PROVE SocketInv'
  <2>1. task' = [task EXCEPT ![c] = [s \in Server |-> "none"]]
    BY <1>6 DEF return
  <2>2. \A d \in Caller, t \in Server : task'[d][t] = "build" <=> task[d][t] = "build"
    <3>1. \A s \in Server : task[c][s] # "build" /\ task'[c][s] # "build"
      <4>1. \A s \in Server : task[c][s] \in {"none", "done"}
        BY <1>6 DEF return, ended
      <4> QED
        BY <2>1, <4>1 DEF CallTypes
    <3>2. \A d \in Caller \ {c} : task'[d] = task[d]
      BY <2>1 DEF CallTypes
    <3> QED
      BY <3>1, <3>2
  <2> QED
    BY <1>6, <2>2, SameDials DEF return
<1>7. ASSUME NEW c \in Caller, asks(c) \/ calls(c) PROVE SocketInv'
  BY <1>7, SameDials DEF asks, calls
<1>8. CASE build
  BY <1>8, SameDials DEF build
<1>9. CASE closeClients
  BY <1>9, ClientsClose
<1>10. ASSUME NEW s \in Server, clientFails(s) PROVE SocketInv'
  <2>1. /\ clients[s] = "available" /\ clients' = [clients EXCEPT ![s] = "shutdown"]
        /\ UNCHANGED <<task, xmu, sockets>>
    BY <1>10 DEF clientFails
  <2>2. SocketsAccounted'
    BY <2>1 DEF SocketInv, Dials, SocketsAccounted
  <2> QED
    BY <2>1, <2>2 DEF SocketInv, Dials
<1>11. CASE orderAnswers
  BY <1>11, SameDials DEF orderAnswers
<1> QED
  BY <1>1, <1>2, <1>3, <1>4, <1>5, <1>6, <1>7, <1>8, <1>9, <1>10, <1>11, CallSteps

\* No dial, breakdown or Close, for any number of goroutines and servers, leaves a
\* connection open that belongs to no client, or makes a second one to an address.
THEOREM SocketsStayAccounted == Spec => []SocketsAccounted
<1>1. CallInv /\ SocketInv /\ [Next]_vars => (CallInv /\ SocketInv)'
  BY CallStep, SocketStep
<1> QED
  BY <1>1, CallInit, SocketInit, PTL DEF Spec, SocketInv
----------------------------------------------------------------------------
(* Answers *)

\* What Broadcast knows so far is what has happened to its calls, and a call is
\* cancelled only after one has failed.
Fits(c) ==
    /\ err[c] = "nil" <=> \A s \in Server : task[c][s] = "done" => result[c][s] = "nil"
    /\ err[c] # "cancelled"
    /\ err[c] # "nil" <=> cancelled[c]
    /\ \A s \in Server : task[c][s] = "finish" /\ result[c][s] = "cancelled" => cancelled[c]
    /\ replyFrom[c] = {} <=> \A s \in Server : task[c][s] = "done" => result[c][s] # "nil"
    /\ \A s \in replyFrom[c] : /\ replyFrom[c] = {s}
                               /\ task[c][s] = "done" /\ result[c][s] = "nil"

started(c) == op[c] = "broadcast" /\ \E s \in Server : task[c][s] # "none"

Reports == \A c \in Caller : started(c) => Fits(c)

\* The error a request to orderCenter reads is that of one of its goroutines.
Orders ==
    /\ config.user = "order" /\ (\E c \in Caller : op[c] = "done") =>
          \E c \in Caller : op[c] = "done" /\ err[c] = lastErr
    /\ answer # "none" => config.user = "order" /\ \A c \in config.callers : op[c] = "done"
    /\ answer = "succeed" => lastErr = "nil"
    /\ answer = "failed" => lastErr # "nil"

AnswerInv == Reports /\ Orders

LEMMA AnswerInit == Init => AnswerInv
  BY DEF Init, AnswerInv, Reports, started, Orders

LEMMA AnswerSuffices == CallInv /\ AnswerInv => AnswersFitCalls
<1> SUFFICES ASSUME CallInv, AnswerInv PROVE AnswersFitCalls
  OBVIOUS
<1>1. ASSUME NEW c \in Caller, op[c] = "broadcast", NEW t \in Server, task[c][t] = "done"
      PROVE Fits(c)
  BY <1>1 DEF AnswerInv, Reports, started
<1>2. ASSUME answer \in {"succeed", "failed"}
      PROVE \E c \in config.callers : op[c] = "done" /\ err[c] = lastErr
  <2>1. config.user = "order" /\ config.callers # {} /\ config.callers \subseteq Caller
    BY <1>2, XClientAssumption DEF AnswerInv, Orders, CallInv, CallTypes, ConfigType
  <2>2. PICK c \in Caller : op[c] = "done" /\ err[c] = lastErr
    BY <1>2, <2>1 DEF AnswerInv, Orders
  <2> QED
    BY <2>2 DEF CallInv, Quiet
<1> DEFINE called(c) == {s \in Server : task[c][s] = "done"}
           succeeded(c) == {s \in called(c) : result[c][s] = "nil"}
<1>3. ASSUME NEW c \in Caller, op[c] = "broadcast", called(c) # {}
      PROVE /\ err[c] = "nil" <=> succeeded(c) = called(c)
            /\ err[c] # "cancelled"
            /\ replyFrom[c] = {} <=> succeeded(c) = {}
            /\ \A s \in replyFrom[c] : replyFrom[c] = {s} /\ s \in succeeded(c)
  <2>1. Fits(c) /\ replyFrom[c] \subseteq Server
    BY <1>1, <1>3 DEF CallInv, CallTypes
  <2> QED
    BY <1>3, <2>1 DEF Fits
<1>4. /\ answer = "succeed" => \E c \in config.callers : err[c] = "nil"
      /\ answer = "failed" => \E c \in config.callers : err[c] # "nil"
  BY <1>2 DEF AnswerInv, Orders
<1> QED
  BY <1>3, <1>4, Zenon DEF AnswersFitCalls

LEMMA SameReports ==
    ASSUME Reports, UNCHANGED <<op, err, cancelled, replyFrom>>, NEW c \in Caller,
           \A d \in Caller \ {c} : task'[d] = task[d] /\ result'[d] = result[d],
           started(c)' => Fits(c)'
    PROVE Reports'
  BY DEF Reports, started, Fits

LEMMA AnswerStep == CallInv /\ AnswerInv /\ [Next]_vars => AnswerInv'
<1> SUFFICES ASSUME CallInv, AnswerInv, [Next]_vars PROVE AnswerInv'
  OBVIOUS
<1> USE DEF CallInv, AnswerInv
<1>1. CASE UNCHANGED <<config, op, getter, taskvars, restvars>>
  BY <1>1 DEF Reports, started, Fits, Orders
<1>2. ASSUME NEW c \in Caller, getNext(c), UNCHANGED <<config, xvars>> PROVE AnswerInv'
  BY <1>2 DEF Reports, started, Fits, Orders
<1>3. ASSUME NEW c \in Caller, startTasks(c), UNCHANGED config PROVE AnswerInv'
  <2>1. /\ UNCHANGED <<op, result, cancelled, replyFrom, lastErr, answer>>
        /\ op[c] \in {"call", "broadcast"} /\ getter[c] # "idle"
        /\ \/ err' = err /\ \A s \in Server : task'[c][s] \in {"none", "dial"}
           \/ err' = [err EXCEPT ![c] = "failed"] /\ task' = task
    <3>1. CASE getter[c] = "failed"
      BY <1>3, <3>1 DEF startTasks, getReturns
    <3>2. CASE getter[c] # "failed"
      <4>1. task' = [task EXCEPT ![c] = [s \in Server |-> IF s \in got[c] THEN "dial" ELSE "none"]]
        BY <1>3, <3>2 DEF startTasks
      <4>2. \A s \in Server : task'[c][s] \in {"none", "dial"}
        BY <4>1 DEF CallTypes
      <4>3. err' = err
        BY <1>3, <3>2 DEF startTasks
      <4>4. /\ UNCHANGED <<op, result, cancelled, replyFrom, lastErr, answer>>
            /\ op[c] \in {"call", "broadcast"} /\ getter[c] # "idle"
        BY <1>3 DEF startTasks, getReturns
      <4> QED
        BY <4>2, <4>3, <4>4
    <3> QED
      BY <3>1, <3>2
  <2>2. \A d \in Caller \ {c} : task'[d] = task[d] /\ err'[d] = err[d]
    BY <1>3 DEF startTasks, CallTypes
  <2>3. started(c)' => Fits(c)'
    BY <2>1 DEF started, Fits, Quiet
  <2>4. Reports'
    BY <2>1, <2>2, <2>3 DEF Reports, started, Fits
  <2>5. Orders'
    BY <1>3, <2>1, <2>2 DEF Orders
  <2> QED
    BY <2>4, <2>5
<1>4. ASSUME NEW c \in Caller, NEW s \in Server, taskSteps(c, s),
             UNCHANGED restvars, UNCHANGED <<config, getter>>
      PROVE AnswerInv'
  <2>1. PICK to \in {"build", "call", "finish"} : task' = [task EXCEPT ![c][s] = to]
    BY <1>4, TaskSteps
  <2>2. task[c][s] \in {"dial", "build", "call"}
    BY <1>4, TaskSteps
  <2>3. \A t \in Server : /\ task'[c][t] = "done" <=> task[c][t] = "done"
                          /\ t # s => task'[c][t] = task[c][t]
    BY <2>1, <2>2 DEF CallTypes
  <2>4. /\ \A d \in Caller \ {c} : task'[d] = task[d] /\ result'[d] = result[d]
        /\ \A t \in Server \ {s} : result'[c][t] = result[c][t]
        /\ task'[c][s] = "finish" /\ result'[c][s] = "cancelled" => cancelled[c]
    <3>1. CASE UNCHANGED result /\ task'[c][s] # "finish"
      BY <2>1, <3>1 DEF CallTypes
    <3>2. CASE \E r \in Outcome : /\ result' = [result EXCEPT ![c][s] = r]
                                  /\ r = "cancelled" => cancelled[c]
      BY <2>1, <3>2 DEF CallTypes
    <3> QED
      BY <1>4, <3>1, <3>2, TaskSteps
  <2>5. started(c)' => Fits(c)'
    <3>1. started(c)' => Fits(c) /\ replyFrom[c] \subseteq Server
      BY <1>4, <2>2 DEF Reports, started, CallTypes
    <3>2. \A t \in Server : task[c][t] = "done" => result'[c][t] = result[c][t]
      BY <2>2, <2>4
    <3>3. \A t \in Server : task'[c][t] = "finish" /\ result'[c][t] = "cancelled" =>
                               cancelled[c] \/ (task[c][t] = "finish" /\ result[c][t] = "cancelled")
      BY <2>2, <2>3, <2>4
    <3> QED
      BY <1>4, <2>3, <3>1, <3>2, <3>3 DEF Fits
  <2>6. Reports'
    BY <1>4, <2>4, <2>5, SameReports
  <2> QED
    BY <1>4, <2>6 DEF Orders
<1>5. ASSUME NEW c \in Caller, NEW s \in Server, finishTask(c, s), UNCHANGED <<config, getter>>
      PROVE AnswerInv'
  <2>1. /\ op[c] = "broadcast" /\ UNCHANGED <<op, result, lastErr, answer>>
        /\ task[c][s] = "finish" /\ task' = [task EXCEPT ![c][s] = "done"]
    BY <1>5 DEF finishTask, taskAt
  <2>2. Fits(c) /\ result[c][s] \in Outcome
    BY <2>1 DEF Reports, started, CallTypes
  <2>3. /\ err' = [err EXCEPT ![c] = firstError(c, s)]
        /\ cancelled' = [cancelled EXCEPT ![c] = @ \/ err[c] # firstError(c, s)]
        /\ replyFrom' = IF result[c][s] = "nil" /\ replyFrom[c] = {}
                          THEN [replyFrom EXCEPT ![c] = {s}] ELSE replyFrom
    BY <1>5 DEF finishTask
  <2>4. /\ task'[c][s] = "done" /\ \A t \in Server \ {s} : task'[c][t] = task[c][t]
        /\ \A d \in Caller \ {c} : /\ task'[d] = task[d] /\ err'[d] = err[d]
                                   /\ cancelled'[d] = cancelled[d] /\ replyFrom'[d] = replyFrom[d]
    BY <2>1, <2>3 DEF CallTypes
  <2>5. /\ err'[c] = IF err[c] = "nil" THEN result[c][s] ELSE err[c]
        /\ cancelled'[c] <=> err'[c] # "nil"
        /\ err'[c] # "cancelled"
    BY <2>1, <2>2, <2>3 DEF CallTypes, Fits, firstError
  <2>6. replyFrom'[c] = IF result[c][s] = "nil" /\ replyFrom[c] = {} THEN {s} ELSE replyFrom[c]
    BY <2>3 DEF CallTypes
  <2>7. replyFrom'[c] \subseteq Server
    BY <2>6 DEF CallTypes
  <2>8. Fits(c)'
    BY <2>1, <2>2, <2>4, <2>5, <2>6, <2>7 DEF Fits
  <2>9. Reports'
    BY <2>1, <2>4, <2>8 DEF Reports, started, Fits
  <2>10. Orders'
    BY <1>5, <2>1, <2>4 DEF Orders
  <2> QED
    BY <2>9, <2>10
<1>6. ASSUME NEW c \in Caller, NEW s \in Server, finishCall(c, s), UNCHANGED <<config, getter>>
      PROVE AnswerInv'
  <2>1. /\ op[c] = "call" /\ UNCHANGED <<op, result, cancelled, lastErr, answer>>
        /\ \A d \in Caller \ {c} : /\ task'[d] = task[d] /\ err'[d] = err[d]
                                   /\ replyFrom'[d] = replyFrom[d]
    BY <1>6 DEF finishCall, taskAt, CallTypes
  <2>2. Reports'
    BY <2>1 DEF Reports, started, Fits
  <2>3. Orders'
    BY <1>6, <2>1 DEF Orders
  <2> QED
    BY <2>2, <2>3
<1>7. ASSUME NEW c \in Caller, return(c), UNCHANGED <<config, getter>> PROVE AnswerInv'
  <2>1. /\ op[c] \in {"call", "broadcast"} /\ answer' = answer
        /\ op' = [op EXCEPT ![c] = IF config.user = "order" THEN "done" ELSE "idle"]
        /\ \A d \in Caller \ {c} : /\ task'[d] = task[d] /\ result'[d] = result[d]
                                   /\ err'[d] = err[d] /\ cancelled'[d] = cancelled[d]
                                   /\ replyFrom'[d] = replyFrom[d]
        /\ config.user = "order" => lastErr' = err[c] /\ err' = err
    BY <1>7 DEF return, CallTypes
  <2>2. op'[c] = (IF config.user = "order" THEN "done" ELSE "idle")
        /\ \A d \in Caller \ {c} : op'[d] = op[d]
    BY <2>1 DEF CallTypes
  <2>3. Reports'
    BY <2>1, <2>2 DEF Reports, started, Fits
  <2>4. answer = "none"
    BY <2>1 DEF Orders, Quiet
  <2>5. Orders'
    BY <1>7, <2>1, <2>2, <2>4 DEF Orders
  <2> QED
    BY <2>3, <2>5
<1>8. ASSUME NEW c \in Caller, asks(c) PROVE AnswerInv'
  BY <1>8 DEF asks, Reports, started, Fits, Orders
<1>9. ASSUME NEW c \in Caller, calls(c) PROVE AnswerInv'
  <2>1. /\ op[c] = "idle" /\ op'[c] # "done" /\ \A d \in Caller \ {c} : op'[d] = op[d]
        /\ c \in config.callers /\ UNCHANGED <<config, taskvars, err, cancelled, replyFrom,
                                               lastErr, answer>>
    BY <1>9 DEF calls, begin, CallTypes
  <2>2. Reports'
    BY <2>1 DEF Reports, started, Fits, Quiet
  <2>3. answer = "none"
    BY <2>1 DEF Orders
  <2>4. Orders'
    BY <2>1, <2>3 DEF Orders
  <2> QED
    BY <2>2, <2>4
<1>10. ASSUME build \/ closeClients \/ \E s \in Server : clientFails(s),
              UNCHANGED <<config, op, getter, err, cancelled, replyFrom, lastErr>>,
              answer' = answer \/ orderCloses
       PROVE AnswerInv'
  <2>1. UNCHANGED <<task, result>>
    BY <1>10 DEF build, closeClients, clientFails
  <2>2. Reports'
    BY <1>10, <2>1 DEF Reports, started, Fits
  <2>3. answer' = answer \/ (answer # "none" /\ answer' = "closed")
    BY <1>10 DEF orderCloses
  <2>4. Orders'
    BY <1>10, <2>3 DEF Orders
  <2> QED
    BY <2>2, <2>4
<1>11. ASSUME orderAnswers, UNCHANGED <<config, getter>> PROVE AnswerInv'
  BY <1>11 DEF orderAnswers, Reports, started, Fits, Orders
<1> QED
  BY <1>1, <1>2, <1>3, <1>4, <1>5, <1>6, <1>7, <1>8, <1>9, <1>10, <1>11, CallSteps

\* Any number of calls of a Broadcast, to any servers, may end in any order: its
\* error and its reply fit them, and so does the answer of orderCenter.
THEOREM AnswersAlwaysFit == Spec => []AnswersFitCalls
<1>1. CallInv /\ AnswerInv /\ [Next]_vars => (CallInv /\ AnswerInv)'
  BY CallStep, AnswerStep
<1> QED
  BY <1>1, CallInit, AnswerInit, AnswerSuffices, PTL DEF Spec
----------------------------------------------------------------------------
(* Types *)

\* A step of the registry keeps its types; the age of an entry stops at Timeout.
LEMMA RegistryKeepsTypes == RegistryTypeOK /\ [Next]_vars => RegistryTypeOK'
<1> SUFFICES ASSUME RegistryTypeOK, [Next]_vars PROVE RegistryTypeOK'
  OBVIOUS
<1> USE RegistryAssumption DEF RegistryTypeOK
<1>1. CASE UNCHANGED registryvars
  BY <1>1
<1>2. CASE forgetDead /\ UNCHANGED <<registryUp, heard, heartbeat, ticker>>
  BY <1>2 DEF forgetDead
<1>3. CASE registryTick
  <2>1. \A s \in Server : servers[s] # None /\ servers[s] # Timeout =>
                            servers[s] + 1 \in 0..Timeout
    OBVIOUS
  <2>2. servers' = [s \in Server |-> IF servers[s] = None \/ servers[s] = Timeout
                                     THEN servers[s] ELSE servers[s] + 1]
    BY <1>3 DEF registryTick
  <2>3. servers' \in [Server -> 0..Timeout \cup {None}]
    BY <2>1, <2>2
  <2>4. heartbeat' \in [Server -> {"off", "due", "wait", "ended"}] /\ ticker' \in [Server -> Nat]
    BY <1>3 DEF registryTick
  <2> QED
    BY <1>3, <2>3, <2>4 DEF registryTick
<1>4. CASE registryStops \/ registryStarts
  BY <1>4 DEF registryStops, registryStarts
<1>5. ASSUME NEW s \in Server, Heartbeat(s) \/ sendHeartbeat(s) \/ serverDies(s)
      PROVE RegistryTypeOK'
  <2>1. 0 \in 0..Timeout
    OBVIOUS
  <2>2. CASE Heartbeat(s)
    BY <2>2 DEF Heartbeat
  <2>3. CASE serverDies(s)
    BY <2>3 DEF serverDies
  <2>4. CASE sendHeartbeat(s)
    <3>1. heartbeat' \in [Server -> {"off", "due", "wait", "ended"}]
      BY <2>4 DEF sendHeartbeat
    <3>2. putServer(s) \/ UNCHANGED <<servers, heard>>
      BY <2>4 DEF sendHeartbeat
    <3>3. servers' \in [Server -> 0..Timeout \cup {None}] /\ heard' \subseteq Server
      <4>1. CASE putServer(s)
        BY <2>1, <4>1 DEF putServer
      <4>2. CASE UNCHANGED <<servers, heard>>
        BY <4>2
      <4> QED
        BY <3>2, <4>1, <4>2
    <3>4. UNCHANGED <<registryUp, ticker>>
      BY <2>4 DEF sendHeartbeat
    <3> QED
      BY <3>1, <3>3, <3>4
  <2> QED
    BY <1>5, <2>2, <2>3, <2>4
<1> QED
  BY <1>1, <1>2, <1>3, <1>4, <1>5, RegistrySteps

\* A set of servers can be listed in the order of sort.Strings.
LEMMA OrderedServers ==
    ASSUME NEW S \in SUBSET Server
    PROVE inOrder(S) \in Seq(Server) /\ Len(inOrder(S)) <= Cardinality(Server)
<1>1. IsFiniteSet(S) /\ Cardinality(S) \in Nat /\ Cardinality(S) <= Cardinality(Server)
  BY DiscoveryAssumption, FS_Subset, FS_CardinalityType
<1>2. S \in SUBSET Nat
  BY RegistryAssumption
<1>3. \E f \in [1..Cardinality(S) -> S] : \A i, j \in DOMAIN f : i < j => f[i] < f[j]
  BY <1>1, <1>2, AscendingList
<1>4. inOrder(S) \in [1..Cardinality(S) -> S]
  BY <1>3 DEF inOrder
<1>5. PICK n \in Nat : n = Cardinality(S)
  BY <1>1
<1>6. PICK f : f = inOrder(S)
  OBVIOUS
<1>7. f \in [1..n -> Server]
  BY <1>4, <1>5, <1>6
<1>8. f \in Seq(Server) /\ Len(f) = n
  BY <1>7
<1> QED
  BY <1>1, <1>5, <1>6, <1>8

\* What a step of Next does to the discovery.
LEMMA DiscoverySteps ==
    ASSUME [Next]_vars
    PROVE \/ UNCHANGED discoveryvars
          \/ \E c \in Caller : \/ Refresh(c) \/ storeList(c) \/ select(c) \/ getReturns(c)
                               \/ \E m \in Mode : Get(c, m)
          \/ \E S \in Lists : Update(S)
          \/ tick
<1> USE DEF Mode
<1>1. CASE UNCHANGED vars
  BY <1>1
<1>2. ASSUME NEW c \in Caller, callerStep(c)
      PROVE \/ UNCHANGED discoveryvars
            \/ Refresh(c) \/ storeList(c) \/ select(c) \/ getReturns(c)
  BY <1>2 DEF callerStep, getNext, startTasks
<1>3. ASSUME NEW c \in Caller, asks(c) \/ calls(c)
      PROVE getReturns(c) \/ \E m \in Mode : Get(c, m)
  BY <1>3 DEF asks, calls, begin
<1>4. CASE environment
  BY <1>4 DEF environment, timePasses, registryNext, beats
<1>5. CASE builder \/ order
  BY <1>5 DEF builder, order
<1> QED
  BY <1>1, <1>2, <1>3, <1>4, <1>5 DEF Next

LEMMA DiscoveryKeepsTypes == DiscoveryTypeOK /\ [Next]_vars => DiscoveryTypeOK'
<1> SUFFICES ASSUME DiscoveryTypeOK, [Next]_vars PROVE DiscoveryTypeOK'
  OBVIOUS
<1> USE DiscoveryAssumption
<1>1. CASE UNCHANGED discoveryvars
  BY <1>1 DEF DiscoveryTypeOK
<1>2. ASSUME NEW c \in Caller, Refresh(c) PROVE DiscoveryTypeOK'
  <2>1. alive \in SUBSET Server
    BY DEF alive
  <2> QED
    BY <1>2, <2>1 DEF DiscoveryTypeOK, Refresh, getterAt
<1>3. ASSUME NEW c \in Caller, storeList(c) PROVE DiscoveryTypeOK'
  <2>1. got[c] \in SUBSET Server
    BY DEF DiscoveryTypeOK
  <2>2. list' \in Seq(Server) /\ Len(list') <= Cardinality(Server)
    BY <1>3, <2>1, OrderedServers DEF storeList
  <2> QED
    BY <1>3, <2>2 DEF DiscoveryTypeOK, storeList, getterAt
<1>4. ASSUME NEW c \in Caller, select(c) PROVE DiscoveryTypeOK'
  <2>1. PICK n \in Nat : n = Len(list)
    BY DEF DiscoveryTypeOK
  <2>2. \A i \in 1..n : list[i] \in Server
    BY <2>1 DEF DiscoveryTypeOK
  <2>3. n # 0 => (index % n) + 1 \in 1..n /\ (index + 1) % n \in Nat
    BY DEF DiscoveryTypeOK
  <2>4. got' \in [Caller -> SUBSET Server] /\ index' \in Nat
    <3>1. CASE mode[c] = "all" /\ got' = [got EXCEPT ![c] = {list[i] : i \in 1..n}] /\ UNCHANGED index
      <4>1. {list[i] : i \in 1..n} \in SUBSET Server
        BY <2>2
      <4> QED
        BY <3>1, <4>1 DEF DiscoveryTypeOK
    <3>2. CASE UNCHANGED <<got, index>>
      BY <3>2 DEF DiscoveryTypeOK
    <3>3. CASE /\ \E i \in 1..n : got' = [got EXCEPT ![c] = {list[i]}]
               /\ UNCHANGED index
      BY <2>2, <3>3 DEF DiscoveryTypeOK
    <3>4. CASE /\ n # 0
               /\ got' = [got EXCEPT ![c] = {list[(index % n) + 1]}]
               /\ index' = (index + 1) % n
      <4>1. list[(index % n) + 1] \in Server
        BY <2>2, <2>3, <3>4
      <4> QED
        BY <2>3, <3>4, <4>1 DEF DiscoveryTypeOK
    <3> QED
      BY <1>4, <2>1, <3>1, <3>2, <3>3, <3>4 DEF select
  <2>5. \E to \in {"selected", "failed"} : getter' = [getter EXCEPT ![c] = to]
    BY <1>4 DEF select, getterAt
  <2>6. UNCHANGED <<kind, list, listAge, dmu, mode>>
    BY <1>4 DEF select
  <2> QED
    BY <2>4, <2>5, <2>6 DEF DiscoveryTypeOK
<1>5. ASSUME NEW c \in Caller, getReturns(c) PROVE DiscoveryTypeOK'
  BY <1>5 DEF DiscoveryTypeOK, getReturns, Mode
<1>6. ASSUME NEW c \in Caller, NEW m \in Mode, Get(c, m) PROVE DiscoveryTypeOK'
  BY <1>6 DEF DiscoveryTypeOK, Get, getterAt
<1>7. ASSUME NEW S \in Lists, Update(S) PROVE DiscoveryTypeOK'
  <2>1. list' \in Seq(Server) /\ Len(list') <= Cardinality(Server)
    BY <1>7, OrderedServers, XClientAssumption DEF Update
  <2> QED
    BY <1>7, <2>1 DEF DiscoveryTypeOK, Update
<1>8. CASE tick
  BY <1>8 DEF DiscoveryTypeOK, tick
<1> QED
  BY <1>1, <1>2, <1>3, <1>4, <1>5, <1>6, <1>7, <1>8, DiscoverySteps

\* The rest of the variables.
RestTypes ==
    /\ building \in {"none", "running", "client", "error"}
    /\ lastErr \in Outcome
    /\ answer \in {"none", "succeed", "failed", "closed"}

LEMMA RestKeepsTypes == CallTypes /\ RestTypes /\ [Next]_vars => RestTypes'
<1> SUFFICES ASSUME CallTypes, RestTypes, [Next]_vars PROVE RestTypes'
  OBVIOUS
<1>1. CASE UNCHANGED <<config, op, getter, taskvars, restvars>>
  BY <1>1 DEF RestTypes
<1>2. ASSUME NEW c \in Caller, NEW s \in Server, taskSteps(c, s), UNCHANGED restvars
      PROVE RestTypes'
  BY <1>2 DEF RestTypes, taskSteps, dial, XDial, dialReturns, dialTimesOut, giveUp, callEnds
<1>3. ASSUME NEW c \in Caller,
             \/ return(c) \/ startTasks(c)
             \/ getNext(c) /\ UNCHANGED xvars
             \/ asks(c) \/ calls(c)
             \/ \E s \in Server : finishTask(c, s) \/ finishCall(c, s)
      PROVE RestTypes'
  <2>1. building' = building /\ answer' = answer
    BY <1>3 DEF return, startTasks, asks, calls, finishTask, finishCall
  <2>2. lastErr' = lastErr \/ lastErr' = err[c]
    BY <1>3 DEF return, startTasks, asks, calls, finishTask, finishCall
  <2> QED
    BY <2>1, <2>2 DEF RestTypes, CallTypes
<1>4. CASE /\ build \/ closeClients \/ \E s \in Server : clientFails(s)
           /\ UNCHANGED lastErr
           /\ answer' = answer \/ orderCloses
  <2>1. building' \in {"none", "running", "client", "error"}
    BY <1>4 DEF RestTypes, build, closeClients, clientFails
  <2>2. answer' \in {answer, "closed"}
    BY <1>4 DEF orderCloses
  <2> QED
    BY <1>4, <2>1, <2>2 DEF RestTypes
<1>5. CASE orderAnswers
  BY <1>5 DEF RestTypes, orderAnswers
<1>6. ASSUME NEW c \in Caller,
             \/ getNext(c) /\ UNCHANGED <<config, xvars>>
             \/ startTasks(c) /\ UNCHANGED config
             \/ /\ \/ \E s \in Server : \/ taskSteps(c, s) /\ UNCHANGED restvars
                                        \/ finishTask(c, s) \/ finishCall(c, s)
                   \/ return(c)
                /\ UNCHANGED <<config, getter>>
             \/ asks(c) \/ calls(c)
      PROVE RestTypes'
  <2>1. CASE \E s \in Server : taskSteps(c, s) /\ UNCHANGED restvars
    BY <1>2, <2>1
  <2>2. CASE \E s \in Server : finishTask(c, s) \/ finishCall(c, s)
    BY <1>3, <2>2
  <2>3. CASE getNext(c) /\ UNCHANGED xvars
    BY <1>3, <2>3
  <2>4. CASE startTasks(c) \/ return(c)
    BY <1>3, <2>4
  <2>5. CASE asks(c) \/ calls(c)
    BY <1>3, <2>5
  <2> QED
    BY <1>6, <2>1, <2>2, <2>3, <2>4, <2>5
<1> QED
  BY <1>1, <1>4, <1>5, <1>6, CallSteps

\* Every variable of the client, the discovery and the registry keeps its type,
\* for any number of goroutines and servers: no connection is closed twice
\* (sockets is never negative), the list never names more servers than there are,
\* and no entry of the registry grows older than the timeout.
THEOREM ClientTypeCorrect == Spec => []TypeOK
<1>1. Init => RegistryTypeOK
  <2> SUFFICES ASSUME Init PROVE RegistryTypeOK
    OBVIOUS
  <2>1. 0 \in 0..Timeout
    BY RegistryAssumption
  <2>2. CASE RegistryInit
    BY <2>2 DEF RegistryInit, RegistryTypeOK
  <2>3. ASSUME NEW S \in Lists, registered(S) PROVE RegistryTypeOK
    <3>1. S \subseteq Server
      BY XClientAssumption
    <3> QED
      BY <2>1, <2>3, <3>1 DEF registered, RegistryTypeOK
  <2> QED
    BY <2>2, <2>3 DEF Init
<1>2. Init => DiscoveryTypeOK
  <2> SUFFICES ASSUME Init PROVE DiscoveryTypeOK
    OBVIOUS
  <2>1. list \in Seq(Server) /\ Len(list) <= Cardinality(Server)
    <3>1. CASE list = <<>>
      BY <3>1, DiscoveryAssumption, FS_CardinalityType
    <3>2. ASSUME NEW S \in Lists, list = inOrder(S)
          PROVE list \in Seq(Server) /\ Len(list) <= Cardinality(Server)
      BY <3>2, OrderedServers, XClientAssumption
    <3> QED
      BY <3>1, <3>2 DEF Init
  <2>2. kind \in {"multi", "registry"}
    BY XClientAssumption DEF Init, ConfigType
  <2>3. UpdateTimeout \in 0..UpdateTimeout /\ 0..MaxIndex \subseteq Nat
    BY DiscoveryAssumption
  <2> QED
    BY <2>1, <2>2, <2>3 DEF Init, DiscoveryInit, DiscoveryTypeOK, Mode
<1>3. Init => RestTypes
  BY DEF Init, RestTypes, Outcome
<1>4. CallInv /\ SocketInv /\ [Next]_vars => (CallInv /\ SocketInv)'
  BY CallStep, SocketStep
<1>5. CallInv /\ RestTypes /\ [Next]_vars => RestTypes'
  BY RestKeepsTypes DEF CallInv
<1>6. RegistryTypeOK /\ DiscoveryTypeOK /\ RestTypes /\ CallInv /\ SocketInv => TypeOK
  <2> SUFFICES ASSUME RegistryTypeOK, DiscoveryTypeOK, RestTypes, CallTypes, Dials, SocketsAccounted
               PROVE TypeOK
    BY DEF CallInv, SocketInv
  <2>1. sockets \in [Server -> Nat]
    <3>1. ASSUME NEW s \in Server PROVE sockets[s] \in Nat
      <4>1. PICK a \in {0, 1} : a = IF clients[s] # "none" THEN 1 ELSE 0
        OBVIOUS
      <4>2. PICK b \in {0, 1} : b = IF \E c \in Caller : task[c][s] = "build" THEN 1 ELSE 0
        OBVIOUS
      <4>3. sockets[s] = a + b
        BY <4>1, <4>2 DEF SocketsAccounted
      <4> QED
        BY <4>3
    <3> QED
      BY <3>1 DEF Dials
  <2> QED
    BY <2>1 DEF TypeOK, CallTypes, Dials, RestTypes
<1> QED
  BY <1>1, <1>2, <1>3, <1>4, <1>5, <1>6, CallInit, SocketInit, RegistryKeepsTypes,
     DiscoveryKeepsTypes, PTL DEF Spec
=============================================================================

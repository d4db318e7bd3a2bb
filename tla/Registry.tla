------------------------------ MODULE Registry ------------------------------
(***************************************************************************)
(* The registry, psygo/rpc/registry/registry.go: the table of servers with *)
(* the time of their last heartbeat, and in each server process the loop   *)
(* of Heartbeat.  Time passes in units (a minute in the code).  Instead of *)
(* the moment start the table holds the age of the entry, which stops      *)
(* growing at the timeout: nothing can tell it from an older one.          *)
(***************************************************************************)
EXTENDS Integers

CONSTANTS Server,           \* the addresses, numbers in the order of sort.Strings
          None,             \* no entry
          Timeout,          \* Registry.timeout, 0 for never
          DefaultTimeout,   \* the constant Heartbeat computes its default from
          Duration          \* the argument of Heartbeat, 0 for the default

ASSUME RegistryAssumption ==
    /\ Server \subseteq Nat /\ None \notin Nat
    /\ Timeout \in Nat /\ DefaultTimeout \in Nat \ {0, 1} /\ Duration \in Nat

VARIABLES
    servers,     \* for each address the age of its entry, or None
    registryUp,  \* the process of the registry runs
    heard,       \* the loops this process of the registry has heard from
    heartbeat,   \* where the loop of Heartbeat is, in each server process
    ticker       \* units since its ticker fired last

registryvars == <<servers, registryUp, heard, heartbeat, ticker>>

\* A mutant of period: the default leaves no time to send the heartbeat.
periodWithoutReserve == IF Duration = 0 THEN DefaultTimeout ELSE Duration

period == IF Duration = 0 THEN DefaultTimeout - 1 ELSE Duration

RegistryTypeOK ==
    /\ servers \in [Server -> 0..Timeout \cup {None}]
    /\ registryUp \in BOOLEAN
    /\ heard \subseteq Server
    /\ heartbeat \in [Server -> {"off", "due", "wait", "ended"}]
    /\ ticker \in [Server -> Nat]

RegistryInit ==
    /\ servers = [s \in Server |-> None]
    /\ registryUp = TRUE
    /\ heard = {}
    /\ heartbeat = [s \in Server |-> "off"]
    /\ ticker = [s \in Server |-> 0]

\* The servers S are known to the registry, which may be down.
registered(S) ==
    /\ servers = [s \in Server |-> IF s \in S THEN 0 ELSE None]
    /\ registryUp \in BOOLEAN
    /\ heard = S
    /\ heartbeat = [s \in Server |-> IF s \in S THEN "wait" ELSE "off"]
    /\ ticker = [s \in Server |-> 0]
----------------------------------------------------------------------------
(* The registry process *)

putServer(s) == servers' = [servers EXCEPT ![s] = 0] /\ heard' = heard \cup {s}

alive == {s \in Server : servers[s] # None /\ (Timeout = 0 \/ servers[s] < Timeout)}

\* aliveServers drops what is not alive while it lists the rest.
forgetDead == servers' = [s \in Server |-> IF s \in alive THEN servers[s] ELSE None]

\* The registry keeps nothing: a process that starts has an empty table.
registryStops ==
    /\ registryUp /\ registryUp' = FALSE
    /\ servers' = [s \in Server |-> None] /\ heard' = {}
    /\ UNCHANGED <<heartbeat, ticker>>

registryStarts ==
    /\ ~registryUp /\ registryUp' = TRUE
    /\ UNCHANGED <<servers, heard, heartbeat, ticker>>
----------------------------------------------------------------------------
(* The server processes *)

\* Heartbeat is called: its first request is sent before the loop starts.
Heartbeat(s) ==
    /\ heartbeat[s] = "off"
    /\ heartbeat' = [heartbeat EXCEPT ![s] = "due"]
    /\ ticker' = [ticker EXCEPT ![s] = 0]
    /\ UNCHANGED <<servers, registryUp, heard>>

\* The request arrives, and its answer may still be lost; or it does not
\* arrive.  Any error ends the loop for good; the status is not looked at.
sendHeartbeat(s) ==
    /\ heartbeat[s] = "due"
    /\ \/ /\ registryUp /\ putServer(s)
          /\ \E next \in {"wait", "ended"} : heartbeat' = [heartbeat EXCEPT ![s] = next]
       \/ /\ heartbeat' = [heartbeat EXCEPT ![s] = "ended"]
          /\ UNCHANGED <<servers, heard>>
    /\ UNCHANGED <<registryUp, ticker>>

serverDies(s) ==
    /\ heartbeat[s] # "off"
    /\ heartbeat' = [heartbeat EXCEPT ![s] = "off"]
    /\ heard' = heard \ {s}
    /\ UNCHANGED <<servers, registryUp, ticker>>

\* A unit of time passes.  A request that is due is sent, or has failed,
\* within its unit.
registryTick ==
    /\ \A s \in Server : heartbeat[s] # "due"
    /\ servers' = [s \in Server |-> IF servers[s] = None \/ servers[s] = Timeout
                                    THEN servers[s] ELSE servers[s] + 1]
    /\ LET fires == {s \in Server : heartbeat[s] = "wait" /\ ticker[s] + 1 >= period}
       IN /\ heartbeat' = [s \in Server |-> IF s \in fires THEN "due" ELSE heartbeat[s]]
          /\ ticker' = [s \in Server |-> IF s \in fires \/ heartbeat[s] # "wait"
                                         THEN 0 ELSE ticker[s] + 1]
    /\ UNCHANGED <<registryUp, heard>>

registryNext ==
    \/ registryStops \/ registryStarts
    \/ \E s \in Server : Heartbeat(s) \/ sendHeartbeat(s) \/ serverDies(s)
----------------------------------------------------------------------------
beating(s) == heartbeat[s] \in {"due", "wait"}

\* Heartbeat's default "make sure there is enough time to send heart beat before
\* it's removed from registry" (registry.go:100): a server whose loop runs is
\* alive in the table of every registry process that has heard from it, whenever
\* the table is read.
BeatingServersListed ==
    (Duration < Timeout /\ (Duration = 0 => Timeout = DefaultTimeout)) =>
        \A s \in heard : beating(s) => s \in alive
=============================================================================

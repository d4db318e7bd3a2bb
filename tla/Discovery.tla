------------------------------ MODULE Discovery ------------------------------
(***************************************************************************)
(* The discoveries of psygo/rpc/xclient: MultiServersDiscovery, a list the *)
(* application gives (discovery.go), and RegistryDiscovery, a list fetched *)
(* from the registry and kept for a while (discovery_gee.go).  Get and     *)
(* GetAll are a Refresh and a selection, each under its own lock of d.mu.  *)
(***************************************************************************)
EXTENDS Registry, Sequences, FiniteSets

CONSTANTS Caller,         \* goroutines that use the discovery
          UpdateTimeout,  \* RegistryDiscovery.timeout
          MaxIndex        \* bound on the random start of index

ASSUME DiscoveryAssumption ==
    /\ UpdateTimeout \in Nat \ {0} /\ MaxIndex \in Nat /\ None \notin Caller
    /\ IsFiniteSet(Server)

VARIABLES
    kind,     \* which discovery it is, "multi" or "registry"
    list,     \* servers
    listAge,  \* units since lastUpdate; it stops at UpdateTimeout
    index,    \* the position of round robin
    dmu,      \* the goroutine that holds d.mu while it waits for the registry
    getter,   \* where each goroutine is in Get or GetAll
    mode,     \* what it asked for
    got       \* what it got: the set of servers in the registry's answer, then
              \* the servers Get or GetAll returns

discoveryvars == <<kind, list, listAge, index, dmu, getter, mode, got>>

Mode == {"random", "roundRobin", "all"}

DiscoveryTypeOK ==
    /\ kind \in {"multi", "registry"}
    /\ list \in Seq(Server) /\ Len(list) <= Cardinality(Server)
    /\ listAge \in 0..UpdateTimeout
    /\ index \in Nat
    /\ dmu \in Caller \cup {None}
    /\ getter \in [Caller -> {"idle", "refresh", "store", "select", "selected", "failed"}]
    /\ mode \in [Caller -> Mode]
    /\ got \in [Caller -> SUBSET Server]

DiscoveryInit ==
    /\ listAge = UpdateTimeout
    /\ index \in 0..MaxIndex
    /\ dmu = None
    /\ getter = [c \in Caller |-> "idle"]
    /\ mode = [c \in Caller |-> "all"]
    /\ got = [c \in Caller |-> {}]

\* The registry sorts its answer.
inOrder(S) ==
    CHOOSE f \in [1..Cardinality(S) -> S] : \A i, j \in DOMAIN f : i < j => f[i] < f[j]

getterAt(c, from, to) == getter[c] = from /\ getter' = [getter EXCEPT ![c] = to]
----------------------------------------------------------------------------
\* Update, by the application.
Update(S) ==
    /\ dmu = None
    /\ list' = inOrder(S) /\ listAge' = 0
    /\ UNCHANGED <<kind, index, dmu, getter, mode, got>>

Get(c, m) ==
    /\ getterAt(c, "idle", "refresh")
    /\ mode' = [mode EXCEPT ![c] = m]
    /\ UNCHANGED <<kind, list, listAge, index, dmu, got>>

\* A mutant of fresh: the list is never taken to be too old.
everFresh == kind = "multi" \/ listAge < UpdateTimeout \/ list # <<>>

fresh == kind = "multi" \/ listAge < UpdateTimeout

\* Refresh: nothing to do; or the registry is asked, with d.mu held until the
\* answer has been stored; or it cannot be reached and the old list stays.
Refresh(c) ==
    /\ dmu = None
    /\ \/ /\ fresh /\ getterAt(c, "refresh", "select")
          /\ UNCHANGED <<dmu, got, servers>>
       \/ /\ ~fresh /\ registryUp /\ getterAt(c, "refresh", "store")
          /\ dmu' = c
          /\ got' = [got EXCEPT ![c] = alive]
          /\ forgetDead
       \/ /\ ~fresh /\ ~registryUp /\ getterAt(c, "refresh", "failed")
          /\ UNCHANGED <<dmu, got, servers>>
    /\ UNCHANGED <<kind, list, listAge, index, mode, registryUp, heard, heartbeat, ticker>>

storeList(c) ==
    /\ getterAt(c, "store", "select")
    /\ dmu = c /\ dmu' = None
    /\ list' = inOrder(got[c]) /\ listAge' = 0
    /\ UNCHANGED <<kind, index, mode, got, registryvars>>

\* The selection, from the list as it is now: it may have become empty since.
select(c) ==
    /\ dmu = None
    /\ LET n == Len(list)
       IN \/ /\ mode[c] = "all" /\ getterAt(c, "select", "selected")
             /\ got' = [got EXCEPT ![c] = {list[i] : i \in 1..n}]
             /\ UNCHANGED index
          \/ /\ mode[c] # "all" /\ n = 0 /\ getterAt(c, "select", "failed")
             /\ UNCHANGED <<got, index>>
          \/ /\ mode[c] = "random" /\ n # 0 /\ getterAt(c, "select", "selected")
             /\ \E i \in 1..n : got' = [got EXCEPT ![c] = {list[i]}]
             /\ UNCHANGED index
          \/ /\ mode[c] = "roundRobin" /\ n # 0 /\ getterAt(c, "select", "selected")
             /\ got' = [got EXCEPT ![c] = {list[(index % n) + 1]}]
             /\ index' = (index + 1) % n
    /\ UNCHANGED <<kind, list, listAge, dmu, mode, registryvars>>

\* The caller takes the result; the variables of Get are gone.
getReturns(c) ==
    /\ getter[c] \in {"selected", "failed"}
    /\ getter' = [getter EXCEPT ![c] = "idle"]
    /\ mode' = [mode EXCEPT ![c] = "all"]
    /\ got' = [got EXCEPT ![c] = {}]
    /\ UNCHANGED <<kind, list, listAge, index, dmu>>

\* Time passes for the list and for the registry.
tick ==
    /\ registryTick
    /\ listAge' = IF listAge = UpdateTimeout THEN listAge ELSE listAge + 1
    /\ UNCHANGED <<kind, list, index, dmu, getter, mode, got>>

getNext(c) == Refresh(c) \/ storeList(c) \/ select(c)
----------------------------------------------------------------------------
\* As long as the registry stays up and answers (Refresh holds d.mu until it does),
\* and Get is called, a server whose heartbeat loop keeps running is in the list
\* for good, whatever was lost before, and one whose loop has ended, because the
\* server died or one request failed, is out of it for good: Get cannot return it
\* any more.
ListConverges ==
    \A s \in Server :
        (/\ <>[]registryUp /\ []<>(dmu = None)
         /\ []<>(kind = "registry" /\ \E c \in Caller : getter[c] = "refresh")) =>
            /\ <>[]beating(s) => <>[](\E i \in DOMAIN list : list[i] = s)
            /\ <>[]~beating(s) => <>[](\A i \in DOMAIN list : list[i] # s)
=============================================================================

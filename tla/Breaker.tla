------------------------------ MODULE Breaker ------------------------------
(***************************************************************************)
(* The circuit breaker, psygo/rpc/breaker/breaker.go.                      *)
(*                                                                         *)
(* Goroutines call Execute over and over.  Only NewGeneration takes the    *)
(* breaker's mutex; every other access to state, generation and counts is  *)
(* a data race.  So the reads of currentState, SetState, NewGeneration and *)
(* the two halves of an increment are steps of their own here; the write   *)
(* of a count is one step with the comparison that follows it, and the     *)
(* state and the expiry are read together in currentState.                 *)
(*                                                                         *)
(* Exact abstractions: time matters only through expiry.Before(now), so    *)
(* expiry is zero, running or past; generations are only compared, so the  *)
(* model keeps the set of executions admitted in the current one; counts   *)
(* are only compared with maxRequests and with the threshold of            *)
(* readyToTrip, so they stop growing one above it.                         *)
(***************************************************************************)
EXTENDS Naturals, FiniteSets

CONSTANTS Caller,       \* goroutines that call Execute
          maxRequests,  \* Settings.MaxRequests
          Trip,         \* readyToTrip: ConsecutiveFailures > Trip
          HasInterval   \* Settings.Interval # 0

ASSUME BreakerAssumption ==
    /\ maxRequests \in Nat \ {0} /\ Trip \in Nat /\ HasInterval \in BOOLEAN
    /\ IsFiniteSet(Caller)

VARIABLES
    active,     \* the callers that use the breaker
    state,      \* "closed", "halfopen" or "open"
    expiry,     \* "zero", "running" or "past"
    requests, successes, failures,  \* Requests and the Consecutive counts
    current,    \* callers whose generation is the breaker's
    pc,         \* what each caller does next
    next,       \* what it does after currentState or NewGeneration
    seen,       \* the state it got from currentState
    ok,         \* isSuccess of its request's result
    tmp         \* the count it has read and will write back plus one

counts == <<requests, successes, failures>>
locals == <<active, next, seen, ok, tmp>>
vars == <<state, expiry, counts, current, pc, locals>>

MaxOf(a, b) == IF a > b THEN a ELSE b
CountBound == MaxOf(maxRequests, Trip) + 1

\* Mutant: a count moves by two, past the bound.
IncTwice(n) == n + 2

\* A count plus one, kept below the bound no comparison looks beyond.
Inc(n) == IF n < CountBound THEN n + 1 ELSE n

Init ==
    /\ active \in SUBSET Caller \ {{}}
    /\ state = "closed"
    /\ expiry = IF HasInterval THEN "running" ELSE "zero"
    /\ requests = 0 /\ successes = 0 /\ failures = 0
    /\ current = {}
    /\ pc = [c \in Caller |-> "idle"]
    /\ next = [c \in Caller |-> "idle"]
    /\ seen = [c \in Caller |-> "closed"]
    /\ ok = [c \in Caller |-> TRUE]
    /\ tmp = [c \in Caller |-> 0]

Goto(c, to) == pc' = [pc EXCEPT ![c] = to]

\* Where SetState and NewGeneration return to: the rest of currentState, or
\* the end of afterRequest.
back(c) == IF next[c] = "idle" THEN "idle" ELSE "read"

\* Mutant: now.Before(expiry).
NowBeforeExpiry == expiry = "running"

\* expiry.Before(now): the zero time is before every other.
BeforeNow == expiry \in {"zero", "past"}

\* The clock reaches expiry.
Expire ==
    /\ expiry = "running" /\ expiry' = "past"
    /\ UNCHANGED <<state, counts, current, pc, locals>>
----------------------------------------------------------------------------
(* currentState, SetState, NewGeneration *)

Execute(c) ==
    /\ pc[c] = "idle" /\ c \in active
    /\ Goto(c, "current")
    /\ next' = [next EXCEPT ![c] = "admit"]
    /\ UNCHANGED <<state, expiry, counts, current, active, seen, ok, tmp>>

\* Mutant: an open breaker becomes half-open at once.
OpenIgnoresExpiry(c) ==
    /\ pc[c] = "current"
    /\ Goto(c, IF state = "closed" /\ expiry = "past" THEN "renew"
               ELSE IF state = "open" THEN "halfopen" ELSE "read")
    /\ UNCHANGED <<state, expiry, counts, current, locals>>

\* The switch of currentState: a closed breaker starts a new generation when
\* its interval is over, an open one becomes half-open after its timeout.
currentState(c) ==
    /\ pc[c] = "current"
    /\ Goto(c, IF state = "closed" /\ expiry = "past" THEN "renew"
               ELSE IF state = "open" /\ BeforeNow THEN "halfopen" ELSE "read")
    /\ UNCHANGED <<state, expiry, counts, current, locals>>

\* SetState up to its call of NewGeneration; pc is the target.
SetState(c) ==
    /\ pc[c] \in {"open", "closed", "halfopen"}
    /\ state' = pc[c]
    /\ next' = [next EXCEPT ![c] = IF pc[c] = "halfopen" THEN @ ELSE "idle"]
    /\ pc' = [pc EXCEPT ![c] = IF state # @ THEN "renew" ELSE back(c)']
    /\ UNCHANGED <<expiry, counts, current, active, seen, ok, tmp>>

\* Mutant: the half-open case of the switch is missing.
RenewKeepsExpiry(c) ==
    /\ pc[c] = "renew"
    /\ requests' = 0 /\ successes' = 0 /\ failures' = 0
    /\ current' = {}
    /\ expiry' = IF state = "open" \/ (state = "closed" /\ HasInterval)
                 THEN "running" ELSE IF state = "halfopen" THEN expiry ELSE "zero"
    /\ Goto(c, back(c))
    /\ UNCHANGED <<state, locals>>

\* Mutant: no Counts.Clear.
RenewKeepsCounts(c) ==
    /\ pc[c] = "renew"
    /\ current' = {}
    /\ expiry' = IF state = "open" \/ (state = "closed" /\ HasInterval)
                 THEN "running" ELSE "zero"
    /\ Goto(c, back(c))
    /\ UNCHANGED <<state, counts, locals>>

\* Under the mutex: a new generation, zero counts, and the expiry of the state.
NewGeneration(c) ==
    /\ pc[c] = "renew"
    /\ requests' = 0 /\ successes' = 0 /\ failures' = 0
    /\ current' = {}
    /\ expiry' = IF state = "open" \/ (state = "closed" /\ HasInterval)
                 THEN "running" ELSE "zero"
    /\ Goto(c, back(c))
    /\ UNCHANGED <<state, locals>>

\* return cb.state, cb.generation: the state is read first.
readState(c) ==
    /\ pc[c] = "read"
    /\ seen' = [seen EXCEPT ![c] = state]
    /\ Goto(c, "generation")
    /\ UNCHANGED <<state, expiry, counts, current, active, next, ok, tmp>>
----------------------------------------------------------------------------
(* beforeRequest, the request, counts.OnRequest *)

\* The generation currentState returns is kept for afterRequest.
admitGeneration(c) ==
    /\ pc[c] = "generation" /\ next[c] = "admit"
    /\ current' = current \cup {c}
    /\ Goto(c, "admit")
    /\ UNCHANGED <<state, expiry, counts, locals>>

\* Mutant: requests >= maxRequests.
AdmitTooFew(c) ==
    /\ pc[c] = "admit"
    /\ IF seen[c] = "open" \/ (seen[c] = "halfopen" /\ requests >= maxRequests)
       THEN Goto(c, "idle") ELSE Goto(c, "request")
    /\ UNCHANGED <<state, expiry, counts, current, locals>>

beforeRequest(c) ==
    /\ pc[c] = "admit"
    /\ IF seen[c] = "open" \/ (seen[c] = "halfopen" /\ requests > maxRequests)
       THEN Goto(c, "idle") ELSE Goto(c, "request")
    /\ UNCHANGED <<state, expiry, counts, current, locals>>

\* req() returns.
request(c) ==
    /\ pc[c] = "request"
    /\ \E success \in BOOLEAN : ok' = [ok EXCEPT ![c] = success]
    /\ tmp' = [tmp EXCEPT ![c] = requests]
    /\ Goto(c, "count")
    /\ UNCHANGED <<state, expiry, counts, current, active, next, seen>>

OnRequest(c) ==
    /\ pc[c] = "count"
    /\ requests' = Inc(tmp[c])
    /\ next' = [next EXCEPT ![c] = "after"]
    /\ Goto(c, "current")
    /\ UNCHANGED <<state, expiry, successes, failures, current, active, seen, ok, tmp>>
----------------------------------------------------------------------------
(* afterRequest *)

\* A result of an older generation is ignored; otherwise the count that has
\* to grow is read.  A failure in the half-open state is not counted.
afterRequest(c) ==
    /\ pc[c] = "generation" /\ next[c] = "after"
    /\ Goto(c, IF c \notin current \/ seen[c] = "open" THEN "idle"
               ELSE IF ~ok[c] /\ seen[c] = "halfopen" THEN "open" ELSE "result")
    /\ tmp' = [tmp EXCEPT ![c] = IF ok[c] THEN successes ELSE failures]
    /\ UNCHANGED <<state, expiry, counts, current, active, next, seen, ok>>

\* Counts.OnSuccess, and in the half-open state the comparison after it.
OnSuccess(c) ==
    /\ pc[c] = "result" /\ ok[c]
    /\ successes' = Inc(tmp[c]) /\ failures' = 0
    /\ Goto(c, IF seen[c] = "halfopen" /\ successes' > maxRequests
               THEN "closed" ELSE "idle")
    /\ UNCHANGED <<state, expiry, requests, current, locals>>

\* Counts.OnFail in the closed state, and readyToTrip.
OnFail(c) ==
    /\ pc[c] = "result" /\ ~ok[c]
    /\ failures' = Inc(tmp[c]) /\ successes' = 0
    /\ Goto(c, IF failures' > Trip THEN "open" ELSE "idle")
    /\ UNCHANGED <<state, expiry, requests, current, locals>>
----------------------------------------------------------------------------
callerStep(c) ==
    \/ Execute(c) \/ currentState(c) \/ NewGeneration(c) \/ readState(c)
    \/ admitGeneration(c) \/ beforeRequest(c) \/ request(c) \/ OnRequest(c)
    \/ afterRequest(c) \/ OnSuccess(c) \/ OnFail(c) \/ SetState(c)

Next == Expire \/ \E c \in Caller : callerStep(c)

Spec == Init /\ [][Next]_vars

\* Callers keep calling, requests return, and time passes.
Fairness == WF_vars(Expire) /\ \A c \in Caller : WF_vars(callerStep(c))

FairSpec == Spec /\ Fairness
----------------------------------------------------------------------------
\* The types of the variables.
TypeOK ==
    /\ active \subseteq Caller
    /\ state \in {"closed", "halfopen", "open"}
    /\ expiry \in {"zero", "running", "past"}
    /\ requests \in 0..CountBound
    /\ successes \in 0..CountBound
    /\ failures \in 0..CountBound
    /\ current \subseteq Caller
    /\ pc \in [Caller -> {"idle", "current", "renew", "read", "generation", "admit",
                          "request", "count", "result", "open", "closed", "halfopen"}]
    /\ next \in [Caller -> {"idle", "admit", "after"}]
    /\ seen \in [Caller -> {"closed", "halfopen", "open"}]
    /\ ok \in [Caller -> BOOLEAN]
    /\ tmp \in [Caller -> 0..CountBound]

\* Whatever the races do, once no caller is about to call NewGeneration the
\* expiry is the one of the state: an open breaker has a deadline, a half-open
\* one has none (breaker.go:87-98).
ExpiryFitsState ==
    (\A c \in Caller : pc[c] # "renew") =>
      /\ state = "open" => expiry # "zero"
      /\ state = "halfopen" => expiry = "zero"
      /\ state = "closed" => (expiry = "zero" <=> ~HasInterval)

\* An open breaker does not stay open while requests keep coming, whatever
\* the callers race for (breaker.go:198-201).
OpenEnds == state = "open" ~> state # "open"

\* A half-open breaker decides: it closes when more than maxRequests requests
\* in a row were successful (breaker.go:65), or opens after a failure.
HalfOpenEnds == state = "halfopen" ~> state # "halfopen"

\* One caller at a time.
Alone == Cardinality(active) = 1

\* With one caller a half-open breaker does decide (breaker.go:65, :168-172).
HalfOpenDecides == Alone /\ state = "halfopen" ~> state # "halfopen"

\* With one caller a breaker leaves the open state no earlier than its timeout
\* (breaker.go:67), and for the half-open state only.
OpenWaitsForTimeout ==
    [][Alone /\ state = "open" /\ state' # "open"
         => state' = "halfopen" /\ expiry = "past"]_vars

\* With one caller as many requests were counted in the half-open state as
\* have succeeded, so the limit on requests (breaker.go:169) is reached only
\* together with the successes that close the breaker (breaker.go:228): the
\* next probe is always admitted.
HalfOpenAdmits ==
    Alone /\ state = "halfopen" /\ (\A c \in Caller : pc[c] = "idle")
      => requests = successes /\ requests <= maxRequests
=============================================================================

---------------------------- MODULE BreakerProof ----------------------------
(***************************************************************************)
(* What is proved of the circuit breaker.                                  *)
(*                                                                         *)
(* For any number of callers ExpiryFitsState is inductive: a state that    *)
(* has been set without its expiry leaves its caller before NewGeneration. *)
(*                                                                         *)
(* HalfOpenAdmits and OpenWaitsForTimeout are about a breaker with one     *)
(* caller.  Lone says what that caller knows at each of its steps: that    *)
(* the state is still the one it has seen, and, while the breaker is       *)
(* half-open, how far the count of requests is ahead of that of successes. *)
(***************************************************************************)
EXTENDS Breaker, FiniteSetTheorems, TLAPS

\* CountBound bounds the counts, and Inc stays below it.
LEMMA IncBounded ==
  ASSUME NEW n \in 0..CountBound
  PROVE  Inc(n) \in 0..CountBound
BY BreakerAssumption DEF Inc, CountBound, MaxOf

\* The bound is above every value a count is compared with.
LEMMA BoundAboveLimits ==
  CountBound \in Nat /\ maxRequests < CountBound /\ Trip < CountBound
BY BreakerAssumption DEF CountBound, MaxOf

\* A step of a caller keeps every variable in its type.
LEMMA CallerKeepsTypes ==
  ASSUME TypeOK, NEW c \in Caller, callerStep(c)
  PROVE  TypeOK'
<1> USE BoundAboveLimits DEF TypeOK, Goto, counts, locals
<1>1. CASE Execute(c) \/ currentState(c) \/ readState(c) \/ beforeRequest(c)
  BY <1>1 DEF Execute, currentState, readState, beforeRequest
<1>2. CASE SetState(c)
  <2>1. back(c)' \in {"idle", "read"}
    BY DEF back
  <2>2. /\ state' \in {"closed", "halfopen", "open"}
        /\ next' \in [Caller -> {"idle", "admit", "after"}]
    BY <1>2 DEF SetState
  <2>3. pc' = [pc EXCEPT ![c] = IF state # pc[c] THEN "renew" ELSE back(c)']
    BY <1>2 DEF SetState
  <2>4. UNCHANGED <<expiry, requests, successes, failures, current, active, seen, ok, tmp>>
    BY <1>2 DEF SetState
  <2> QED
    BY <2>1, <2>2, <2>3, <2>4
<1>3. CASE NewGeneration(c)
  BY <1>3 DEF NewGeneration, back
<1>4. CASE admitGeneration(c) \/ afterRequest(c)
  BY <1>4 DEF admitGeneration, afterRequest
<1>5. CASE request(c)
  BY <1>5 DEF request
<1>6. CASE OnRequest(c)
  BY <1>6, IncBounded DEF OnRequest
<1>7. CASE OnSuccess(c)
  BY <1>7, IncBounded DEF OnSuccess
<1>8. CASE OnFail(c)
  BY <1>8, IncBounded DEF OnFail
<1> QED
  BY <1>1, <1>2, <1>3, <1>4, <1>5, <1>6, <1>7, <1>8 DEF callerStep

\* Every variable of the breaker keeps its type, and no count passes its bound,
\* whatever the callers race for.
THEOREM BreakerTypesHold == Spec => []TypeOK
<1>1. Init => TypeOK
  BY BoundAboveLimits DEF Init, TypeOK
<1>2. TypeOK /\ [Next]_vars => TypeOK'
  <2> SUFFICES ASSUME TypeOK, [Next]_vars PROVE TypeOK'
    OBVIOUS
  <2>1. CASE Expire
    BY <2>1 DEF Expire, TypeOK, counts, locals
  <2>2. CASE \E c \in Caller : callerStep(c)
    BY <2>2, CallerKeepsTypes
  <2>3. CASE UNCHANGED vars
    BY <2>3 DEF vars, TypeOK, counts, locals
  <2> QED
    BY <2>1, <2>2, <2>3 DEF Next
<1> QED
  BY <1>1, <1>2, PTL DEF Spec
----------------------------------------------------------------------------
(* The expiry *)

\* A caller that changes the state stays before NewGeneration until the expiry
\* is the one of the state.
LEMMA CallerKeepsExpiry ==
  ASSUME TypeOK, ExpiryFitsState, NEW c \in Caller, callerStep(c)
  PROVE  ExpiryFitsState'
<1>1. CASE NewGeneration(c)
  BY <1>1 DEF NewGeneration, ExpiryFitsState, locals, TypeOK, Goto
<1>2. CASE SetState(c) /\ state # pc[c]
  <2>1. pc'[c] = "renew"
    BY <1>2 DEF SetState, TypeOK
  <2> QED
    BY <2>1 DEF ExpiryFitsState
<1>3. CASE ~NewGeneration(c) /\ ~(SetState(c) /\ state # pc[c])
  <2>1. UNCHANGED <<state, expiry>>
    BY <1>3 DEF callerStep, SetState, Execute, currentState, readState, admitGeneration,
       beforeRequest, request, OnRequest, afterRequest, OnSuccess, OnFail
  <2>2. \A d \in Caller : pc[d] = "renew" => pc'[d] = "renew"
    <3>1. pc[c] # "renew" /\ \E to : pc' = [pc EXCEPT ![c] = to]
      BY <1>3 DEF callerStep, SetState, Execute, currentState, readState, admitGeneration,
         beforeRequest, request, OnRequest, afterRequest, OnSuccess, OnFail, Goto
    <3> QED
      BY <3>1 DEF TypeOK
  <2> QED
    BY <2>1, <2>2 DEF ExpiryFitsState
<1> QED
  BY <1>1, <1>2, <1>3

\* Once no caller is about to call NewGeneration the expiry is the one of the
\* state, for any number of callers (breaker.go:87-98).
THEOREM ExpiryAlwaysFitsState == Spec => []ExpiryFitsState
<1>1. Init => ExpiryFitsState
  BY BreakerAssumption DEF Init, ExpiryFitsState
<1>2. TypeOK /\ ExpiryFitsState /\ [Next]_vars => ExpiryFitsState'
  <2> SUFFICES ASSUME TypeOK, ExpiryFitsState, [Next]_vars PROVE ExpiryFitsState'
    OBVIOUS
  <2>1. CASE Expire
    BY <2>1 DEF Expire, ExpiryFitsState
  <2>2. CASE \E c \in Caller : callerStep(c)
    BY <2>2, CallerKeepsExpiry
  <2>3. CASE UNCHANGED vars
    BY <2>3 DEF vars, ExpiryFitsState
  <2> QED
    BY <2>1, <2>2, <2>3 DEF Next
<1> QED
  BY <1>1, <1>2, BreakerTypesHold, PTL DEF Spec
----------------------------------------------------------------------------
(* One caller *)

\* The caller is on its way to beforeRequest, or has counted its request.
Asking(c) == pc[c] \in {"current", "read", "generation"} /\ next[c] = "admit"
Counted(c) == pc[c] \in {"current", "read", "generation"} /\ next[c] = "after"

\* What the only caller knows at each of its steps.
Knows(c) ==
    /\ pc[c] \in {"generation", "admit", "request", "count", "result"} => seen[c] = state
    /\ pc[c] \in {"current", "read", "generation"} => next[c] # "idle"
    /\ pc[c] \in {"request", "count", "result"} \/ Counted(c) => state # "open"
    /\ pc[c] = "renew" /\ next[c] = "after" => state = "closed"
    /\ pc[c] = "halfopen" => state = "open" /\ expiry = "past" /\ next[c] = "admit"
    /\ pc[c] = "closed" => state = "halfopen"
    /\ pc[c] = "open" => state # "open"
    /\ pc[c] = "result" => ok[c] \/ state = "closed"

\* In the half-open state requests is ahead of successes from OnRequest until
\* OnSuccess, and by one; and the request belongs to the current generation.
Probes(c) ==
    state = "halfopen" =>
      /\ (pc[c] \in {"idle", "admit", "request", "count"} \/ Asking(c)) =>
           requests = successes /\ successes <= maxRequests
      /\ (pc[c] = "result" \/ Counted(c)) =>
           requests = successes + 1 /\ successes <= maxRequests
      /\ pc[c] = "count" => tmp[c] = requests
      /\ pc[c] = "result" => tmp[c] = successes
      /\ (pc[c] \in {"admit", "request", "count"} \/ Counted(c)) => c \in current

Lone ==
    /\ \A d \in Caller \ active : pc[d] = "idle"
    /\ \A c \in Caller : active = {c} => Knows(c) /\ Probes(c)

\* A caller that does not use the breaker takes no step.
LEMMA OnlyActiveStep ==
  ASSUME Lone, NEW c \in Caller, callerStep(c)
  PROVE  c \in active
BY DEF Lone, callerStep, SetState, Execute, currentState, NewGeneration, readState,
   admitGeneration, beforeRequest, request, OnRequest, afterRequest, OnSuccess, OnFail

\* The only caller's steps keep what it knows of the state.
LEMMA LoneKeepsKnows ==
  ASSUME TypeOK, ExpiryFitsState, Lone, NEW c \in Caller, active = {c}, callerStep(c)
  PROVE  Knows(c)'
<1> USE DEF Knows, Asking, Counted, Goto, TypeOK
<1>1. Knows(c)
  BY DEF Lone
<1>2. CASE Execute(c)
  BY <1>1, <1>2 DEF Execute
<1>3. CASE currentState(c)
  <2>1. \A d \in Caller : pc[d] # "renew"
    BY <1>3 DEF Lone, currentState
  <2>2. state = "open" => expiry # "zero"
    BY <2>1 DEF ExpiryFitsState
  <2> QED
    BY <1>1, <1>3, <2>2 DEF currentState, locals, BeforeNow
<1>4. CASE NewGeneration(c)
  BY <1>1, <1>4 DEF NewGeneration, locals, back
<1>5. CASE readState(c)
  BY <1>1, <1>5 DEF readState
<1>6. CASE admitGeneration(c)
  BY <1>1, <1>6 DEF admitGeneration, locals
<1>7. CASE beforeRequest(c)
  BY <1>1, <1>7 DEF beforeRequest, locals
<1>8. CASE request(c)
  BY <1>1, <1>8 DEF request
<1>9. CASE OnRequest(c)
  BY <1>1, <1>9 DEF OnRequest
<1>10. CASE afterRequest(c)
  BY <1>1, <1>10 DEF afterRequest
<1>11. CASE OnSuccess(c)
  BY <1>1, <1>11 DEF OnSuccess, locals
<1>12. CASE OnFail(c)
  BY <1>1, <1>12 DEF OnFail, locals
<1>13. CASE SetState(c)
  <2>1. state' = pc[c] /\ state # pc[c] /\ pc'[c] = "renew"
    BY <1>1, <1>13 DEF SetState
  <2>2. next'[c] = IF pc[c] = "halfopen" THEN next[c] ELSE "idle"
    BY <1>13 DEF SetState
  <2> QED
    BY <1>1, <2>1, <2>2
<1> QED
  BY <1>2, <1>3, <1>4, <1>5, <1>6, <1>7, <1>8, <1>9, <1>10, <1>11, <1>12, <1>13 DEF callerStep

\* They keep the counts of the half-open state together.
LEMMA LoneKeepsProbes ==
  ASSUME TypeOK, Lone, NEW c \in Caller, active = {c}, callerStep(c)
  PROVE  Probes(c)'
<1> USE BoundAboveLimits, BreakerAssumption DEF Probes, Asking, Counted, Goto, TypeOK
<1>1. Knows(c) /\ Probes(c)
  BY DEF Lone
<1>2. CASE Execute(c)
  BY <1>1, <1>2 DEF Execute, counts
<1>3. CASE currentState(c)
  BY <1>1, <1>3 DEF currentState, locals, counts
<1>4. CASE NewGeneration(c)
  BY <1>1, <1>4 DEF NewGeneration, locals, back, Knows
<1>5. CASE readState(c)
  BY <1>1, <1>5 DEF readState, counts
<1>6. CASE admitGeneration(c)
  BY <1>1, <1>6 DEF admitGeneration, locals, counts
<1>7. CASE beforeRequest(c)
  BY <1>1, <1>7 DEF beforeRequest, locals, counts
<1>8. CASE request(c)
  BY <1>1, <1>8 DEF request, counts
<1>9. CASE OnRequest(c)
  BY <1>1, <1>9 DEF OnRequest, Inc
<1>10. CASE afterRequest(c)
  BY <1>1, <1>10 DEF afterRequest, counts, Knows
<1>11. CASE OnSuccess(c)
  BY <1>1, <1>11 DEF OnSuccess, locals, Inc, Knows
<1>12. CASE OnFail(c)
  BY <1>1, <1>12 DEF OnFail, locals, Knows
<1>13. CASE SetState(c)
  <2>1. pc'[c] = "renew"
    BY <1>1, <1>13 DEF SetState, Knows
  <2> QED
    BY <2>1
<1> QED
  BY <1>2, <1>3, <1>4, <1>5, <1>6, <1>7, <1>8, <1>9, <1>10, <1>11, <1>12, <1>13 DEF callerStep

\* The argument behind the properties of a breaker with one caller, inductive.
LEMMA LoneInvariant == Spec => []Lone
<1>1. Init => Lone
  BY BreakerAssumption DEF Init, Lone, Knows, Probes, Asking, Counted
<1>2. TypeOK /\ ExpiryFitsState /\ Lone /\ [Next]_vars => Lone'
  <2> SUFFICES ASSUME TypeOK, ExpiryFitsState, Lone, [Next]_vars PROVE Lone'
    OBVIOUS
  <2>1. CASE Expire
    BY <2>1 DEF Expire, Lone, Knows, Probes, Asking, Counted, locals, counts
  <2>2. ASSUME NEW c \in Caller, callerStep(c) PROVE Lone'
    <3>1. active' = active /\ \E to : pc' = [pc EXCEPT ![c] = to]
      BY <2>2 DEF callerStep, SetState, Execute, currentState, NewGeneration, readState,
         admitGeneration, beforeRequest, request, OnRequest, afterRequest, OnSuccess,
         OnFail, locals, Goto
    <3>2. c \in active
      BY <2>2, OnlyActiveStep
    <3>3. \A d \in Caller \ active' : pc'[d] = "idle"
      BY <3>1, <3>2 DEF Lone, TypeOK
    <3>4. ASSUME NEW d \in Caller, active' = {d} PROVE Knows(d)' /\ Probes(d)'
      <4>1. active = {c} /\ d = c
        BY <3>1, <3>2, <3>4
      <4>2. Knows(c)' /\ Probes(c)'
        BY <2>2, <4>1, LoneKeepsKnows, LoneKeepsProbes
      <4> QED
        BY <4>1, <4>2
    <3> QED
      BY <3>3, <3>4 DEF Lone
  <2>3. CASE UNCHANGED vars
    BY <2>3 DEF vars, Lone, Knows, Probes, Asking, Counted, locals, counts
  <2> QED
    BY <2>1, <2>2, <2>3 DEF Next
<1> QED
  BY <1>1, <1>2, BreakerTypesHold, ExpiryAlwaysFitsState, PTL DEF Spec

\* Alone means that one caller uses the breaker.
LEMMA AloneHasOneCaller ==
  ASSUME TypeOK, Alone
  PROVE  \E c \in Caller : active = {c}
<1>1. IsFiniteSet(active)
  BY BreakerAssumption, FS_Subset DEF TypeOK
<1>2. PICK c : active = {c}
  BY <1>1, FS_Singleton DEF Alone
<1> QED
  BY <1>2 DEF TypeOK

\* With one caller the half-open state always admits the next probe, for every
\* MaxRequests and threshold (breaker.go:169, :228).
THEOREM HalfOpenAlwaysAdmits == Spec => []HalfOpenAdmits
<1>1. TypeOK /\ Lone => HalfOpenAdmits
  <2> SUFFICES ASSUME TypeOK, Lone, Alone, state = "halfopen",
                      \A c \in Caller : pc[c] = "idle"
               PROVE  requests = successes /\ requests <= maxRequests
    BY DEF HalfOpenAdmits
  <2>1. PICK c \in Caller : active = {c}
    BY AloneHasOneCaller
  <2> QED
    BY <2>1 DEF Lone, Probes, TypeOK
<1> QED
  BY <1>1, BreakerTypesHold, LoneInvariant, PTL

\* With one caller the breaker leaves the open state for the half-open one
\* only, and no earlier than its timeout (breaker.go:67).
THEOREM OpenAlwaysWaitsForTimeout == Spec => OpenWaitsForTimeout
<1>1. ASSUME TypeOK, Lone, [Next]_vars, Alone, state = "open", state' # "open"
      PROVE  state' = "halfopen" /\ expiry = "past"
  <2>1. PICK c \in Caller : active = {c}
    BY <1>1, AloneHasOneCaller
  <2>2. SetState(c)
    <3>1. PICK d \in Caller : callerStep(d)
      BY <1>1 DEF Next, Expire, vars
    <3>2. d = c
      BY <1>1, <2>1, <3>1, OnlyActiveStep
    <3> QED
      BY <1>1, <3>1, <3>2 DEF callerStep, Execute, currentState, NewGeneration, readState,
         admitGeneration, beforeRequest, request, OnRequest, afterRequest, OnSuccess, OnFail
  <2>3. Knows(c)
    BY <1>1, <2>1 DEF Lone
  <2>4. pc[c] = "halfopen"
    BY <1>1, <2>2, <2>3 DEF SetState, Knows
  <2> QED
    BY <2>2, <2>3, <2>4 DEF SetState, Knows
<1>2. TypeOK /\ Lone /\ [Next]_vars =>
        (Alone /\ state = "open" /\ state' # "open" => state' = "halfopen" /\ expiry = "past")
  BY <1>1
<1> QED
  BY <1>2, BreakerTypesHold, LoneInvariant, PTL DEF Spec, OpenWaitsForTimeout
=============================================================================

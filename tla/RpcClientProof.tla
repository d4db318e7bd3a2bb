--------------------------- MODULE RpcClientProof ---------------------------
(***************************************************************************)
(* For every set of calls: a call is done at most once, no registered call *)
(* is forgotten, and a response completes the call that carries its        *)
(* number.  The inductive invariant follows the right to complete a call:  *)
(* it is in pending, or with receive, or with the sender whose write has   *)
(* failed, and registerCall and removeCall hand it over.                   *)
(***************************************************************************)
EXTENDS RpcClient, TLAPS

\* A call nobody has registered has left no trace.
Fresh ==
    \A c \in Call :
      /\ user[c] = "none" => pc[c] = "none"
      /\ pc[c] \in {"none", "send"} =>
           seqOf[c] = 0 /\ done[c] = 0 /\ answeredBy[c] = 0

\* The numbers that were given out are different and below seq.
Numbered ==
    /\ \A c \in Call : seqOf[c] < seq
    /\ \A c, d \in Call : seqOf[c] = seqOf[d] /\ seqOf[c] # 0 => c = d
    /\ \A n \in DOMAIN pending : n # 0 /\ seqOf[pending[n]] = n

\* Only the owner of sending writes, and none does after the shutdown.
Writing ==
    /\ \A c \in Call : pc[c] \in {"write", "close", "failed"} => sending = c /\ seqOf[c] # 0
    /\ shutdown => sending = None
    /\ shutdown <=> rpc = "ended"

\* Whoever may complete a call is the only one, and the call is not done.
Rights ==
    /\ ~shutdown => \A n \in DOMAIN pending : done[pending[n]] = 0
    /\ rcall # None => /\ done[rcall] = 0 /\ seqOf[rcall] = rseq
                       /\ rseq # 0 /\ rseq \notin DOMAIN pending
                       /\ rpc = "body"

Cancelling ==
    \A c \in Call : user[c] = "cancelling" => cseq[c] = 0 \/ cseq[c] = seqOf[c]

\* A completed call was completed by a response with its number.
Answered == \A c \in Call : answeredBy[c] # 0 => answeredBy[c] = seqOf[c]

IInv ==
    /\ TypeOK /\ Fresh /\ Numbered /\ Writing /\ Rights /\ Cancelling
    /\ DoneAtMostOnce /\ NoCallForgotten /\ Answered

\* Every value keeps its type: all steps of the client, the connection and
\* the server are total on the reachable states.
THEOREM TypeCorrect == Spec => []TypeOK
<1>1. Init => TypeOK
  <2> SUFFICES ASSUME Init PROVE TypeOK
    OBVIOUS
  <2> USE DEF Init
  <2>1. CallTypes
    BY DEF CallTypes
  <2>2. ClientTypes
    <3>1. DOMAIN pending = {}
      OBVIOUS
    <3>2. pending \in [DOMAIN pending -> Call]
      OBVIOUS
    <3>3. sending = None /\ seq = 1 /\ closing = FALSE /\ shutdown = FALSE
      OBVIOUS
    <3>4. sending \in Call \cup {None} /\ seq \in Nat \ {0}
      BY <3>3
    <3>5. closing \in BOOLEAN /\ shutdown \in BOOLEAN
      BY <3>3
    <3>6. DOMAIN pending \subseteq Nat
      BY <3>1
    <3> HIDE DEF Init
    <3> QED
      BY <3>2, <3>4, <3>5, <3>6, Zenon DEF ClientTypes
  <2>3. ReceiveTypes
    BY DEF ReceiveTypes
  <2>4. NetTypes
    BY ClientAssumption DEF NetTypes
  <2> QED
    BY <2>1, <2>2, <2>3, <2>4 DEF TypeOK
<1>2. TypeOK /\ [Next]_vars => TypeOK'
  <2> SUFFICES ASSUME TypeOK, [Next]_vars PROVE TypeOK'
    OBVIOUS
  <2> USE DEF TypeOK
  <2>1. ASSUME NEW c \in Call, Go(c) PROVE TypeOK'
    <3>1. CallTypes'
      BY <2>1 DEF Go, CallTypes
    <3>2. ClientTypes'
      BY <2>1 DEF Go, clientvars, ClientTypes
    <3>3. ReceiveTypes'
      BY <2>1 DEF Go, recvvars, ReceiveTypes
    <3>4. NetTypes'
      BY <2>1 DEF Go, netvars, NetTypes
    <3> QED
      BY <3>1, <3>2, <3>3, <3>4
  <2>2. ASSUME NEW c \in Call, ctxDone(c) PROVE TypeOK'
    <3>1. CallTypes'
      BY <2>2 DEF ctxDone, CallTypes
    <3>2. ClientTypes'
      BY <2>2 DEF ctxDone, clientvars, ClientTypes
    <3>3. ReceiveTypes'
      BY <2>2 DEF ctxDone, recvvars, ReceiveTypes
    <3>4. NetTypes'
      BY <2>2 DEF ctxDone, netvars, NetTypes
    <3> QED
      BY <3>1, <3>2, <3>3, <3>4
  <2>3. ASSUME NEW c \in Call, callReturns(c) PROVE TypeOK'
    <3>1. CallTypes'
      BY <2>3 DEF callReturns, CallTypes
    <3>2. ClientTypes'
      BY <2>3 DEF callReturns, clientvars, ClientTypes
    <3>3. ReceiveTypes'
      BY <2>3 DEF callReturns, recvvars, ReceiveTypes
    <3>4. NetTypes'
      BY <2>3 DEF callReturns, netvars, NetTypes
    <3> QED
      BY <3>1, <3>2, <3>3, <3>4
  <2>4. ASSUME NEW c \in Call, callCancelled(c) PROVE TypeOK'
    <3>1. CallTypes'
      BY <2>4 DEF callCancelled, Delete, CallTypes, ClientTypes
    <3>2. ClientTypes'
      BY <2>4 DEF callCancelled, Delete, ClientTypes, CallTypes
    <3>3. ReceiveTypes'
      BY <2>4 DEF callCancelled, recvvars, ReceiveTypes
    <3>4. NetTypes'
      BY <2>4 DEF callCancelled, netvars, NetTypes
    <3> QED
      BY <3>1, <3>2, <3>3, <3>4
  <2>5. ASSUME NEW c \in Call, sendRegister(c) PROVE TypeOK'
    <3>1. CallTypes'
      BY <2>5 DEF sendRegister, registerCall, CallTypes, ClientTypes
    <3>2. ClientTypes'
      BY <2>5 DEF sendRegister, registerCall, ClientTypes, CallTypes
    <3>3. ReceiveTypes'
      BY <2>5 DEF sendRegister, recvvars, ReceiveTypes
    <3>4. NetTypes'
      BY <2>5 DEF sendRegister, netvars, NetTypes
    <3> QED
      BY <3>1, <3>2, <3>3, <3>4
  <2>6. ASSUME NEW c \in Call, sendRefused(c) PROVE TypeOK'
    <3>1. CallTypes'
      BY <2>6 DEF sendRefused, Done, CallTypes
    <3>2. ClientTypes'
      BY <2>6 DEF sendRefused, clientvars, ClientTypes
    <3>3. ReceiveTypes'
      BY <2>6 DEF sendRefused, recvvars, ReceiveTypes
    <3>4. NetTypes'
      BY <2>6 DEF sendRefused, netvars, NetTypes
    <3> QED
      BY <3>1, <3>2, <3>3, <3>4
  <2>7. ASSUME NEW c \in Call, sendWrite(c) PROVE TypeOK'
    <3>1. CallTypes'
      BY <2>7 DEF sendWrite, CallTypes
    <3>2. ClientTypes'
      BY <2>7 DEF sendWrite, ClientTypes
    <3>3. ReceiveTypes'
      BY <2>7 DEF sendWrite, recvvars, ReceiveTypes
    <3>4. NetTypes'
      BY <2>7 DEF sendWrite, NetTypes, CallTypes
    <3> QED
      BY <3>1, <3>2, <3>3, <3>4
  <2>8. ASSUME NEW c \in Call, sendWriteFails(c) PROVE TypeOK'
    <3>1. CallTypes'
      BY <2>8 DEF sendWriteFails, CallTypes
    <3>2. ClientTypes'
      BY <2>8 DEF sendWriteFails, clientvars, ClientTypes
    <3>3. ReceiveTypes'
      BY <2>8 DEF sendWriteFails, recvvars, ReceiveTypes
    <3>4. NetTypes'
      BY <2>8 DEF sendWriteFails, NetTypes, CallTypes
    <3> QED
      BY <3>1, <3>2, <3>3, <3>4
  <2>19. ASSUME NEW c \in Call, writeCloses(c) PROVE TypeOK'
    <3>1. CallTypes'
      BY <2>19 DEF writeCloses, CallTypes
    <3>2. ClientTypes'
      BY <2>19 DEF writeCloses, clientvars, ClientTypes
    <3>3. ReceiveTypes'
      BY <2>19 DEF writeCloses, recvvars, ReceiveTypes
    <3>4. NetTypes'
      BY <2>19 DEF writeCloses, NetTypes
    <3> QED
      BY <3>1, <3>2, <3>3, <3>4
  <2>9. ASSUME NEW c \in Call, sendFailed(c) PROVE TypeOK'
    <3>1. CallTypes'
      BY <2>9 DEF sendFailed, Lookup, Delete, Done, CallTypes, ClientTypes
    <3>2. ClientTypes'
      BY <2>9 DEF sendFailed, Lookup, Delete, Done, ClientTypes, CallTypes
    <3>3. ReceiveTypes'
      BY <2>9 DEF sendFailed, recvvars, ReceiveTypes
    <3>4. NetTypes'
      BY <2>9 DEF sendFailed, netvars, NetTypes
    <3> QED
      BY <3>1, <3>2, <3>3, <3>4
  <2>10. ASSUME readHeader PROVE TypeOK'
    <3>1. CallTypes'
      BY <2>10 DEF readHeader, callvars, CallTypes
    <3>2. ClientTypes'
      BY <2>10 DEF readHeader, clientvars, ClientTypes
    <3>3. ReceiveTypes'
      BY <2>10 DEF readHeader, ReceiveTypes, NetTypes
    <3>4. NetTypes'
      BY <2>10 DEF readHeader, NetTypes
    <3> QED
      BY <3>1, <3>2, <3>3, <3>4
  <2>11. ASSUME readHeaderFails PROVE TypeOK'
    <3>1. CallTypes'
      BY <2>11 DEF readHeaderFails, callvars, CallTypes
    <3>2. ClientTypes'
      BY <2>11 DEF readHeaderFails, clientvars, ClientTypes
    <3>3. ReceiveTypes'
      BY <2>11 DEF readHeaderFails, ReceiveTypes
    <3>4. NetTypes'
      BY <2>11 DEF readHeaderFails, netvars, NetTypes
    <3> QED
      BY <3>1, <3>2, <3>3, <3>4
  <2>12. ASSUME receiveRemove PROVE TypeOK'
    <3>1. CallTypes'
      BY <2>12 DEF receiveRemove, callvars, CallTypes
    <3>2. ClientTypes'
      BY <2>12 DEF receiveRemove, Lookup, Delete, ClientTypes
    <3>3. ReceiveTypes'
      BY <2>12 DEF receiveRemove, Lookup, Delete, ReceiveTypes, ClientTypes
    <3>4. NetTypes'
      BY <2>12 DEF receiveRemove, netvars, NetTypes
    <3> QED
      BY <3>1, <3>2, <3>3, <3>4
  <2>13. ASSUME receiveBody PROVE TypeOK'
    <3>1. CallTypes'
      BY <2>13 DEF receiveBody, Done, CallTypes, ReceiveTypes
    <3>2. ClientTypes'
      BY <2>13 DEF receiveBody, clientvars, ClientTypes
    <3>3. ReceiveTypes'
      BY <2>13 DEF receiveBody, Done, ReceiveTypes
    <3>4. NetTypes'
      BY <2>13 DEF receiveBody, netvars, NetTypes
    <3> QED
      BY <3>1, <3>2, <3>3, <3>4
  <2>14. ASSUME terminateCalls PROVE TypeOK'
    <3>1. CallTypes'
      BY <2>14 DEF terminateCalls, CallTypes, ClientTypes
    <3>2. ClientTypes'
      BY <2>14 DEF terminateCalls, ClientTypes
    <3>3. ReceiveTypes'
      BY <2>14 DEF terminateCalls, ReceiveTypes
    <3>4. NetTypes'
      BY <2>14 DEF terminateCalls, netvars, NetTypes
    <3> QED
      BY <3>1, <3>2, <3>3, <3>4
  <2>15. ASSUME Close PROVE TypeOK'
    <3>1. CallTypes'
      BY <2>15 DEF Close, callvars, CallTypes
    <3>2. ClientTypes'
      BY <2>15 DEF Close, ClientTypes
    <3>3. ReceiveTypes'
      BY <2>15 DEF Close, recvvars, ReceiveTypes
    <3>4. NetTypes'
      BY <2>15 DEF Close, NetTypes
    <3> QED
      BY <3>1, <3>2, <3>3, <3>4
  <2>16. ASSUME connectionBreaks PROVE TypeOK'
    <3>1. CallTypes'
      BY <2>16 DEF connectionBreaks, callvars, CallTypes
    <3>2. ClientTypes'
      BY <2>16 DEF connectionBreaks, clientvars, ClientTypes
    <3>3. ReceiveTypes'
      BY <2>16 DEF connectionBreaks, recvvars, ReceiveTypes
    <3>4. NetTypes'
      BY <2>16 DEF connectionBreaks, NetTypes
    <3> QED
      BY <3>1, <3>2, <3>3, <3>4
  <2>17. ASSUME NEW n \in Seqs, serverAnswers(n) PROVE TypeOK'
    <3>1. CallTypes'
      BY <2>17 DEF serverAnswers, callvars, CallTypes
    <3>2. ClientTypes'
      BY <2>17 DEF serverAnswers, clientvars, ClientTypes
    <3>3. ReceiveTypes'
      BY <2>17 DEF serverAnswers, recvvars, ReceiveTypes
    <3>4. NetTypes'
      BY <2>17, ClientAssumption DEF serverAnswers, NetTypes
    <3> QED
      BY <3>1, <3>2, <3>3, <3>4
  <2>18. ASSUME UNCHANGED vars PROVE TypeOK'
    <3>1. CallTypes'
      BY <2>18 DEF vars, callvars, CallTypes
    <3>2. ClientTypes'
      BY <2>18 DEF vars, clientvars, ClientTypes
    <3>3. ReceiveTypes'
      BY <2>18 DEF vars, recvvars, ReceiveTypes
    <3>4. NetTypes'
      BY <2>18 DEF vars, netvars, NetTypes
    <3> QED
      BY <3>1, <3>2, <3>3, <3>4
  <2> QED
    BY <2>1, <2>2, <2>3, <2>4, <2>5, <2>6, <2>7, <2>8, <2>9, <2>10, 
       <2>11, <2>12, <2>13, <2>14, <2>15, <2>16, <2>17, <2>18, <2>19
       DEF Next, callerStep, sendStep, receiveStep
<1> QED
  BY <1>1, <1>2, PTL DEF Spec

\* What the steps have to preserve besides the types.
Rest ==
    /\ Fresh /\ Numbered /\ Writing /\ Rights /\ Cancelling
    /\ DoneAtMostOnce /\ NoCallForgotten /\ Answered

\* A new entry does not displace another: seq is above every key of pending.
LEMMA RegisterKeepsPending ==
    ASSUME IInv, NEW c \in Call, sendRegister(c)
    PROVE  NoCallForgotten'
<1> SUFFICES ASSUME NEW d \in Call, seqOf'[d] # 0, done'[d] = 0
             PROVE  IsPending(d)' \/ rcall' = d \/ user'[d] = "cancelled"
  BY DEF NoCallForgotten
<1>1. CASE d = c
  <2>1. seq \in DOMAIN pending' /\ pending'[seq] = c
    BY DEF sendRegister, registerCall
  <2> QED
    BY <1>1, <2>1 DEF IsPending
<1>2. CASE d # c
  <2>1. seqOf[d] # 0 /\ done[d] = 0 /\ rcall' = rcall /\ user' = user
    BY <1>2 DEF sendRegister, registerCall, recvvars, IInv, TypeOK, CallTypes
  <2>2. CASE IsPending(d)
    <3>1. PICK n \in DOMAIN pending : pending[n] = d
      BY <2>2 DEF IsPending
    <3>2. n \in DOMAIN pending' /\ pending'[n] = d
      BY <3>1 DEF sendRegister, registerCall, IInv, Numbered, TypeOK, ClientTypes, CallTypes
    <3> QED
      BY <3>2 DEF IsPending
  <2> QED
    BY <2>1, <2>2 DEF IInv, NoCallForgotten
<1> QED
  BY <1>1, <1>2

\* Each step hands the right to complete a call over, or uses it once.
LEMMA StepKeepsRest ==
    ASSUME IInv, [Next]_vars
    PROVE  Rest'
<1> USE ClientAssumption
    DEF IInv, Rest, TypeOK, CallTypes, ClientTypes, ReceiveTypes, Fresh, Numbered, Writing,
        Rights, Cancelling, DoneAtMostOnce, NoCallForgotten, Answered, IsPending
<1>1. ASSUME NEW c \in Call, Go(c) PROVE Rest'
  BY <1>1 DEF Go, clientvars, recvvars
<1>2. ASSUME NEW c \in Call, ctxDone(c) PROVE Rest'
  BY <1>2 DEF ctxDone, clientvars, recvvars
<1>3. ASSUME NEW c \in Call, callReturns(c) PROVE Rest'
  BY <1>3 DEF callReturns, clientvars, recvvars
<1>4. ASSUME NEW c \in Call, callCancelled(c) PROVE Rest'
  <2>1. Fresh' /\ Cancelling' /\ DoneAtMostOnce' /\ Answered'
    BY <1>4 DEF callCancelled, recvvars
  <2>2. Numbered'
    BY <1>4 DEF callCancelled, Delete, recvvars
  <2>3. Writing' /\ Rights'
    BY <1>4 DEF callCancelled, Delete, recvvars
  <2>4. NoCallForgotten'
    BY <1>4 DEF callCancelled, Delete, recvvars
  <2> QED
    BY <2>1, <2>2, <2>3, <2>4
<1>5. ASSUME NEW c \in Call, sendRegister(c) PROVE Rest'
  <2>1. Fresh' /\ Cancelling' /\ DoneAtMostOnce' /\ Answered'
    BY <1>5 DEF sendRegister, registerCall, recvvars
  <2>2. Numbered'
    BY <1>5 DEF sendRegister, registerCall, recvvars
  <2>3. Writing' /\ Rights'
    BY <1>5 DEF sendRegister, registerCall, recvvars
  <2>4. NoCallForgotten'
    BY <1>5, RegisterKeepsPending
  <2> QED
    BY <2>1, <2>2, <2>3, <2>4
<1>6. ASSUME NEW c \in Call, sendRefused(c) PROVE Rest'
  BY <1>6 DEF sendRefused, Done, clientvars, recvvars
<1>7. ASSUME NEW c \in Call, sendWrite(c) PROVE Rest'
  BY <1>7 DEF sendWrite, recvvars
<1>8. ASSUME NEW c \in Call, sendWriteFails(c) PROVE Rest'
  BY <1>8 DEF sendWriteFails, clientvars, recvvars
<1>19. ASSUME NEW c \in Call, writeCloses(c) PROVE Rest'
  BY <1>19 DEF writeCloses, clientvars, recvvars
<1>9. ASSUME NEW c \in Call, sendFailed(c) PROVE Rest'
  <2>1. Fresh' /\ Cancelling' /\ Answered'
    BY <1>9 DEF sendFailed, Lookup, Delete, Done, recvvars
  <2>2. Numbered' /\ Writing'
    BY <1>9 DEF sendFailed, Lookup, Delete, Done, recvvars
  <2>3. Rights'
    BY <1>9 DEF sendFailed, Lookup, Delete, Done, recvvars
  <2>4. DoneAtMostOnce'
    BY <1>9 DEF sendFailed, Lookup, Delete, Done, recvvars
  <2>5. NoCallForgotten'
    BY <1>9 DEF sendFailed, Lookup, Delete, Done, recvvars
  <2> QED
    BY <2>1, <2>2, <2>3, <2>4, <2>5
<1>10. ASSUME readHeader PROVE Rest'
  BY <1>10 DEF readHeader, callvars, clientvars
<1>11. ASSUME readHeaderFails PROVE Rest'
  BY <1>11 DEF readHeaderFails, callvars, clientvars
<1>12. ASSUME receiveRemove PROVE Rest'
  BY <1>12 DEF receiveRemove, Lookup, Delete, callvars
<1>13. ASSUME receiveBody PROVE Rest'
  <2>1. Fresh' /\ Numbered' /\ Cancelling'
    BY <1>13 DEF receiveBody, Done, clientvars
  <2>2. Writing'
    BY <1>13 DEF receiveBody, clientvars
  <2>3. Rights'
    BY <1>13 DEF receiveBody, Done, clientvars
  <2>4. DoneAtMostOnce' /\ Answered'
    BY <1>13 DEF receiveBody, Done, clientvars
  <2>5. NoCallForgotten'
    BY <1>13 DEF receiveBody, Done, clientvars
  <2> QED
    BY <2>1, <2>2, <2>3, <2>4, <2>5
<1>14. ASSUME terminateCalls PROVE Rest'
  BY <1>14 DEF terminateCalls
<1>15. ASSUME Close PROVE Rest'
  BY <1>15 DEF Close, callvars, recvvars
<1>16. ASSUME connectionBreaks PROVE Rest'
  BY <1>16 DEF connectionBreaks, callvars, clientvars, recvvars
<1>17. ASSUME NEW n \in Seqs, serverAnswers(n) PROVE Rest'
  BY <1>17 DEF serverAnswers, callvars, clientvars, recvvars
<1>18. ASSUME UNCHANGED vars PROVE Rest'
  BY <1>18 DEF vars, callvars, clientvars, recvvars
<1> HIDE DEF IInv, Rest
<1> QED
  BY <1>1, <1>2, <1>3, <1>4, <1>5, <1>6, <1>7, <1>8, <1>9,
     <1>10, <1>11, <1>12, <1>13, <1>14, <1>15, <1>16, <1>17, <1>18, <1>19
     DEF Next, callerStep, sendStep, receiveStep

\* IInv is inductive.
LEMMA InvariantHolds == Spec => []IInv
<1>1. Init => Rest
  BY ClientAssumption
     DEF Init, Rest, Fresh, Numbered, Writing, Rights, Cancelling, DoneAtMostOnce,
         NoCallForgotten, Answered, IsPending
<1>2. TypeOK /\ Rest <=> IInv
  BY DEF IInv, Rest
<1>3. IInv /\ [Next]_vars => Rest'
  BY StepKeepsRest
<1>4. TypeOK /\ Rest /\ [Next]_vars => Rest'
  BY <1>2, <1>3
<1> QED
  BY <1>1, <1>2, <1>4, TypeCorrect, PTL DEF Spec

\* The Done channel of every call gets at most one value (client.go:29-31),
\* whichever of send, receive and terminateCalls completes it: a response to a
\* call whose Write failed included (client.go:122-130).
THEOREM DoneOnce == Spec => []DoneAtMostOnce
<1>1. IInv => DoneAtMostOnce
  BY DEF IInv
<1> QED
  BY <1>1, InvariantHolds, PTL

\* A registered call stays in pending until somebody completes it or its
\* caller gives up (client.go:71-101).
THEOREM NoneForgotten == Spec => []NoCallForgotten
<1>1. IInv => NoCallForgotten
  BY DEF IInv
<1> QED
  BY <1>1, InvariantHolds, PTL

\* A response completes the call whose number it carries (client.go:140).
THEOREM ResponsesMatch == Spec => []ResponseReachesItsCall
<1>1. IInv => ResponseReachesItsCall
  BY DEF ResponseReachesItsCall, IInv, Answered, Numbered, TypeOK, CallTypes
<1> QED
  BY <1>1, InvariantHolds, PTL
=============================================================================

----------------------------- MODULE RpcClient -----------------------------
(***************************************************************************)
(* The RPC client, psygo/rpc/client.go, over one connection.               *)
(*                                                                         *)
(* Every call has a caller (Client.Call: it waits for the call to be done  *)
(* or for its context) and a goroutine that runs send.  One goroutine runs *)
(* receive and, when it fails, terminateCalls.  Client.sending is a        *)
(* variable, because send holds it across a registration and a write; a    *)
(* critical section of Client.mu is one step.                              *)
(*                                                                         *)
(* The connection and the server are external: a connection breaks at any  *)
(* time, and the server answers a request it has received, possibly more   *)
(* than once, or answers with sequence number 0 (server.go:116).           *)
(***************************************************************************)
EXTENDS Naturals, Sequences, FiniteSets

CONSTANTS Call,        \* the calls that are ever made
          None,        \* no call
          MaxAnswers   \* how often the server answers one sequence number

ASSUME ClientAssumption == None \notin Call /\ MaxAnswers \in Nat

VARIABLES
    user,       \* user[c]: where the caller of c is
    cseq,       \* cseq[c]: the call.Seq the caller of c read when it gave up
    pc,         \* pc[c]: where the send goroutine of c is
    seqOf,      \* Call.Seq, 0 until the call is registered
    done,       \* done[c]: how many values were sent on c's Done channel
    answeredBy, \* answeredBy[c]: the number of the response that completed c
    sending,    \* the owner of Client.sending
    seq, pending, closing, shutdown,  \* fields of Client
    rpc,        \* where receive is
    rseq,       \* the sequence number in the header it read
    rcall,      \* the call it removed from pending
    connection, \* "up" or "down"
    requests,   \* sequence numbers of the requests the server received
    answers,    \* answers[n]: how many responses to n the server has sent
    responses   \* responses on their way to the client

callvars == <<user, cseq, pc, seqOf, done, answeredBy>>
clientvars == <<sending, seq, pending, closing, shutdown>>
recvvars == <<rpc, rseq, rcall>>
netvars == <<connection, requests, answers, responses>>
vars == <<callvars, clientvars, recvvars, netvars>>

Seqs == 0..Cardinality(Call)  \* 0 and the numbers registerCall can give out

\* Mutant: Client.seq starts with the number of a call that is not registered.
InitAtZero ==
    /\ user = [c \in Call |-> "none"]
    /\ cseq = [c \in Call |-> 0]
    /\ pc = [c \in Call |-> "none"]
    /\ seqOf = [c \in Call |-> 0]
    /\ done = [c \in Call |-> 0]
    /\ answeredBy = [c \in Call |-> 0]
    /\ sending = None
    /\ seq = 0
    /\ pending = [n \in {} |-> None]
    /\ closing = FALSE /\ shutdown = FALSE
    /\ rpc = "header" /\ rseq = 0 /\ rcall = None
    /\ connection = "up"
    /\ requests = {}
    /\ answers = [n \in Seqs |-> 0]
    /\ responses = <<>>

Init ==
    /\ user = [c \in Call |-> "none"]
    /\ cseq = [c \in Call |-> 0]
    /\ pc = [c \in Call |-> "none"]
    /\ seqOf = [c \in Call |-> 0]
    /\ done = [c \in Call |-> 0]
    /\ answeredBy = [c \in Call |-> 0]
    /\ sending = None
    /\ seq = 1
    /\ pending = [n \in {} |-> None]
    /\ closing = FALSE /\ shutdown = FALSE
    /\ rpc = "header" /\ rseq = 0 /\ rcall = None
    /\ connection = "up"
    /\ requests = {}
    /\ answers = [n \in Seqs |-> 0]
    /\ responses = <<>>

Lookup(n) == IF n \in DOMAIN pending THEN pending[n] ELSE None

Delete(n) == pending' = [m \in DOMAIN pending \ {n} |-> pending[m]]

Done(c) == done' = [done EXCEPT ![c] = @ + 1]
----------------------------------------------------------------------------
(* Client.Call *)

\* Go: the send goroutine is started and the caller waits.
Go(c) ==
    /\ user[c] = "none"
    /\ user' = [user EXCEPT ![c] = "waiting"]
    /\ pc' = [pc EXCEPT ![c] = "send"]
    /\ UNCHANGED <<cseq, seqOf, done, answeredBy, clientvars, recvvars, netvars>>

callReturns(c) ==
    /\ user[c] = "waiting" /\ done[c] > 0
    /\ user' = [user EXCEPT ![c] = "returned"]
    /\ UNCHANGED <<cseq, pc, seqOf, done, answeredBy, clientvars, recvvars, netvars>>

\* <-ctx.Done(): call.Seq is read without a lock, and may still be 0.
ctxDone(c) ==
    /\ user[c] = "waiting"
    /\ user' = [user EXCEPT ![c] = "cancelling"]
    /\ cseq' = [cseq EXCEPT ![c] = seqOf[c]]
    /\ UNCHANGED <<pc, seqOf, done, answeredBy, clientvars, recvvars, netvars>>

callCancelled(c) ==
    /\ user[c] = "cancelling"
    /\ user' = [user EXCEPT ![c] = "cancelled"]
    /\ Delete(cseq[c])
    /\ UNCHANGED <<cseq, pc, seqOf, done, answeredBy, sending, seq, closing,
                   shutdown, recvvars, netvars>>

Close ==
    /\ ~closing
    /\ closing' = TRUE
    /\ connection' = "down"
    /\ UNCHANGED <<callvars, sending, seq, pending, shutdown, recvvars,
                   requests, answers, responses>>
----------------------------------------------------------------------------
(* send *)

\* Mutant: two calls get one number.
RegisterWithoutIncrement(c) ==
    /\ seqOf' = [seqOf EXCEPT ![c] = seq]
    /\ pending' = [n \in DOMAIN pending \cup {seq} |->
                     IF n = seq THEN c ELSE pending[n]]
    /\ UNCHANGED seq

registerCall(c) ==
    /\ seqOf' = [seqOf EXCEPT ![c] = seq]
    /\ pending' = [n \in DOMAIN pending \cup {seq} |->
                     IF n = seq THEN c ELSE pending[n]]
    /\ seq' = seq + 1

\* Mutant: a closed client still registers the call.
RegisterAfterShutdown(c) ==
    /\ pc[c] = "send" /\ sending = None
    /\ registerCall(c)
    /\ sending' = c
    /\ pc' = [pc EXCEPT ![c] = "write"]
    /\ UNCHANGED <<user, cseq, done, answeredBy, closing, shutdown, recvvars, netvars>>

\* sending.Lock and registerCall.
sendRegister(c) ==
    /\ pc[c] = "send" /\ sending = None
    /\ ~closing /\ ~shutdown
    /\ registerCall(c)
    /\ sending' = c
    /\ pc' = [pc EXCEPT ![c] = "write"]
    /\ UNCHANGED <<user, cseq, done, answeredBy, closing, shutdown, recvvars, netvars>>

\* registerCall returns ErrShutdown.
sendRefused(c) ==
    /\ pc[c] = "send" /\ sending = None
    /\ closing \/ shutdown
    /\ Done(c)
    /\ pc' = [pc EXCEPT ![c] = "ended"]
    /\ UNCHANGED <<user, cseq, seqOf, answeredBy, clientvars, recvvars, netvars>>

\* cc.Write returns nil.  The error of its Flush is dropped (gob.go:39), so
\* a request written to a broken connection is lost without an error.
sendWrite(c) ==
    /\ pc[c] = "write"
    /\ requests' = IF connection = "up" THEN requests \cup {seqOf[c]} ELSE requests
    /\ sending' = None
    /\ pc' = [pc EXCEPT ![c] = "ended"]
    /\ UNCHANGED <<user, cseq, seqOf, done, answeredBy, seq, pending, closing,
                   shutdown, recvvars, connection, answers, responses>>

\* Write meets an error.  It flushes what it has encoded all the same, before it
\* closes the connection (gob.go:38-41): the server may have got the request, or
\* enough of it to answer.
sendWriteFails(c) ==
    /\ pc[c] = "write"
    /\ \/ UNCHANGED requests
       \/ connection = "up" /\ requests' = requests \cup {seqOf[c]}
    /\ pc' = [pc EXCEPT ![c] = "close"]
    /\ UNCHANGED <<user, cseq, seqOf, done, answeredBy, clientvars, recvvars,
                   connection, answers, responses>>

writeCloses(c) ==
    /\ pc[c] = "close"
    /\ connection' = "down"
    /\ pc' = [pc EXCEPT ![c] = "failed"]
    /\ UNCHANGED <<user, cseq, seqOf, done, answeredBy, clientvars, recvvars,
                   requests, answers, responses>>

\* Mutant: the removed call is not done.
SendFailedForgetsDone(c) ==
    /\ pc[c] = "failed"
    /\ Delete(seqOf[c])
    /\ sending' = None
    /\ pc' = [pc EXCEPT ![c] = "ended"]
    /\ UNCHANGED <<user, cseq, seqOf, done, answeredBy, seq, closing, shutdown,
                   recvvars, netvars>>

\* Mutant: the call is done whether it was still pending or not.
SendFailedAlwaysDone(c) ==
    /\ pc[c] = "failed"
    /\ Done(c)
    /\ Delete(seqOf[c])
    /\ sending' = None
    /\ pc' = [pc EXCEPT ![c] = "ended"]
    /\ UNCHANGED <<user, cseq, seqOf, answeredBy, seq, closing, shutdown,
                   recvvars, netvars>>

\* The call is done here only if it is still pending: the server may have
\* answered what Write flushed (client.go:124-125).
sendFailed(c) ==
    /\ pc[c] = "failed"
    /\ LET call == Lookup(seqOf[c])
       IN IF call # None THEN Done(call) ELSE UNCHANGED done
    /\ Delete(seqOf[c])
    /\ sending' = None
    /\ pc' = [pc EXCEPT ![c] = "ended"]
    /\ UNCHANGED <<user, cseq, seqOf, answeredBy, seq, closing, shutdown,
                   recvvars, netvars>>
----------------------------------------------------------------------------
(* receive and terminateCalls *)

\* What has arrived can still be read when the connection breaks.
readHeader ==
    /\ rpc = "header" /\ responses # <<>>
    /\ rseq' = Head(responses)
    /\ responses' = Tail(responses)
    /\ rpc' = "remove"
    /\ UNCHANGED <<callvars, clientvars, rcall, connection, requests, answers>>

readHeaderFails ==
    /\ rpc = "header" /\ connection = "down"
    /\ rpc' = "terminate"
    /\ UNCHANGED <<callvars, clientvars, rseq, rcall, netvars>>

receiveRemove ==
    /\ rpc = "remove"
    /\ rcall' = Lookup(rseq)
    /\ Delete(rseq)
    /\ rpc' = "body"
    /\ UNCHANGED <<callvars, sending, seq, closing, shutdown, rseq, netvars>>

\* ReadBody, and then done: the three cases of receive differ in call.Error
\* only.  A body that cannot be read or decoded ends the loop in all of them.
receiveBody ==
    /\ rpc = "body"
    /\ rpc' \in {"header", "terminate"}
    /\ IF rcall = None THEN UNCHANGED <<done, answeredBy>>
       ELSE /\ Done(rcall)
            /\ answeredBy' = [answeredBy EXCEPT ![rcall] = rseq]
    /\ rcall' = None
    /\ UNCHANGED <<user, cseq, pc, seqOf, clientvars, rseq, netvars>>

\* Every pending call is done; none is removed from pending.
terminateCalls ==
    /\ rpc = "terminate" /\ sending = None
    /\ shutdown' = TRUE
    /\ done' = [c \in Call |->
                  done[c] + (IF \E n \in DOMAIN pending : pending[n] = c THEN 1 ELSE 0)]
    /\ rpc' = "ended"
    /\ UNCHANGED <<user, cseq, pc, seqOf, answeredBy, sending, seq, pending,
                   closing, rseq, rcall, netvars>>
----------------------------------------------------------------------------
(* The connection and the server *)

connectionBreaks ==
    /\ connection = "up"
    /\ connection' = "down"
    /\ UNCHANGED <<callvars, clientvars, recvvars, requests, answers, responses>>

serverAnswers(n) ==
    /\ n \in requests \cup {0}
    /\ connection = "up"
    /\ answers[n] < MaxAnswers
    /\ answers' = [answers EXCEPT ![n] = @ + 1]
    /\ responses' = Append(responses, n)
    /\ UNCHANGED <<callvars, clientvars, recvvars, connection, requests>>
----------------------------------------------------------------------------
callerStep(c) == callReturns(c) \/ callCancelled(c)

sendStep(c) ==
    \/ sendRegister(c) \/ sendRefused(c) \/ sendWrite(c)
    \/ sendWriteFails(c) \/ writeCloses(c) \/ sendFailed(c)

receiveStep ==
    readHeader \/ readHeaderFails \/ receiveRemove \/ receiveBody \/ terminateCalls

Next ==
    \/ \E c \in Call : Go(c) \/ ctxDone(c) \/ callerStep(c) \/ sendStep(c)
    \/ receiveStep
    \/ Close
    \/ connectionBreaks
    \/ \E n \in Seqs : serverAnswers(n)

Spec == Init /\ [][Next]_vars

\* Goroutines run, and the server answers what it has received while the
\* connection is up.  Nothing makes a context end or a connection break.
Fairness ==
    /\ \A c \in Call : WF_vars(callerStep(c)) /\ WF_vars(sendStep(c))
    /\ WF_vars(receiveStep)
    /\ \A n \in Seqs : WF_vars(n \in requests /\ answers[n] = 0 /\ serverAnswers(n))

FairSpec == Spec /\ Fairness
----------------------------------------------------------------------------
CallTypes ==
    /\ user \in [Call -> {"none", "waiting", "cancelling", "cancelled", "returned"}]
    /\ cseq \in [Call -> Nat]
    /\ pc \in [Call -> {"none", "send", "write", "close", "failed", "ended"}]
    /\ seqOf \in [Call -> Nat]
    /\ done \in [Call -> Nat]
    /\ answeredBy \in [Call -> Nat]

ClientTypes ==
    /\ sending \in Call \cup {None}
    /\ seq \in Nat \ {0}
    /\ DOMAIN pending \subseteq Nat
    /\ pending \in [DOMAIN pending -> Call]
    /\ closing \in BOOLEAN /\ shutdown \in BOOLEAN

ReceiveTypes ==
    /\ rpc \in {"header", "remove", "body", "terminate", "ended"}
    /\ rseq \in Nat
    /\ rcall \in Call \cup {None}

NetTypes ==
    /\ connection \in {"up", "down"}
    /\ requests \subseteq Nat
    /\ answers \in [Seqs -> 0..MaxAnswers]
    /\ responses \in Seq(Nat)

\* The types of the variables.
TypeOK == CallTypes /\ ClientTypes /\ ReceiveTypes /\ NetTypes

IsPending(c) == \E n \in DOMAIN pending : pending[n] = c

\* A call is done at most once, however its response, a failing write, the
\* end of the connection and the end of its context meet.  Call's Done has
\* room for one value: a second one would block receive, or terminateCalls
\* with both mutexes held, for ever.
DoneAtMostOnce == \A c \in Call : done[c] <= 1

\* A registered call that is not done yet is in pending, or receive is about
\* to complete it, or its caller has given up: no call is forgotten by the four
\* places that remove one (client.go:83-101, :124, :140, :186).
NoCallForgotten ==
    \A c \in Call :
      seqOf[c] # 0 /\ done[c] = 0 =>
        IsPending(c) \/ rcall = c \/ user[c] = "cancelled"

\* A response completes the one call whose request carries its number, although
\* receive completes a call after it has removed it and released the mutex
\* (client.go:133-160).
ResponseReachesItsCall ==
    \A c \in Call :
      answeredBy[c] # 0 => {d \in Call : seqOf[d] = answeredBy[c]} = {c}

\* Every call ends: it is done, or its context ended.  This is what the order
\* of shutdown and registerCall is for (client.go:71-101): no call is registered
\* after terminateCalls has completed the pending ones.
EveryCallEnds ==
    \A c \in Call : user[c] = "waiting" ~> user[c] \in {"returned", "cancelled"}
=============================================================================

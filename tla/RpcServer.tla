----------------------------- MODULE RpcServer -----------------------------
(***************************************************************************)
(* One connection of the RPC server, psygo/rpc/server.go: ServeConn and    *)
(* the loop of serveCodec, one handleRequest goroutine for every request   *)
(* that was read, and the goroutine handleRequest starts to make the call. *)
(*                                                                         *)
(* called and sent are unbuffered channels: a send on one and the receive  *)
(* that takes it are one step.  A response is one step under sending: it   *)
(* is written, or the encoding of its header or its body fails, and then   *)
(* Write of the codec closes the connection.  The client is external: it   *)
(* sends requests, each a header and a body, and hangs up at any time.     *)
(* The circuit breaker is the outcome of its beforeRequest, admitted or    *)
(* not, which module Breaker models.                                       *)
(***************************************************************************)
EXTENDS Integers, Sequences, FiniteSets

CONSTANTS Request,      \* the requests the client may send
          Unknown,      \* those whose service or method is not registered
          MaxLimited    \* bound on the answers "you are limited"

ASSUME ServerAssumption ==
    Unknown \subseteq Request /\ IsFiniteSet(Request) /\ MaxLimited \in Nat

VARIABLES
    config,     \* opt.HandleTimeout # 0, and whether a breaker and a limiter are set
    inbox,      \* what the client sent: <<"header", r>> and <<"body", r>>
    asked,      \* requests the client has sent
    hungUp,     \* the client has closed the connection
    garbled,    \* the decoder of the option has swallowed requests
    loop,       \* where ServeConn and serveCodec are
    reading,    \* the request whose header was read
    wg,         \* the counter of the WaitGroup
    handler,    \* where handleRequest is, for each request
    worker,     \* where the goroutine that makes the call is
    conn,       \* "open", "closed" at its end, or "broken" by a Write that failed
    responses,  \* how many responses to each request were written
    lost,       \* requests with a response that was not written
    limited     \* how many answers carried the empty header of the limiter

clientvars == <<asked, hungUp, config>>
loopvars == <<garbled, loop, reading>>
answervars == <<conn, responses, lost>>
vars == <<clientvars, loopvars, inbox, wg, handler, worker, answervars, limited>>

Config == [timeout : BOOLEAN, breaker : BOOLEAN, limiter : BOOLEAN]

Init ==
    /\ config \in Config
    /\ inbox = <<>> /\ asked = {} /\ hungUp = FALSE
    /\ garbled = FALSE
    /\ loop = "options"
    /\ reading = {}
    /\ wg = 0
    /\ handler = [r \in Request |-> "none"]
    /\ worker = [r \in Request |-> "none"]
    /\ conn = "open" /\ lost = {}
    /\ responses = [r \in Request |-> 0]
    /\ limited = 0

\* A Write that fails closes the connection: of what is left to be read, rest,
\* only what the decoder has in its buffer remains.
Break(rest) ==
    /\ conn = "open" /\ conn' = "broken"
    /\ \E n \in 0..Len(rest) : inbox' = SubSeq(rest, 1, n)

\* sendResponse, with rest left to be read: the response is written, or its
\* Write fails, or the connection is closed already.  What was encoded before
\* the failure is flushed, but it is no response.
Respond(r, rest) ==
    \/ /\ conn = "open" /\ inbox' = rest
       /\ responses' = [responses EXCEPT ![r] = @ + 1]
       /\ UNCHANGED <<conn, lost>>
    \/ /\ Break(rest) \/ (conn # "open" /\ inbox' = rest /\ UNCHANGED conn)
       /\ lost' = lost \cup {r}
       /\ UNCHANGED responses

\* The connection is closed; closing it once more does nothing.
Close == conn' = IF conn = "open" THEN "closed" ELSE conn

workerStep(r, from, to) == worker[r] = from /\ worker' = [worker EXCEPT ![r] = to]
handlerStep(r, from, to) == handler[r] = from /\ handler' = [handler EXCEPT ![r] = to]
----------------------------------------------------------------------------
(* The client *)

clientSends(r) ==
    /\ ~hungUp /\ r \notin asked
    /\ asked' = asked \cup {r}
    /\ inbox' = IF conn = "open" THEN inbox \o << <<"header", r>>, <<"body", r>> >>
                                 ELSE inbox
    /\ UNCHANGED <<config, hungUp, loopvars, wg, handler, worker, answervars, limited>>

\* What the server has not received yet may be lost, also half of a request.
clientHangsUp ==
    /\ ~hungUp /\ hungUp' = TRUE
    /\ \E n \in 0..Len(inbox) : inbox' = SubSeq(inbox, 1, n)
    /\ UNCHANGED <<config, asked, loopvars, wg, handler, worker, answervars, limited>>
----------------------------------------------------------------------------
(* ServeConn, serveCodec and readRequest *)

\* The option is read and serveCodec starts, or the option is refused and the
\* connection closed.  The JSON decoder reads as much as has arrived: requests
\* behind the option are lost with it, and with them the descriptions of the
\* types gob sends once, so that no later header can be decoded.
ServeConn ==
    /\ loop = "options"
    /\ \/ /\ loop' = "limiter"
          /\ \E n \in 0..Len(inbox) :
               /\ inbox' = SubSeq(inbox, n + 1, Len(inbox))
               /\ garbled' = (n > 0)
          /\ UNCHANGED conn
       \/ loop' = "closed" /\ Close /\ UNCHANGED <<inbox, garbled>>
    /\ UNCHANGED <<clientvars, reading, wg, handler, worker, responses, lost, limited>>

\* WaitN gives a token, or its context ends: then a response with an empty
\* header is sent although nothing was read, and the loop goes on.
limiter ==
    /\ loop = "limiter"
    /\ \/ loop' = "header" /\ UNCHANGED <<limited, conn, inbox>>
       \/ /\ config.limiter /\ limited < MaxLimited
          /\ limited' = limited + 1
          /\ Break(inbox) \/ UNCHANGED <<conn, inbox>>
          /\ UNCHANGED loop
    /\ UNCHANGED <<clientvars, garbled, reading, wg, handler, worker, responses, lost>>

\* ReadHeader gets a header.  For an unknown service or method the error is
\* sent at once, and the body stays unread.
readHeader ==
    /\ loop = "header"
    /\ inbox # <<>> /\ Head(inbox)[1] = "header" /\ ~garbled
    /\ LET r == Head(inbox)[2]
       IN \/ /\ r \in Unknown
             /\ Respond(r, Tail(inbox)) /\ loop' = "limiter" /\ UNCHANGED reading
          \/ /\ r \notin Unknown
             /\ reading' = {r} /\ loop' = "body"
             /\ inbox' = Tail(inbox) /\ UNCHANGED answervars
    /\ UNCHANGED <<clientvars, garbled, wg, handler, worker, limited>>

\* ReadHeader fails: the stream has ended, here or at the client, or what comes
\* next is not a header, because a body was left unread or the stream is
\* garbled.  The loop is left.
readHeaderFails ==
    /\ loop = "header"
    /\ IF inbox = <<>> THEN hungUp \/ conn # "open"
                       ELSE Head(inbox)[1] = "body" \/ garbled
    /\ loop' = "wait"
    /\ UNCHANGED <<clientvars, inbox, garbled, reading, wg, handler, worker, answervars,
                   limited>>

\* Mutant: the goroutine starts before it is counted.
SpawnWithoutAdd ==
    /\ loop = "body" /\ inbox # <<>>
    /\ inbox' = Tail(inbox)
    /\ \E r \in reading :
         /\ handlerStep(r, "none", "select")
         /\ workerStep(r, "none", "start")
    /\ reading' = {} /\ loop' = "limiter"
    /\ UNCHANGED <<clientvars, garbled, wg, answervars, limited>>

\* The body is read: wg.Add(1) and the two goroutines.
spawn ==
    /\ loop = "body" /\ inbox # <<>>
    /\ inbox' = Tail(inbox)
    /\ \E r \in reading :
         /\ handlerStep(r, "none", "select")
         /\ workerStep(r, "none", "start")
    /\ wg' = wg + 1
    /\ reading' = {} /\ loop' = "limiter"
    /\ UNCHANGED <<clientvars, garbled, answervars, limited>>

\* ReadBody fails, because the argument does not decode or the stream has
\* ended: an error is the response.
readBodyFails ==
    /\ loop = "body"
    /\ inbox = <<>> => hungUp \/ conn # "open"
    /\ \E r \in reading : Respond(r, IF inbox = <<>> THEN <<>> ELSE Tail(inbox))
    /\ reading' = {} /\ loop' = "limiter"
    /\ UNCHANGED <<clientvars, garbled, wg, handler, worker, limited>>

\* wg.Wait returns, and the connection is closed.
closeConn ==
    /\ loop = "wait" /\ wg = 0
    /\ loop' = "closed" /\ Close
    /\ UNCHANGED <<clientvars, inbox, garbled, reading, wg, handler, worker, responses,
                   lost, limited>>
----------------------------------------------------------------------------
(* handleRequest *)

\* The breaker turns the request away: req never runs, so nothing is ever
\* sent on called, and the error is the response.
breakerRejects(r) ==
    /\ config.breaker
    /\ workerStep(r, "start", "respond")
    /\ UNCHANGED <<clientvars, loopvars, inbox, wg, handler, answervars, limited>>

\* svc.call returns, with an error or not; without a breaker or admitted by it.
call(r) ==
    /\ workerStep(r, "start", "called")
    /\ UNCHANGED <<clientvars, loopvars, inbox, wg, handler, answervars, limited>>

\* called <- struct{}{} meets <-called.
calledReceived(r) ==
    /\ workerStep(r, "called", "respond")
    /\ handlerStep(r, "select", "sent")
    /\ UNCHANGED <<clientvars, loopvars, inbox, wg, answervars, limited>>

workerResponds(r) ==
    /\ workerStep(r, "respond", "sent")
    /\ Respond(r, inbox)
    /\ UNCHANGED <<clientvars, loopvars, wg, handler, limited>>

\* Mutant: the handler does not wait for sent.
DoneBeforeSent(r) ==
    /\ handlerStep(r, "sent", "ended")
    /\ wg' = wg - 1
    /\ UNCHANGED <<clientvars, loopvars, inbox, worker, answervars, limited>>

\* Mutant: no wg.Done on this path.
DoneForgotten(r) ==
    /\ workerStep(r, "sent", "ended")
    /\ handlerStep(r, "sent", "ended")
    /\ UNCHANGED <<clientvars, loopvars, inbox, wg, answervars, limited>>

\* sent <- struct{}{} meets <-sent, and wg.Done is called.
sentReceived(r) ==
    /\ workerStep(r, "sent", "ended")
    /\ handlerStep(r, "sent", "ended")
    /\ wg' = wg - 1
    /\ UNCHANGED <<clientvars, loopvars, inbox, answervars, limited>>

\* Mutant: the timeout also strikes after called was received.
TimeoutAnswersTwice(r) ==
    /\ config.timeout
    /\ handler[r] \in {"select", "sent"}
    /\ handler' = [handler EXCEPT ![r] = "ended"]
    /\ Respond(r, inbox)
    /\ wg' = wg - 1
    /\ UNCHANGED <<clientvars, loopvars, worker, limited>>

\* Mutant: the timeout ends the handler without an answer.
TimeoutForgetsResponse(r) ==
    /\ config.timeout
    /\ handlerStep(r, "select", "ended")
    /\ wg' = wg - 1
    /\ UNCHANGED <<clientvars, loopvars, inbox, worker, answervars, limited>>

\* The time for the request is over before called was received: the error is
\* the response, and nobody receives from called or sent any more.
handleTimeout(r) ==
    /\ config.timeout
    /\ handlerStep(r, "select", "ended")
    /\ Respond(r, inbox)
    /\ wg' = wg - 1
    /\ UNCHANGED <<clientvars, loopvars, worker, limited>>
----------------------------------------------------------------------------
serveStep ==
    \/ ServeConn \/ limiter \/ readHeader \/ readHeaderFails
    \/ spawn \/ readBodyFails \/ closeConn

requestStep(r) ==
    \/ breakerRejects(r) \/ call(r) \/ calledReceived(r)
    \/ workerResponds(r) \/ sentReceived(r) \/ handleTimeout(r)

Next ==
    \/ \E r \in Request : clientSends(r) \/ requestStep(r)
    \/ clientHangsUp
    \/ serveStep

Spec == Init /\ [][Next]_vars

\* Goroutines run and calls return.  Nothing makes the client send or hang up.
Fairness == WF_vars(serveStep) /\ \A r \in Request : WF_vars(requestStep(r))

FairSpec == Spec /\ Fairness
----------------------------------------------------------------------------
\* The types of the variables.  The counter of the WaitGroup never becomes
\* negative, where wg.Done panics (server.go:92, :189).
TypeOK ==
    /\ config \in Config
    /\ inbox \in Seq({"header", "body"} \X Request)
    /\ asked \subseteq Request /\ hungUp \in BOOLEAN
    /\ garbled \in BOOLEAN
    /\ loop \in {"options", "limiter", "header", "body", "wait", "closed"}
    /\ reading \subseteq Request
    /\ wg \in Nat
    /\ handler \in [Request -> {"none", "select", "sent", "ended"}]
    /\ worker \in [Request -> {"none", "start", "called", "respond", "sent", "ended"}]
    /\ conn \in {"open", "closed", "broken"}
    /\ responses \in [Request -> Nat]
    /\ lost \subseteq Request
    /\ limited \in 0..MaxLimited

\* A request is answered at most once, however its call and its timeout meet:
\* after a timeout the goroutine that made the call stays at called, before
\* its own response (server.go:211-237).  With a breaker and a timeout this is
\* not so: a rejected request is answered by the rejection and by the timeout.
AnsweredAtMostOnce ==
    ~(config.breaker /\ config.timeout) => \A r \in Request : responses[r] <= 1

\* When serveCodec closes the connection the response to every request that was
\* handed to a handler has been written (server.go:81): wg covers the response,
\* not the call only.  Only a Write that failed, and closed the connection under
\* the other handlers (gob.go:40-42), takes responses from them, and then too
\* each of them has come to its own.
ClosedAfterAnswers ==
    loop = "closed" =>
      \A r \in Request : handler[r] # "none" =>
        responses[r] >= 1 \/ (conn = "broken" /\ r \in lost)

\* No handler waits for ever: there is no breaker, or a timeout ends the
\* handler of a rejected request.
HandlersEnd == config.breaker => config.timeout

\* Every request the client sent is answered, by its call, by the breaker, by
\* the timeout or by an error, or the connection is closed (server.go:79-97),
\* except for what the decoder of the option has swallowed (server.go:60, :73).
EveryRequestAnswered ==
    \A r \in Request :
      r \in asked /\ HandlersEnd ~> responses[r] >= 1 \/ conn # "open" \/ garbled

\* The server blocks "serving the connection until the client hangs up"
\* (server.go:56), and then waits "until all request are handled"
\* (server.go:81) and closes the connection (server.go:96).
ServedUntilHangUp == hungUp ~> loop = "closed"

\* The same where it is true (server.go:95-96, :225-236), and after a Write that
\* failed too: the loop is left and all handlers end.
ClosedAfterHangUp == (hungUp \/ conn = "broken") /\ HandlersEnd ~> loop = "closed"
=============================================================================

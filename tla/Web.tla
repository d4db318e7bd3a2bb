--------------------------------- MODULE Web ---------------------------------
(***************************************************************************)
(* The web engine of psygo (psy.go, context.go) with its middlewares       *)
(* Logger, Recovery, BasicAuth and the JWT AuthInterceptor.  Each request  *)
(* is served by a goroutine with a Context from the engine's pool, whose   *)
(* handlers call each other through Next.  The stack of that goroutine is  *)
(* a sequence of handlers, so that a panic can unwind it.                  *)
(*   A Context serves one request at a time and reset clears its fields:   *)
(* they are kept in the record of the request; contexts holds what reset   *)
(* leaves of the requests before.                                          *)
(***************************************************************************)
EXTENDS Router

CONSTANTS Request, Ctx,
          None,      \* no value
          Login      \* the paths whose last part is login

VARIABLES
    groups,    \* engine.groups, each with its prefix and its middlewares
    hasLogger, \* engine.Logger is set, as Default does
    pool,      \* the contexts in engine.pool
    contexts,  \* for each context, the user in its Keys
    req        \* the requests

webvars == <<groups, hasLogger, pool, contexts, req>>

Middleware == {"logger", "recovery", "basicAuth", "jwt"}

\* A panic with an error, with a PsyError, with one whose Result was not called,
\* or with a value that is no error; or runtime.Goexit.
Panics == {"error", "psyError", "bareError", "value", "goexit"}

WebTypeOK ==
    /\ pool \subseteq Ctx
    /\ contexts \in [Ctx -> Request \cup {None}]
    /\ \A r \in Request :
         LET q == req[r]
         IN /\ q.state \in {"new", "serving", "done", "aborted"}
            /\ q.path \in Paths /\ q.known \in BOOLEAN
            /\ q.ctx \in Ctx \cup {None}
            /\ q.handlers \in Seq(Middleware \cup {"handler", "notFound"})
            /\ q.index \in 0..(Len(q.handlers) + 1)
            /\ \A i \in DOMAIN q.stack : /\ q.stack[i].handler \in DOMAIN q.handlers
                                         /\ q.stack[i].at \in {"start", "next", "back"}
            /\ q.panic \in Panics \cup {"none"} /\ q.raised \in Panics \cup {"none"}
            /\ q.sent \in {0, 200, 400, 401, 404, 500}
            /\ q.entered \in Seq(Nat) /\ q.aborted \in 0..Len(q.entered)

newRequest ==
    [state |-> "new",        \* then "serving", and "done" or "aborted": the server
                             \* of net/http has closed the connection
     path |-> CHOOSE p \in Paths : TRUE,
     known |-> FALSE,        \* it has valid credentials, or a valid token
     ctx |-> None,
     handlers |-> <<>>, index |-> 0,
     stack |-> <<>>,         \* the handlers that run, with where each one is
     panic |-> "none",
     sent |-> 0,             \* the status written, 0 if there is none yet
     entered |-> <<>>,       \* history: the handlers called so far
     aborted |-> 0,          \* history: how many there were at the first Abort
     raised |-> "none"]      \* history: the panic of the handler

WebInit ==
    /\ pool = {}
    /\ contexts = [x \in Ctx |-> None]
    /\ req = [r \in Request |-> newRequest]
----------------------------------------------------------------------------
(* Next, Abort and the stack; q is a request *)

top(q) == Last(q.stack)

\* A mutant of goesOn: the last handler is not the last.
goesPast(q, i) == i <= Len(q.handlers) + 1

goesOn(q, i) == i <= Len(q.handlers)

\* The loop of Next goes to the next handler, called above frames; after the last
\* one it ends, and the handler that called Next goes on.  Nothing tells an index
\* past the end from a larger one.
proceed(q, frames) ==
    LET i == IF q.index > Len(q.handlers) THEN q.index ELSE q.index + 1
    IN IF goesOn(q, i)
       THEN [q EXCEPT !.index = i,
                      !.stack = Append(frames, [handler |-> i, at |-> "start"]),
                      !.entered = Append(@, i)]
       ELSE [q EXCEPT !.index = i,
                      !.stack = IF frames = <<>> THEN <<>>
                                ELSE Append(Front(frames), [Last(frames) EXCEPT !.at = "back"])]

callNext(q) == proceed(q, Append(Front(q.stack), [top(q) EXCEPT !.at = "next"]))

\* A handler returns to the loop that called it.
returns(q) == proceed(q, Front(q.stack))

\* A mutant of abort: the handlers that are left still run.
abortNothing(q) == [q EXCEPT !.aborted = IF @ = 0 THEN Len(q.entered) ELSE @]

abort(q) == [abortNothing(q) EXCEPT !.index = Len(q.handlers) + 1]

\* Render, Status and WriteHeader: the first status is the one that counts.
write(q, code) == [q EXCEPT !.sent = IF @ = 0 THEN code ELSE @]

Fail(q, code) == write(abort(q), code)
----------------------------------------------------------------------------
(* ServeHTTP *)

\* HasPrefix compares texts; here no part of a path begins with another one.
middlewares(gs, path) ==
    FlattenSeq([i \in DOMAIN gs |-> IF IsPrefix(gs[i].prefix, path) THEN gs[i].middlewares
                                    ELSE <<>>])

\* A context comes from the pool or is a new one; the pool may have dropped any.
ServeHTTP(r, x, path, known) ==
    /\ req[r].state = "new"
    /\ \A o \in Request : req[o].state = "serving" => req[o].ctx # x
    /\ pool' = pool \ {x}
    /\ \/ x \in pool /\ UNCHANGED contexts
       \/ contexts' = [contexts EXCEPT ![x] = None]
    /\ LET last == IF getRoute(path).handler = 0 THEN "notFound" ELSE "handler"
           q == [newRequest EXCEPT !.state = "serving", !.path = path, !.known = known,
                    !.ctx = x, !.handlers = Append(middlewares(groups, path), last)]
       IN req' = [req EXCEPT ![r] = proceed(q, <<>>)]

\* ServeHTTP returns: the context goes back.  Where no status was written the
\* server of net/http sends 200.
serveReturns(r) ==
    LET q == req[r]
    IN /\ q.state = "serving" /\ q.stack = <<>> /\ q.panic = "none"
       /\ pool' = pool \cup {q.ctx}
       /\ req' = [req EXCEPT ![r].state = "done"]
       /\ UNCHANGED contexts

at(r, kind, places) ==
    LET q == req[r]
    IN /\ q.state = "serving" /\ q.panic = "none" /\ q.stack # <<>>
       /\ q.handlers[top(q).handler] = kind /\ top(q).at \in places

does(r, q) == req' = [req EXCEPT ![r] = q] /\ UNCHANGED pool

\* Logger and Recovery call Next and return.
Logger(r) ==
    \E kind \in {"logger", "recovery"} :
        /\ at(r, kind, {"start", "back"})
        /\ does(r, IF top(req[r]).at = "start" THEN callNext(req[r]) ELSE returns(req[r]))
        /\ UNCHANGED contexts

\* Without valid credentials BasicAuth writes 401 and returns to the loop, which
\* goes on (its comment says "we return 401 and abort handlers chain").
BasicAuth(r) ==
    LET q == req[r]
    IN \/ /\ at(r, "basicAuth", {"start"}) /\ q.known
          /\ contexts' = [contexts EXCEPT ![q.ctx] = r]
          /\ does(r, callNext(q))
       \/ /\ at(r, "basicAuth", {"start"}) /\ ~q.known
          /\ does(r, returns(write(q, 401))) /\ UNCHANGED contexts
       \/ at(r, "basicAuth", {"back"}) /\ does(r, returns(q)) /\ UNCHANGED contexts

AuthInterceptor(r) ==
    LET q == req[r]
    IN /\ at(r, "jwt", {"start"})
       /\ does(r, returns(IF q.path \in Login \/ q.known THEN q ELSE abort(write(q, 401))))
       /\ UNCHANGED contexts

notFound(r) ==
    /\ at(r, "notFound", {"start"})
    /\ does(r, returns(write(req[r], 404))) /\ UNCHANGED contexts
----------------------------------------------------------------------------
(* The application's handler, and panics *)

\* It answers, fails, aborts or calls Next, in any order, and returns.  The data
\* of an answer may fail after its status was written: Render aborts.
handles(r, calls) ==
    /\ at(r, "handler", {"start", "back"})
    /\ LET q == req[r]
       IN \/ "answer" \in calls /\ does(r, write(q, 200))
          \/ "answer" \in calls /\ does(r, abort(write(q, 200)))
          \/ "fail" \in calls /\ does(r, Fail(q, 400))
          \/ "abort" \in calls /\ does(r, abort(q))
          \/ "next" \in calls /\ does(r, callNext(q))
          \/ does(r, returns(q))
    /\ UNCHANGED contexts

handlerPanics(r, p) ==
    /\ at(r, "handler", {"start", "back"})
    /\ req' = [req EXCEPT ![r].panic = p, ![r].raised = p]
    /\ UNCHANGED <<pool, contexts>>

\* A mutant of recovering: only a PsyError is caught.
recoveringPsyError(q) ==
    q.handlers[top(q).handler] = "recovery" /\ top(q).at = "next" /\ q.panic = "psyError"

recovering(q) == q.handlers[top(q).handler] = "recovery" /\ top(q).at = "next"

\* A panic leaves the handler on top.  In Recovery's deferred function its err.(error)
\* panics for a value that is no error; ErrFunc may be nil, and Engine.Logger: these
\* are errors for the next Recovery below.  A PsyError's function answers or not.
\* A panic that leaves ServeHTTP ends at the server of net/http.
unwind(r) ==
    LET q == req[r]
        popped == [q EXCEPT !.stack = Front(@)]
        recovered == [q EXCEPT !.panic = "none"]
    IN /\ q.state = "serving" /\ q.panic # "none"
       /\ \/ q.stack = <<>> /\ does(r, [q EXCEPT !.state = "aborted"])
          \/ /\ q.stack # <<>> /\ (~recovering(q) \/ q.panic = "goexit")
             /\ does(r, popped)
          \/ /\ q.stack # <<>> /\ recovering(q)
             /\ \/ /\ q.panic \in {"value", "bareError"} \/ (q.panic = "error" /\ ~hasLogger)
                   /\ does(r, [popped EXCEPT !.panic = "error"])
                \/ /\ q.panic = "psyError"
                   /\ \E answered \in {recovered, write(recovered, 400)} :
                        does(r, returns(abort(answered)))
                \/ /\ q.panic = "error" /\ hasLogger
                   /\ does(r, returns(Fail(recovered, 500)))
       /\ UNCHANGED contexts

webStep(r) ==
    \/ serveReturns(r) \/ Logger(r) \/ BasicAuth(r) \/ AuthInterceptor(r) \/ notFound(r)
    \/ unwind(r)
----------------------------------------------------------------------------
\* Whatever mixture of handlers that call Next and that do not, each handler of a
\* request's chain runs at most once, in the order in which they were used, and
\* when one aborts, or panics, no other one is called.  If none does, all of them
\* are called, but of a chain that BasicAuth refuses nothing is said: auth.go:55
\* promises its end, and the code lets it go on (auth.go:57-58).  The handler behind
\* a BasicAuth that knew the user finds this user in its pooled context.  Any other
\* user a handler finds, also one whose request is not known, was let pass by
\* BasicAuth in a request that had the same context before and is over: reset leaves
\* Keys as they are (context.go:41-52), but two requests never share them.
HandlersRunInOrder ==
    \A r \in Request :
        LET q == req[r]
            passedAuth == \E i \in DOMAIN q.entered : q.handlers[i] = "basicAuth"
            user == contexts[q.ctx]
        IN /\ \A i \in DOMAIN q.entered : q.entered[i] = i
           /\ q.aborted # 0 => Len(q.entered) = q.aborted
           /\ q.state = "done" /\ q.aborted = 0 /\ (passedAuth => q.known) =>
                Len(q.entered) = Len(q.handlers)
           /\ at(r, "handler", {"start", "back"}) =>
                /\ q.known /\ passedAuth => user = r
                /\ user # None => /\ req[user].known /\ req[user].ctx = q.ctx
                                  /\ user = r \/ req[user].state \in {"done", "aborted"}

\* "Recovery catches the panic and returns Internal Server Error to the user"
\* (recovery.go:30), under whatever handlers it started: a handler that panics with
\* an error under Recovery, or with a PsyError that has a function, never ends the
\* connection, and after an error the user has been sent a status.
PanicsAreAnswered ==
    \A r \in Request :
        LET q == req[r]
            caught == hasLogger /\ q.raised \in {"error", "psyError"}
                      /\ \E i \in DOMAIN q.entered : q.handlers[i] = "recovery"
        IN /\ q.state = "aborted" => ~caught /\ q.raised # "none"
           /\ q.state = "done" /\ q.raised = "error" => q.sent # 0
=============================================================================

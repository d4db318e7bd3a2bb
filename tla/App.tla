--------------------------------- MODULE App ---------------------------------
(***************************************************************************)
(* A program built on psygo: it registers its routes and serves requests,  *)
(* whose handlers may call Transaction of the ORM.  Composes Web (with     *)
(* Router) and Orm: the function of the transaction runs on the stack of   *)
(* the request, so that its panic unwinds Transaction, then the handlers.  *)
(***************************************************************************)
EXTENDS Web, Orm

CONSTANT Config  \* what the runs are about: see ConfigType

VARIABLE config

vars == <<config, routervars, webvars, hooks, ormvars>>

\* The program's middlewares, its routes and how many of them it registers, the
\* requests it gets with their paths, what its handlers call, whether they use the
\* ORM, and how they panic.
ASSUME AppAssumption ==
    /\ Session = Request /\ None \notin Request /\ MaxStatements \in Nat
    /\ Paths \subseteq Seq(STRING) /\ Paths # {}
    /\ \A c \in Config : /\ c.groups \in Seq([prefix : Seq(STRING), middlewares : Seq(Middleware)])
                         /\ c.registrations \in Nat /\ c.routes \subseteq Seq(STRING) \ {NoPattern}
                         /\ c.requests \subseteq Request /\ c.paths \subseteq Paths
                         /\ c.orm \in BOOLEAN /\ c.panics \subseteq Panics
                         /\ c.clauses \subseteq Clause

TypeOK == WebTypeOK /\ OrmTypeOK /\ Len(routes) <= config.registrations

Init ==
    /\ config \in Config
    /\ RouterInit /\ WebInit /\ OrmInit
    /\ groups = config.groups /\ hasLogger = config.hasLogger
    /\ IF config.orm THEN hooks \in BOOLEAN ELSE hooks = FALSE

registers(pattern) ==
    /\ \A r \in Request : req[r].state = "new"
    /\ Len(routes) < config.registrations /\ addRoute(pattern)
    /\ UNCHANGED <<config, webvars, hooks, ormvars>>

arrives(r) ==
    /\ Len(routes) = config.registrations
    /\ \E x \in Ctx, path \in config.paths, known \in BOOLEAN : ServeHTTP(r, x, path, known)

panics(r, p) == handlerPanics(r, p) /\ UNCHANGED <<session, tx, stored, outcome>>

\* The handler, outside of a transaction.
serves(r) ==
    /\ session[r].at = "none"
    /\ \/ arrives(r) \/ webStep(r) \/ handles(r, config.calls)
       \/ \E p \in config.panics : handlerPanics(r, p)
    /\ UNCHANGED ormvars

\* Its function.
f(r) ==
    \/ begins(r) \/ Model(r) \/ (\E c \in config.clauses : setClause(r, c))
    \/ (\E kind \in Statement : statement(r, kind)) \/ ownTransaction(r)
    \/ \E err \in BOOLEAN : returnsErr(r, err)

transacts(r) ==
    /\ config.orm /\ at(r, "handler", {"start", "back"})
    /\ \/ f(r) /\ UNCHANGED <<req, pool, contexts>>
       \/ inF(r) /\ \E p \in config.panics : panics(r, p)
       \/ modelMissing(r) /\ panics(r, "error")
       \/ inF(r) /\ txMissing(r) /\ panics(r, "error")

\* The end of Transaction, when f has returned and when the stack unwinds.
leaves(r) ==
    /\ session[r].at = "returned" \/ (inF(r) /\ req[r].panic # "none")
    /\ \/ ends(r, req[r].panic \notin {"none", "goexit"}) /\ UNCHANGED req
       \/ endsMissing(r) /\ req' = [req EXCEPT ![r].panic = "error", ![r].raised = "error"]
    /\ UNCHANGED <<pool, contexts>>

Next ==
    \/ \E p \in config.routes : registers(p)
    \/ \E r \in config.requests :
         /\ serves(r) \/ transacts(r) \/ leaves(r)
         /\ UNCHANGED <<config, routervars, groups, hasLogger, hooks>>

Spec == Init /\ [][Next]_vars
=============================================================================

--------------------------------- MODULE Orm ---------------------------------
(***************************************************************************)
(* The ORM of psygo: Engine.Transaction (orm/psyorm.go) and the session    *)
(* its function gets (orm/session, orm/clause).  A session collects the    *)
(* clauses of the next statement, and sends its statements to its          *)
(* transaction, or to the database if it has none.  The database may fail  *)
(* any statement, and lose the answer of a Commit.                         *)
(***************************************************************************)
EXTENDS Integers, Sequences

CONSTANTS Session,
          MaxStatements  \* bound on the statements of a function

VARIABLES
    hooks,   \* the model has hooks that run queries of their own
    session, \* the session of each Transaction
    tx,      \* the transactions begun on it, each with its state and the
             \* changes it has made so far
    stored,  \* the number of its changes that are in the database for good
    outcome  \* how Transaction ended: "nil", "err", "panic" or "exit"

ormvars == <<session, tx, stored, outcome>>

Clause == {"where", "orderBy", "limit"}

\* The clauses that Build puts into each statement, where they are set.
builds == [Insert |-> {}, Update |-> {"where"}, Delete |-> {"where"}, Count |-> {"where"},
           Find |-> Clause, First |-> Clause, Raw |-> {}]

Statement == DOMAIN builds
changing == {"Insert", "Update", "Delete", "Raw"}
hooked == {"Insert", "Update", "Delete", "Find", "First"}

OrmTypeOK ==
    /\ hooks \in BOOLEAN
    /\ session \in [Session -> [at : {"none", "f", "returned"},
                                tx : 0..2, refTable : BOOLEAN, clause : SUBSET Clause,
                                err : BOOLEAN, count : 0..MaxStatements, wanted : SUBSET Clause,
                                asGiven : BOOLEAN, done : 0..MaxStatements,
                                own : BOOLEAN, lost : BOOLEAN]]
    /\ \A s \in Session : \A t \in DOMAIN tx[s] :
         tx[s][t] \in [state : {"open", "committed", "rolledBack"}, changes : 0..MaxStatements]
    /\ stored \in [Session -> 0..MaxStatements]
    /\ outcome \in [Session -> {"none", "nil", "err", "panic", "exit"}]

newSession ==
    [at |-> "none",       \* then where its Transaction is: in f, or f has returned
     tx |-> 0,            \* the number of its transaction, 0 for nil
     refTable |-> FALSE,  \* a model is set
     clause |-> {},       \* the clauses set
     err |-> FALSE,       \* f returned an error
     count |-> 0,         \* the statements so far
     wanted |-> {},       \* history: the clauses f gave since its last statement
     asGiven |-> TRUE,    \* history: its statements ran with the clauses given for them
     done |-> 0,          \* history: the changes of f that succeeded
     own |-> FALSE,       \* history: f called Begin, Commit or Rollback itself
     lost |-> FALSE]      \* history: the answer of Commit was lost

OrmInit ==
    /\ session = [s \in Session |-> newSession]
    /\ tx = [s \in Session |-> <<>>]
    /\ stored = [s \in Session |-> 0]
    /\ outcome = [s \in Session |-> "none"]

inF(s) == session[s].at = "f"

sessionIs(s, new) == session' = [session EXCEPT ![s] = new]
----------------------------------------------------------------------------
(* Begin, Commit and Rollback of a session *)

\* When the database fails to begin, the session's transaction is nil.
Begin(s, new) ==
    \/ /\ tx' = [tx EXCEPT ![s] = Append(@, [state |-> "open", changes |-> 0])]
       /\ sessionIs(s, [new EXCEPT !.tx = Len(tx[s]) + 1])
    \/ sessionIs(s, [new EXCEPT !.tx = 0]) /\ UNCHANGED tx

open(s) == session[s].tx # 0 /\ tx[s][session[s].tx].state = "open"

\* The session keeps the transaction when it has ended.  Commit fails if it had
\* ended before, or with the database, which may have committed: then its answer
\* is lost.
Commit(s, fails, new) ==
    LET t == session[s].tx
        committed == open(s) /\ (~fails \/ new.lost)
    IN /\ fails \/ open(s)
       /\ new.lost => fails /\ open(s)
       /\ sessionIs(s, new)
       /\ tx' = IF ~open(s) THEN tx
                ELSE [tx EXCEPT ![s][t].state = IF committed THEN "committed" ELSE "rolledBack"]
       /\ stored' = IF committed THEN [stored EXCEPT ![s] = @ + tx[s][t].changes] ELSE stored

\* A mutant of Rollback: what the transaction did is kept.
keepAll(s, new) == \E fails \in BOOLEAN : Commit(s, fails, new)

Rollback(s, new) ==
    /\ sessionIs(s, new)
    /\ tx' = IF open(s) THEN [tx EXCEPT ![s][session[s].tx].state = "rolledBack"] ELSE tx
    /\ UNCHANGED stored
----------------------------------------------------------------------------
(* What the function does with its session *)

\* A mutant of Clear: the clauses stay.
ClearNothing(q) == [q EXCEPT !.wanted = {}]

Clear(q) == [q EXCEPT !.clause = {}, !.wanted = {}]

Model(s) ==
    /\ inF(s) /\ sessionIs(s, [session[s] EXCEPT !.refTable = TRUE])
    /\ UNCHANGED <<tx, stored, outcome>>

\* Where, OrderBy, Limit.
setClause(s, c) ==
    /\ inF(s)
    /\ sessionIs(s, [session[s] EXCEPT !.clause = @ \cup {c}, !.wanted = @ \cup {c}])
    /\ UNCHANGED <<tx, stored, outcome>>

\* A statement: the hook before it, which may run one itself; Build, and Exec,
\* QueryRow or QueryRows, which clear the session, failing or not.  Nothing is
\* sent to a transaction that has ended.  A First is a Find with a limit.
statement(s, kind) ==
    LET q == session[s]
        limit == IF kind = "First" THEN {"limit"} ELSE {}
        given == q.clause \cup limit
        left == IF hooks /\ kind \in hooked THEN {} ELSE given
        changed == IF kind \in changing THEN 1 ELSE 0
        wanted == q.wanted \cup limit
        sent == [Clear(q) EXCEPT !.count = @ + 1,
                    !.asGiven = @ /\ \A c \in builds[kind] : c \in left <=> c \in wanted]
        succeeds == [sent EXCEPT !.done = @ + changed]
    IN /\ inF(s) /\ q.count < MaxStatements
       /\ kind # "Raw" => q.refTable
       /\ \/ sessionIs(s, sent) /\ UNCHANGED <<tx, stored>>
          \/ /\ open(s) /\ sessionIs(s, succeeds)
             /\ tx' = [tx EXCEPT ![s][q.tx].changes = @ + changed]
             /\ UNCHANGED stored
          \/ /\ q.tx = 0 /\ sessionIs(s, succeeds)
             /\ stored' = [stored EXCEPT ![s] = @ + changed]
             /\ UNCHANGED tx
       /\ UNCHANGED outcome

\* Without a model CallMethod and RefTable lead to a nil pointer.
modelMissing(s) == inF(s) /\ ~session[s].refTable

\* f ends or begins a transaction itself.
ownTransaction(s) ==
    LET new == [session[s] EXCEPT !.own = TRUE]
    IN /\ inF(s) /\ UNCHANGED outcome
       /\ \/ Len(tx[s]) < 2 /\ Begin(s, new) /\ UNCHANGED stored
          \/ /\ session[s].tx # 0
             /\ \/ Rollback(s, new)
                \/ \E fails, lost \in BOOLEAN : Commit(s, fails, [new EXCEPT !.lost = lost])

\* Commit and Rollback of a nil transaction.
txMissing(s) == session[s].tx = 0

returnsErr(s, err) ==
    /\ inF(s) /\ sessionIs(s, [session[s] EXCEPT !.at = "returned", !.err = err])
    /\ UNCHANGED <<tx, stored, outcome>>
----------------------------------------------------------------------------
(* Engine.Transaction *)

\* When the database cannot begin one, f is not called.
begins(s) ==
    /\ session[s].at = "none" /\ outcome[s] = "none"
    /\ \/ /\ Begin(s, [session[s] EXCEPT !.at = "f"]) /\ session'[s].tx # 0
          /\ UNCHANGED outcome
       \/ outcome' = [outcome EXCEPT ![s] = "err"] /\ UNCHANGED <<session, tx>>
    /\ UNCHANGED stored

\* The session is garbage when Transaction is over; what is kept is its history.
over(s) ==
    LET q == session[s]
    IN [newSession EXCEPT !.asGiven = q.asGiven, !.done = q.done, !.own = q.own, !.lost = q.lost]

\* The deferred function: after a panic or an error it rolls back; without either
\* it commits, and the error of Commit is Transaction's.
ends(s, panicking) ==
    /\ session[s].tx # 0
    /\ \/ /\ panicking \/ session[s].err
          /\ Rollback(s, over(s))
          /\ outcome' = [outcome EXCEPT ![s] = IF panicking THEN "panic" ELSE "err"]
       \/ /\ ~panicking /\ ~session[s].err
          /\ \E fails, lost \in BOOLEAN :
               /\ Commit(s, fails, [over(s) EXCEPT !.lost = lost])
               /\ outcome' = [outcome EXCEPT ![s] = IF session[s].at = "f" THEN "exit"
                                                    ELSE IF fails THEN "err" ELSE "nil"]

\* It panics itself if the transaction is nil.
endsMissing(s) ==
    /\ txMissing(s) /\ sessionIs(s, over(s))
    /\ outcome' = [outcome EXCEPT ![s] = "panic"]
    /\ UNCHANGED <<tx, stored>>
----------------------------------------------------------------------------
\* Unless its function begins or ends a transaction itself, Transaction stores all
\* the changes that its statements made if it returns nil, and none of them if it
\* returns an error or panics, whatever statements failed on the way and whatever
\* the function did with their errors; only a Commit whose answer is lost may
\* leave it open.  In every case the transaction has ended, and its connection is
\* free.  A change here is one the database can roll back: a Raw statement that
\* defines data commits what was done before it in MySQL, and is not modelled.
TransactionAllOrNothing ==
    \A s \in Session :
        LET q == session[s]
        IN outcome[s] # "none" /\ ~q.own =>
             /\ outcome[s] = "nil" => stored[s] = q.done
             /\ outcome[s] \in {"err", "panic"} /\ ~q.lost => stored[s] = 0
             /\ \A t \in DOMAIN tx[s] : tx[s][t].state # "open"

\* Each statement runs with the clauses that were given for it since the statement
\* before, no older one and none missing, unless the model has hooks that run
\* statements (they clear the clauses of the statement that called them).
StatementHasItsClauses ==
    ~hooks => \A s \in Session : session[s].asGiven
=============================================================================

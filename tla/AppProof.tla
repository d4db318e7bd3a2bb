------------------------------- MODULE AppProof -------------------------------
(***************************************************************************)
(* Proofs of the invariants of App that App.cfg checks: of the ORM, of the *)
(* web engine, of the program that puts them together, of its types, and   *)
(* of the router.                                                          *)
(***************************************************************************)
EXTENDS App, FiniteInduction, SequenceTheorems, TLAPS

USE DEF vars, routervars, webvars, ormvars
----------------------------------------------------------------------------
(* Transactions *)

SessionType ==
    [at : {"none", "f", "returned"}, tx : Nat, refTable : BOOLEAN, clause : SUBSET Clause,
     err : BOOLEAN, count : Nat, wanted : SUBSET Clause, asGiven : BOOLEAN, done : Nat,
     own : BOOLEAN, lost : BOOLEAN]

TxType == [state : {"open", "committed", "rolledBack"}, changes : Nat]

OrmTypes ==
    /\ session \in [Session -> SessionType]
    /\ tx \in [Session -> Seq(TxType)]
    /\ stored \in [Session -> Nat]
    /\ outcome \in [Session -> {"none", "nil", "err", "panic", "exit"}]
    /\ \A s \in Session : session[s].tx <= Len(tx[s])

\* A function that leaves the transaction alone has made its changes in the one
\* that is open.
Transacts(s) ==
    LET q == session[s]
    IN /\ q.at # "none" => outcome[s] = "none"
       /\ q.at = "none" /\ outcome[s] = "none" =>
            /\ ~q.own /\ ~q.lost /\ tx[s] = <<>> /\ stored[s] = 0 /\ q.done = 0
       /\ q.at # "none" /\ ~q.own =>
            /\ q.tx = 1 /\ Len(tx[s]) = 1 /\ ~q.lost
            /\ tx[s][1].state = "open" /\ tx[s][1].changes = q.done /\ stored[s] = 0
       /\ outcome[s] # "none" /\ ~q.own =>
            /\ outcome[s] = "nil" => stored[s] = q.done
            /\ outcome[s] \in {"err", "panic"} /\ ~q.lost => stored[s] = 0
            /\ \A t \in DOMAIN tx[s] : tx[s][t].state # "open"

\* The clauses that are set are those that the function has given.
Clauses(s) == ~hooks => session[s].asGiven /\ session[s].clause = session[s].wanted

OrmInv == OrmTypes /\ \A s \in Session : Transacts(s) /\ Clauses(s)

\* The sessions are new.
LEMMA OrmStarts == OrmInit => OrmInv
<1> SUFFICES ASSUME OrmInit PROVE OrmInv
  OBVIOUS
<1>1. newSession \in SessionType
  BY DEF newSession, SessionType, Clause
<1>2. OrmTypes
  BY <1>1 DEF OrmInit, OrmTypes, newSession
<1>3. \A s \in Session : Transacts(s) /\ Clauses(s)
  BY DEF OrmInit, Transacts, Clauses, newSession
<1> QED
  BY <1>2, <1>3 DEF OrmInv

\* What it means for the transactions and their statements.
LEMMA OrmSuffices == OrmInv => TransactionAllOrNothing /\ StatementHasItsClauses
<1> SUFFICES ASSUME OrmInv PROVE TransactionAllOrNothing /\ StatementHasItsClauses
  OBVIOUS
<1>1. TransactionAllOrNothing
  BY DEF OrmInv, Transacts, TransactionAllOrNothing
<1>2. StatementHasItsClauses
  BY DEF OrmInv, Clauses, StatementHasItsClauses
<1> QED
  BY <1>1, <1>2

\* A step of one session: what is left to show of it.
LEMMA OrmLocal ==
    ASSUME OrmInv, NEW s \in Session, UNCHANGED hooks, OrmTypes',
           \A u \in Session \ {s} : /\ session'[u] = session[u] /\ tx'[u] = tx[u]
                                    /\ stored'[u] = stored[u] /\ outcome'[u] = outcome[u],
           Transacts(s)', Clauses(s)'
    PROVE OrmInv'
<1>1. ASSUME NEW u \in Session, u # s PROVE Transacts(u)' /\ Clauses(u)'
  BY <1>1 DEF OrmInv, Transacts, Clauses
<1> QED
  BY <1>1 DEF OrmInv

\* The function sets a model or a clause, or returns.
LEMMA ClauseSteps ==
    ASSUME OrmInv, UNCHANGED hooks, NEW s \in Session,
           Model(s) \/ (\E c \in Clause : setClause(s, c)) \/ (\E e \in BOOLEAN : returnsErr(s, e))
    PROVE OrmInv'
<1> DEFINE q == session'[s]
<1>1. OrmInv /\ UNCHANGED <<tx, stored, outcome>>
  BY DEF Model, setClause, returnsErr
<1>2. /\ session' = [session EXCEPT ![s] = q] /\ q \in SessionType
      /\ session[s].at # "none" /\ q.at # "none"
      /\ q.tx = session[s].tx /\ q.done = session[s].done /\ q.own = session[s].own
      /\ q.lost = session[s].lost /\ q.asGiven = session[s].asGiven
      /\ session[s].clause = session[s].wanted => q.clause = q.wanted
  <2>1. CASE Model(s)
    BY <2>1 DEF OrmInv, OrmTypes, SessionType, Model, inF, sessionIs
  <2>2. ASSUME NEW c \in Clause, setClause(s, c) PROVE <1>2!:
    BY <2>2 DEF OrmInv, OrmTypes, SessionType, setClause, inF, sessionIs
  <2>3. ASSUME NEW e \in BOOLEAN, returnsErr(s, e) PROVE <1>2!:
    <3>1. session[s] \in SessionType /\ session[s].at = "f"
      BY <2>3 DEF OrmInv, OrmTypes, returnsErr, inF
    <3>2. [session[s] EXCEPT !.at = "returned", !.err = e] \in SessionType
      BY <3>1 DEF SessionType
    <3>3. q = [session[s] EXCEPT !.at = "returned", !.err = e]
      BY <2>3 DEF OrmInv, OrmTypes, returnsErr, sessionIs
    <3>4. session' = [session EXCEPT ![s] = q]
      BY <2>3, <3>3 DEF returnsErr, sessionIs
    <3> HIDE DEF q
    <3> QED
      BY <3>1, <3>2, <3>3, <3>4 DEF SessionType
  <2> QED
    BY <2>1, <2>2, <2>3
<1> HIDE DEF q
<1>3. OrmTypes'
  BY <1>1, <1>2 DEF OrmInv, OrmTypes
<1>4. \A u \in Session \ {s} : session'[u] = session[u]
  BY <1>1, <1>2 DEF OrmInv, OrmTypes
<1>5. session'[s] = q
  BY <1>1, <1>2 DEF OrmInv, OrmTypes
<1>6. Transacts(s)' /\ Clauses(s)'
  BY <1>1, <1>2, <1>5 DEF OrmInv, Transacts, Clauses
<1> QED
  BY <1>1, <1>3, <1>4, <1>6, OrmLocal

\* A statement runs in the transaction, fails, or has none to run in.
LEMMA StatementSteps ==
    ASSUME OrmInv, UNCHANGED hooks, NEW s \in Session, NEW kind \in Statement, statement(s, kind)
    PROVE OrmInv'
<1> DEFINE q == session[s]
           limit == IF kind = "First" THEN {"limit"} ELSE {}
           given == q.clause \cup limit
           left == IF hooks /\ kind \in hooked THEN {} ELSE given
           changed == IF kind \in changing THEN 1 ELSE 0
           wanted == q.wanted \cup limit
           fits == \A c \in builds[kind] : c \in left <=> c \in wanted
           sent == [Clear(q) EXCEPT !.count = @ + 1, !.asGiven = @ /\ fits]
           succeeds == [sent EXCEPT !.done = @ + changed]
<1>1. q \in SessionType /\ q.at = "f" /\ UNCHANGED outcome
  BY DEF OrmInv, OrmTypes, statement, inF
<1>2. changed \in Nat
  OBVIOUS
<1>3. fits \in BOOLEAN /\ (~hooks => fits)
  BY <1>1 DEF OrmInv, Clauses
<1>4. \/ session' = [session EXCEPT ![s] = sent] /\ UNCHANGED <<tx, stored>>
      \/ /\ open(s) /\ session' = [session EXCEPT ![s] = succeeds]
         /\ tx' = [tx EXCEPT ![s][q.tx].changes = @ + changed]
         /\ UNCHANGED stored
      \/ /\ q.tx = 0 /\ session' = [session EXCEPT ![s] = succeeds]
         /\ stored' = [stored EXCEPT ![s] = @ + changed]
         /\ UNCHANGED tx
  BY DEF statement, sessionIs
<1> HIDE DEF fits, changed
<1>5. /\ sent \in SessionType /\ sent.at = "f" /\ sent.tx = q.tx /\ sent.done = q.done
      /\ sent.own = q.own /\ sent.lost = q.lost /\ sent.clause = sent.wanted
      /\ sent.asGiven = (q.asGiven /\ fits)
  <2> HIDE DEF q
  <2>1. /\ Clear(q) \in SessionType /\ Clear(q).at = "f" /\ Clear(q).tx = q.tx
        /\ Clear(q).done = q.done /\ Clear(q).own = q.own /\ Clear(q).lost = q.lost
        /\ Clear(q).clause = Clear(q).wanted /\ Clear(q).asGiven = q.asGiven
    BY <1>1 DEF SessionType, Clear
  <2> DEFINE c == Clear(q)
             g == c.asGiven /\ fits
             n == c.count + 1
  <2>2. g \in BOOLEAN /\ n \in Nat /\ g = (q.asGiven /\ fits)
    BY <1>3, <2>1 DEF SessionType
  <2>3. sent = [c EXCEPT !.count = n, !.asGiven = g]
    OBVIOUS
  <2> HIDE DEF sent, g, n, c
  <2>4. c \in SessionType
    BY <2>1 DEF c
  <2>5. /\ sent \in SessionType /\ sent.at = c.at /\ sent.tx = c.tx /\ sent.done = c.done
        /\ sent.own = c.own /\ sent.lost = c.lost /\ sent.clause = c.clause
        /\ sent.wanted = c.wanted /\ sent.asGiven = g
    BY <2>2, <2>3, <2>4 DEF SessionType
  <2> QED
    BY <2>1, <2>2, <2>5 DEF c
<1> HIDE DEF sent
<1>6. /\ succeeds \in SessionType /\ succeeds.at = "f" /\ succeeds.tx = q.tx
      /\ succeeds.done = q.done + changed
      /\ succeeds.own = q.own /\ succeeds.lost = q.lost /\ succeeds.clause = succeeds.wanted
      /\ succeeds.asGiven = (q.asGiven /\ fits)
  BY <1>2, <1>5 DEF SessionType
<1> HIDE DEF succeeds
<1>7. CASE session' = [session EXCEPT ![s] = sent] /\ UNCHANGED <<tx, stored>>
  <2>1. OrmTypes' /\ \A u \in Session \ {s} : session'[u] = session[u]
    BY <1>1, <1>5, <1>7 DEF OrmInv, OrmTypes
  <2>2. Transacts(s)' /\ Clauses(s)'
    BY <1>1, <1>3, <1>5, <1>7 DEF OrmInv, OrmTypes, Transacts, Clauses
  <2> QED
    BY <1>1, <1>7, <2>1, <2>2, OrmLocal
<1>8. CASE /\ open(s) /\ session' = [session EXCEPT ![s] = succeeds]
           /\ tx' = [tx EXCEPT ![s][q.tx].changes = @ + changed] /\ UNCHANGED stored
  <2>1. q.tx \in 1..Len(tx[s]) /\ tx[s] \in Seq(TxType)
    BY <1>1, <1>8 DEF OrmInv, OrmTypes, open, SessionType
  <2>2. tx[s][q.tx] \in TxType
    BY <2>1
  <2> DEFINE t == [tx[s] EXCEPT ![q.tx].changes = @ + changed]
  <2>3. /\ t \in Seq(TxType) /\ Len(t) = Len(tx[s])
        /\ t[q.tx].state = tx[s][q.tx].state
        /\ t[q.tx].changes = tx[s][q.tx].changes + changed
    BY <1>2, <2>1, <2>2, SMTT(30) DEF TxType
  <2>4. tx' = [tx EXCEPT ![s] = t]
    BY <1>8
  <2> HIDE DEF t
  <2>5. OrmTypes' /\ \A u \in Session \ {s} : session'[u] = session[u] /\ tx'[u] = tx[u]
    BY <1>1, <1>6, <1>8, <2>3, <2>4 DEF OrmInv, OrmTypes
  <2>6. session'[s] = succeeds /\ tx'[s] = t
    BY <1>8, <2>4 DEF OrmInv, OrmTypes
  <2>7. Transacts(s)'
    <3>1. Transacts(s)
      BY DEF OrmInv
    <3> QED
      BY <1>1, <1>6, <1>8, <2>3, <2>6, <3>1, SMTT(30) DEF Transacts
  <2>8. Clauses(s)'
    BY <1>3, <1>6, <2>6 DEF OrmInv, Clauses
  <2> QED
    BY <1>1, <1>8, <2>5, <2>7, <2>8, OrmLocal
<1>9. CASE /\ q.tx = 0 /\ session' = [session EXCEPT ![s] = succeeds]
           /\ stored' = [stored EXCEPT ![s] = @ + changed] /\ UNCHANGED tx
  <2>1. OrmTypes' /\ \A u \in Session \ {s} : session'[u] = session[u] /\ stored'[u] = stored[u]
    BY <1>1, <1>2, <1>6, <1>9 DEF OrmInv, OrmTypes
  <2>2. session'[s] = succeeds
    BY <1>9 DEF OrmInv, OrmTypes
  <2>3. Transacts(s)' /\ Clauses(s)'
    BY <1>1, <1>3, <1>6, <1>9, <2>2 DEF OrmInv, Transacts, Clauses
  <2> QED
    BY <1>1, <1>9, <2>1, <2>3, OrmLocal
<1> QED
  BY <1>4, <1>7, <1>8, <1>9

\* The end of the session's transaction, whether it is open or not.
LEMMA Ending ==
    ASSUME OrmInv, NEW s \in Session, NEW new \in SessionType, new.tx <= Len(tx[s]),
           Rollback(s, new) \/ \E fails \in BOOLEAN : Commit(s, fails, new)
    PROVE /\ session' = [session EXCEPT ![s] = new]
          /\ tx' \in [Session -> Seq(TxType)] /\ stored' \in [Session -> Nat]
          /\ \A u \in Session \ {s} : tx'[u] = tx[u] /\ stored'[u] = stored[u]
          /\ Len(tx'[s]) = Len(tx[s])
          /\ open(s) => tx'[s][session[s].tx].state # "open"
<1> DEFINE n == session[s].tx
<1>1. /\ n \in Nat /\ n <= Len(tx[s]) /\ tx[s] \in Seq(TxType)
      /\ tx \in [Session -> Seq(TxType)] /\ stored \in [Session -> Nat]
  BY DEF OrmInv, OrmTypes, SessionType
<1>2. open(s) => n \in 1..Len(tx[s]) /\ tx[s][n] \in TxType
  BY <1>1 DEF open
<1>3. session' = [session EXCEPT ![s] = new]
  BY DEF Rollback, Commit, sessionIs
<1>4. CASE ~open(s)
  <2>1. UNCHANGED <<tx, stored>>
    BY <1>4 DEF Rollback, Commit
  <2> QED
    BY <1>1, <1>3, <1>4, <2>1
<1>5. CASE open(s)
  <2> DEFINE Ends(state) == /\ tx' = [tx EXCEPT ![s][n].state = state]
                            /\ \/ UNCHANGED stored
                               \/ stored' = [stored EXCEPT ![s] = @ + tx[s][n].changes]
  <2>1. Ends("committed") \/ Ends("rolledBack")
    <3>1. CASE Rollback(s, new)
      BY <1>5, <3>1 DEF Rollback
    <3>2. ASSUME NEW fails \in BOOLEAN, Commit(s, fails, new)
          PROVE Ends("committed") \/ Ends("rolledBack")
      BY <1>5, <3>2 DEF Commit
    <3> QED
      BY <3>1, <3>2
  <2>2. PICK state \in {"committed", "rolledBack"} : Ends(state)
    BY <2>1
  <2> DEFINE t == [tx[s] EXCEPT ![n].state = state]
  <2>3. tx' = [tx EXCEPT ![s] = t]
    BY <2>2
  <2>4. \/ UNCHANGED stored
        \/ stored' = [stored EXCEPT ![s] = stored[s] + tx[s][n].changes]
    BY <2>2
  <2>5. n \in 1..Len(tx[s]) /\ tx[s] \in Seq(TxType) /\ tx[s][n] \in TxType
    BY <1>1, <1>2, <1>5
  <2> HIDE DEF n, Ends
  <2>6. t \in Seq(TxType) /\ Len(t) = Len(tx[s]) /\ t[n].state = state
    BY <2>5 DEF TxType
  <2>7. stored[s] + tx[s][n].changes \in Nat
    BY <1>1, <2>5 DEF TxType
  <2> HIDE DEF t
  <2>8. stored' \in [Session -> Nat] /\ \A u \in Session \ {s} : stored'[u] = stored[u]
    BY <1>1, <2>4, <2>7
  <2> QED
    BY <1>1, <1>3, <2>3, <2>6, <2>8 DEF n
<1> QED
  BY <1>4, <1>5

\* The function begins, commits or rolls back a transaction itself.
LEMMA OwnSteps ==
    ASSUME OrmInv, UNCHANGED hooks, NEW s \in Session, ownTransaction(s)
    PROVE OrmInv'
<1> DEFINE q == session[s]
           new == [q EXCEPT !.own = TRUE]
<1>1. /\ q \in SessionType /\ q.at = "f" /\ q.tx <= Len(tx[s])
      /\ UNCHANGED outcome /\ outcome[s] = "none"
  BY DEF OrmInv, OrmTypes, ownTransaction, inF, Transacts
<1>2. /\ new \in SessionType /\ new.at = "f" /\ new.own /\ new.tx = q.tx
      /\ new.clause = q.clause /\ new.wanted = q.wanted /\ new.asGiven = q.asGiven
  BY <1>1 DEF SessionType
<1>3. \/ Begin(s, new) /\ UNCHANGED stored
      \/ Rollback(s, new)
      \/ \E fails, lost \in BOOLEAN : Commit(s, fails, [new EXCEPT !.lost = lost])
  BY DEF ownTransaction
<1> HIDE DEF new, q
<1>4. ASSUME NEW v \in SessionType, v.at = "f", v.own, v.clause = q.clause,
             v.wanted = q.wanted, v.asGiven = q.asGiven, v.tx <= Len(tx'[s]),
             session' = [session EXCEPT ![s] = v],
             tx' \in [Session -> Seq(TxType)], stored' \in [Session -> Nat],
             \A u \in Session \ {s} : tx'[u] = tx[u] /\ stored'[u] = stored[u]
      PROVE OrmInv'
  <2>1. OrmTypes' /\ session'[s] = v /\ \A u \in Session \ {s} : session'[u] = session[u]
    BY <1>1, <1>4 DEF OrmInv, OrmTypes
  <2>2. Transacts(s)' /\ Clauses(s)'
    BY <1>1, <1>4, <2>1 DEF OrmInv, Transacts, Clauses, q
  <2> QED
    BY <1>1, <1>4, <2>1, <2>2, OrmLocal
<1>5. CASE Rollback(s, new)
  BY <1>1, <1>2, <1>4, <1>5, Ending
<1>6. ASSUME NEW fails \in BOOLEAN, NEW lost \in BOOLEAN,
             Commit(s, fails, [new EXCEPT !.lost = lost])
      PROVE OrmInv'
  <2> DEFINE v == [new EXCEPT !.lost = lost]
  <2>1. /\ v \in SessionType /\ v.at = "f" /\ v.own /\ v.tx = q.tx
        /\ v.clause = q.clause /\ v.wanted = q.wanted /\ v.asGiven = q.asGiven
    BY <1>2 DEF SessionType
  <2> HIDE DEF v
  <2>2. Commit(s, fails, v)
    BY <1>6 DEF v
  <2> QED
    BY <1>1, <1>4, <2>1, <2>2, Ending
<1>7. CASE Begin(s, new) /\ UNCHANGED stored
  <2>1. tx \in [Session -> Seq(TxType)] /\ stored \in [Session -> Nat]
    BY DEF OrmInv, OrmTypes
  <2>2. CASE /\ tx' = [tx EXCEPT ![s] = Append(@, [state |-> "open", changes |-> 0])]
             /\ sessionIs(s, [new EXCEPT !.tx = Len(tx[s]) + 1])
    <3> DEFINE v == [new EXCEPT !.tx = Len(tx[s]) + 1]
               t == Append(tx[s], [state |-> "open", changes |-> 0])
    <3>1. t \in Seq(TxType) /\ Len(t) = Len(tx[s]) + 1 /\ Len(tx[s]) + 1 \in Nat
      BY <2>1 DEF TxType
    <3>2. /\ v \in SessionType /\ v.at = "f" /\ v.own /\ v.tx = Len(tx[s]) + 1
          /\ v.clause = q.clause /\ v.wanted = q.wanted /\ v.asGiven = q.asGiven
      BY <1>2, <3>1 DEF SessionType
    <3>3. session' = [session EXCEPT ![s] = v] /\ tx' = [tx EXCEPT ![s] = t]
      BY <2>2 DEF sessionIs
    <3> HIDE DEF v, t
    <3>4. /\ tx'[s] = t /\ tx' \in [Session -> Seq(TxType)] /\ stored' = stored
          /\ \A u \in Session \ {s} : tx'[u] = tx[u]
      BY <1>7, <2>1, <3>1, <3>3
    <3>5. v.tx <= Len(tx'[s]) /\ stored' \in [Session -> Nat]
      BY <2>1, <3>1, <3>2, <3>4
    <3> QED
      BY <1>4, <3>2, <3>3, <3>4, <3>5
  <2>3. CASE sessionIs(s, [new EXCEPT !.tx = 0]) /\ UNCHANGED tx
    <3> DEFINE v == [new EXCEPT !.tx = 0]
    <3>1. /\ v \in SessionType /\ v.at = "f" /\ v.own /\ v.tx = 0
          /\ v.clause = q.clause /\ v.wanted = q.wanted /\ v.asGiven = q.asGiven
      BY <1>2 DEF SessionType
    <3>2. session' = [session EXCEPT ![s] = v]
      BY <2>3 DEF sessionIs
    <3> HIDE DEF v
    <3>3. v.tx <= Len(tx'[s]) /\ tx' = tx /\ stored' = stored
      BY <1>7, <2>1, <2>3, <3>1
    <3> QED
      BY <1>4, <2>1, <3>1, <3>2, <3>3
  <2> QED
    BY <1>7, <2>2, <2>3 DEF Begin
<1> QED
  BY <1>3, <1>5, <1>6, <1>7

\* Transaction begins its transaction, or fails to.
LEMMA BeginSteps ==
    ASSUME OrmInv, UNCHANGED hooks, NEW s \in Session, begins(s)
    PROVE OrmInv'
<1> DEFINE q == session[s]
           new == [q EXCEPT !.at = "f"]
           t == Append(tx[s], [state |-> "open", changes |-> 0])
           v == [new EXCEPT !.tx = Len(tx[s]) + 1]
<1>1. /\ q \in SessionType /\ q.at = "none" /\ outcome[s] = "none" /\ UNCHANGED stored
      /\ ~q.own /\ ~q.lost /\ tx[s] = <<>> /\ stored[s] = 0 /\ q.done = 0
      /\ tx \in [Session -> Seq(TxType)]
  BY DEF OrmInv, OrmTypes, begins, Transacts
<1>2. CASE Begin(s, new) /\ session'[s].tx # 0 /\ UNCHANGED outcome
  <2>1. new \in SessionType /\ session \in [Session -> SessionType]
    BY <1>1 DEF SessionType, OrmInv, OrmTypes
  <2>2. session' # [session EXCEPT ![s] = [new EXCEPT !.tx = 0]]
    <3> DEFINE w == [new EXCEPT !.tx = 0]
    <3>1. w.tx = 0
      BY <2>1 DEF SessionType
    <3> HIDE DEF w, new
    <3>2. session' = [session EXCEPT ![s] = w] => session'[s] = w
      BY <2>1
    <3> QED
      BY <1>2, <3>1, <3>2 DEF w
  <2>3. session' = [session EXCEPT ![s] = v] /\ tx' = [tx EXCEPT ![s] = t]
    BY <1>2, <2>2 DEF Begin, sessionIs
  <2>4. t \in Seq(TxType) /\ Len(t) = 1 /\ t[1].state = "open" /\ t[1].changes = 0
    BY <1>1 DEF TxType
  <2>5. /\ new.own = q.own /\ new.lost = q.lost /\ new.done = q.done /\ new.at = "f"
        /\ new.clause = q.clause /\ new.wanted = q.wanted /\ new.asGiven = q.asGiven
    BY <1>1 DEF SessionType
  <2> HIDE DEF new, t, q
  <2>10. v = [new EXCEPT !.tx = 1]
    BY <1>1
  <2> HIDE DEF v
  <2>6. /\ v \in SessionType /\ v.tx = 1 /\ v.at = "f" /\ ~v.own /\ ~v.lost /\ v.done = 0
        /\ v.clause = q.clause /\ v.wanted = q.wanted /\ v.asGiven = q.asGiven
    BY <1>1, <2>1, <2>5, <2>10 DEF SessionType
  <2>7. session'[s] = v /\ tx'[s] = t
    BY <1>1, <2>1, <2>3
  <2>8. OrmTypes' /\ \A u \in Session \ {s} : session'[u] = session[u] /\ tx'[u] = tx[u]
    <3>1. session' \in [Session -> SessionType] /\ tx' \in [Session -> Seq(TxType)]
      BY <1>1, <2>1, <2>3, <2>4, <2>6
    <3>2. \A u \in Session \ {s} : session'[u] = session[u] /\ tx'[u] = tx[u]
      BY <1>1, <2>1, <2>3
    <3>3. UNCHANGED <<stored, outcome>>
      BY <1>1, <1>2
    <3>4. \A u \in Session : session'[u].tx <= Len(tx'[u])
      <4>1. ASSUME NEW u \in Session, u # s PROVE session'[u].tx <= Len(tx'[u])
        BY <3>2, <4>1 DEF OrmInv, OrmTypes
      <4>2. session'[s].tx = 1 /\ Len(tx'[s]) = 1
        BY <2>4, <2>6, <2>7, Zenon
      <4>3. session'[s].tx <= Len(tx'[s])
        BY <4>2
      <4> QED
        BY <4>1, <4>3
    <3> QED
      BY <3>1, <3>2, <3>3, <3>4 DEF OrmInv, OrmTypes
  <2>9. Transacts(s)' /\ Clauses(s)'
    <3>1. outcome'[s] = "none" /\ stored'[s] = 0
      BY <1>1, <1>2 DEF q
    <3>2. Clauses(s)'
      BY <2>6, <2>7 DEF OrmInv, Clauses, q
    <3> QED
      BY <2>4, <2>6, <2>7, <3>1, <3>2 DEF Transacts
  <2> QED
    BY <1>1, <1>2, <2>8, <2>9, OrmLocal
<1>3. CASE outcome' = [outcome EXCEPT ![s] = "err"] /\ UNCHANGED <<session, tx>>
  <2>1. OrmTypes' /\ outcome'[s] = "err" /\ \A u \in Session \ {s} : outcome'[u] = outcome[u]
    BY <1>1, <1>3 DEF OrmInv, OrmTypes
  <2>2. Transacts(s)' /\ Clauses(s)'
    BY <1>1, <1>3, <2>1 DEF OrmInv, Transacts, Clauses
  <2> QED
    BY <1>1, <1>3, <2>1, <2>2, OrmLocal
<1> QED
  BY <1>1, <1>2, <1>3 DEF begins

\* Transaction ends, with whatever its session has become.
LEMMA EndSteps ==
    ASSUME OrmInv, UNCHANGED hooks, NEW s \in Session, session[s].at # "none",
           NEW panicking \in BOOLEAN, ends(s, panicking) \/ endsMissing(s)
    PROVE OrmInv'
<1> DEFINE q == session[s]
           new(lost) == [over(s) EXCEPT !.lost = lost]
<1>1. /\ session \in [Session -> SessionType] /\ tx \in [Session -> Seq(TxType)]
      /\ stored \in [Session -> Nat] /\ q \in SessionType
      /\ outcome \in [Session -> {"none", "nil", "err", "panic", "exit"}]
  BY DEF OrmInv, OrmTypes
<1>2. ASSUME NEW v \in SessionType, v.at = "none", v.tx = 0, v.own = q.own, v.done = q.done,
             v.asGiven = q.asGiven, v.clause = v.wanted,
             session' = [session EXCEPT ![s] = v],
             tx' \in [Session -> Seq(TxType)], stored' \in [Session -> Nat],
             \A u \in Session \ {s} : tx'[u] = tx[u] /\ stored'[u] = stored[u],
             NEW o \in {"nil", "err", "panic", "exit"}, outcome' = [outcome EXCEPT ![s] = o],
             ~q.own => /\ o = "nil" => stored'[s] = q.done
                       /\ o \in {"err", "panic"} /\ ~v.lost => stored'[s] = 0
                       /\ \A t \in DOMAIN tx'[s] : tx'[s][t].state # "open"
      PROVE OrmInv'
  <2>1. session'[s] = v /\ outcome'[s] = o
    BY <1>1, <1>2
  <2>2. OrmTypes'
    BY <1>1, <1>2 DEF OrmInv, OrmTypes
  <2>3. \A u \in Session \ {s} : session'[u] = session[u] /\ outcome'[u] = outcome[u]
    BY <1>1, <1>2
  <2>4. Transacts(s)' /\ Clauses(s)'
    BY <1>1, <1>2, <2>1 DEF OrmInv, Transacts, Clauses
  <2> QED
    BY <1>2, <2>2, <2>3, <2>4, OrmLocal
<1>3. /\ over(s) \in SessionType /\ over(s).at = "none" /\ over(s).tx = 0
      /\ over(s).own = q.own /\ over(s).done = q.done /\ over(s).asGiven = q.asGiven
      /\ over(s).clause = over(s).wanted /\ over(s).lost = q.lost
  BY <1>1 DEF over, newSession, SessionType, Clause
<1>4. ~q.own => /\ q.tx = 1 /\ Len(tx[s]) = 1 /\ ~q.lost /\ open(s)
                /\ tx[s][1].changes = q.done /\ stored[s] = 0
  BY DEF OrmInv, Transacts, open
<1> HIDE DEF q
<1>5. CASE endsMissing(s)
  <2>1. /\ q.tx = 0 /\ session' = [session EXCEPT ![s] = over(s)]
        /\ outcome' = [outcome EXCEPT ![s] = "panic"] /\ UNCHANGED <<tx, stored>>
    BY <1>5 DEF endsMissing, txMissing, sessionIs, q
  <2>2. q.own
    BY <1>3, <1>4, <2>1 DEF SessionType
  <2> QED
    BY <1>1, <1>2, <1>3, <2>1, <2>2
<1>6. CASE /\ Rollback(s, over(s))
           /\ outcome' = [outcome EXCEPT ![s] = IF panicking THEN "panic" ELSE "err"]
  <2>1. stored' = stored
    BY <1>6 DEF Rollback
  <2>2. over(s).tx <= Len(tx[s])
    BY <1>1, <1>3
  <2>3. /\ session' = [session EXCEPT ![s] = over(s)]
        /\ tx' \in [Session -> Seq(TxType)] /\ stored' \in [Session -> Nat]
        /\ \A u \in Session \ {s} : tx'[u] = tx[u] /\ stored'[u] = stored[u]
        /\ Len(tx'[s]) = Len(tx[s])
        /\ open(s) => tx'[s][q.tx].state # "open"
    BY <1>3, <1>6, <2>2, Ending DEF q
  <2>4. ~q.own => \A t \in DOMAIN tx'[s] : tx'[s][t].state # "open"
    BY <1>4, <2>3
  <2> DEFINE o == IF panicking THEN "panic" ELSE "err"
  <2>5. o \in {"nil", "err", "panic", "exit"} /\ o # "nil" /\ outcome' = [outcome EXCEPT ![s] = o]
    BY <1>6
  <2> HIDE DEF o
  <2> QED
    BY <1>2, <1>3, <1>4, <2>1, <2>3, <2>4, <2>5
<1>7. ASSUME NEW fails \in BOOLEAN, NEW lost \in BOOLEAN, Commit(s, fails, new(lost)),
             outcome' = [outcome EXCEPT ![s] = IF session[s].at = "f" THEN "exit"
                                               ELSE IF fails THEN "err" ELSE "nil"]
      PROVE OrmInv'
  <2> DEFINE v == new(lost)
             o == IF session[s].at = "f" THEN "exit" ELSE IF fails THEN "err" ELSE "nil"
  <2>1. /\ v \in SessionType /\ v.at = "none" /\ v.tx = 0 /\ v.own = q.own /\ v.done = q.done
        /\ v.asGiven = q.asGiven /\ v.clause = v.wanted /\ v.lost = lost
    BY <1>3 DEF SessionType
  <2>2. /\ o \in {"nil", "err", "panic", "exit"} /\ outcome' = [outcome EXCEPT ![s] = o]
        /\ o \in {"err", "panic"} => fails
        /\ o = "nil" => ~fails
    BY <1>7
  <2>3. Commit(s, fails, v)
    BY <1>7
  <2> HIDE DEF v, o
  <2>4. v.tx <= Len(tx[s])
    BY <1>1, <2>1
  <2>5. /\ session' = [session EXCEPT ![s] = v]
        /\ tx' \in [Session -> Seq(TxType)] /\ stored' \in [Session -> Nat]
        /\ \A u \in Session \ {s} : tx'[u] = tx[u] /\ stored'[u] = stored[u]
        /\ Len(tx'[s]) = Len(tx[s])
        /\ open(s) => tx'[s][q.tx].state # "open"
    BY <2>1, <2>3, <2>4, Ending DEF q
  <2>6. ~q.own => \A t \in DOMAIN tx'[s] : tx'[s][t].state # "open"
    BY <1>4, <2>5
  <2>7. ~q.own /\ ~fails => stored'[s] = q.done
    <3> SUFFICES ASSUME ~q.own, ~fails PROVE stored'[s] = q.done
      OBVIOUS
    <3>1. stored' = [stored EXCEPT ![s] = @ + tx[s][1].changes]
      BY <1>4, <2>3 DEF Commit, q
    <3> QED
      BY <1>1, <1>4, <3>1 DEF SessionType
  <2>8. ~q.own /\ fails /\ ~lost => stored'[s] = 0
    BY <1>4, <2>1, <2>3 DEF Commit
  <2> QED
    BY <1>2, <2>1, <2>2, <2>5, <2>6, <2>7, <2>8
<1> QED
  BY <1>5, <1>6, <1>7 DEF ends, q
----------------------------------------------------------------------------
(* The stack of a request *)

\* The kinds of handlers, and those on a stack.
Kind == Middleware \cup {"handler", "notFound"}
Frame == [handler : Nat, at : {"start", "next", "back"}]

\* The types of the fields of a request.
RequestType ==
    [state : {"new", "serving", "done", "aborted"}, path : Paths, known : BOOLEAN,
     ctx : Ctx \cup {None}, handlers : Seq(Kind), index : Nat, stack : Seq(Frame),
     panic : Panics \cup {"none"}, sent : Nat, entered : Seq(Nat), aborted : Nat,
     raised : Panics \cup {"none"}]

LEMMA RequestNumbers ==
    ASSUME NEW q \in RequestType
    PROVE /\ q.index \in Nat /\ q.aborted \in Nat /\ q.sent \in Nat
          /\ Len(q.handlers) \in Nat /\ Len(q.entered) \in Nat /\ Len(q.stack) \in Nat
  BY DEF RequestType

\* The application's handler is the last one.
Chain(q) ==
    /\ Len(q.handlers) >= 1
    /\ \A i \in 1..Len(q.handlers) : q.handlers[i] = "handler" => i = Len(q.handlers)

\* The handlers called are the first ones, up to the index if none has aborted.
Called(q) ==
    /\ q.index <= Len(q.handlers) + 1
    /\ Len(q.entered) <= Len(q.handlers)
    /\ \A i \in 1..Len(q.entered) : q.entered[i] = i
    /\ q.aborted = 0 /\ q.index <= Len(q.handlers) => Len(q.entered) = q.index
    /\ q.aborted = 0 /\ q.index > Len(q.handlers) => Len(q.entered) = Len(q.handlers)
    /\ q.aborted # 0 => q.index = Len(q.handlers) + 1 /\ Len(q.entered) = q.aborted

\* Handlers stand on the stack in their order.
Ordered(q, frames) ==
    /\ \A k \in 1..Len(frames) : /\ frames[k].handler \in 1..Len(q.handlers)
                                 /\ frames[k].handler <= q.index
    /\ \A j, k \in 1..Len(frames) : j < k => frames[j].handler < frames[k].handler

Stacked(q) ==
    /\ Ordered(q, q.stack)
    /\ \A k \in 1..Len(q.stack) : /\ k < Len(q.stack) => q.stack[k].at = "next"
                                  /\ q.stack[k].at = "back" => q.index > Len(q.handlers)
    /\ q.stack = <<>> /\ q.panic = "none" => q.index > Len(q.handlers)

\* A Recovery that was called is on the stack, or nothing above it is, or will be.
Guards(q, frames, i) ==
    \/ \E k \in 1..Len(frames) : frames[k].handler = i
    \/ /\ \A k \in 1..Len(frames) : frames[k].handler < i
       /\ q.index > Len(q.handlers) \/ q.panic # "none"

Guarded(q, frames) ==
    \A i \in 1..Len(q.entered) : q.handlers[i] = "recovery" => Guards(q, frames, i)

\* All that were called are there to catch the panic.
Caught(q) ==
    \A i \in 1..Len(q.entered) : q.handlers[i] = "recovery" =>
        \E k \in 1..Len(q.stack) : q.stack[k].handler = i /\ q.stack[k].at = "next"

Panicking(q, log) ==
    /\ q.panic # "none" => /\ q.raised # "none"
                           /\ q.raised \in {"error", "psyError"} => q.panic = q.raised
                           /\ log /\ q.raised \in {"error", "psyError"} => Caught(q)
    /\ q.raised = "error" => q.sent # 0 \/ q.panic # "none"

Serving(q, log) ==
    /\ Chain(q) /\ Called(q) /\ Len(q.entered) # 0
    /\ Stacked(q) /\ Guarded(q, q.stack) /\ Panicking(q, log)

\* The end of the request.
Served(q, log) ==
    /\ Called(q) /\ Panicking(q, log)
    /\ q.state = "done" => q.panic = "none" /\ q.index > Len(q.handlers)
    /\ q.state = "aborted" =>
         /\ q.raised # "none"
         /\ log /\ q.raised \in {"error", "psyError"} =>
              \A i \in 1..Len(q.entered) : q.handlers[i] # "recovery"

RequestInv(q, log) ==
    /\ q.state = "new" => Called(q) /\ q.aborted = 0 /\ q.entered = <<>> /\ q.raised = "none"
    /\ q.state = "serving" => Serving(q, log)
    /\ q.state \in {"done", "aborted"} => Served(q, log)

LEMMA FrontFacts ==
    ASSUME NEW S, NEW s \in Seq(S), s # <<>>
    PROVE /\ Len(s) \in Nat \ {0} /\ Last(s) \in S /\ Last(s) = s[Len(s)]
          /\ Front(s) \in Seq(S) /\ Len(Front(s)) = Len(s) - 1
          /\ \A k \in 1..(Len(s) - 1) : Front(s)[k] = s[k]
<1>1. Len(s) \in Nat \ {0} /\ \A k \in 1..Len(s) : s[k] \in S
  OBVIOUS
<1> DEFINE n == Len(s) - 1
<1>2. n \in Nat /\ n + 1 = Len(s)
  BY <1>1
<1> HIDE DEF n
<1>3. /\ SubSeq(s, 1, n) \in Seq(S) /\ Len(SubSeq(s, 1, n)) = n
      /\ \A k \in 1..n : SubSeq(s, 1, n)[k] = s[k]
  <2>1. \A k \in 1..n : s[k] \in S
    BY <1>1, <1>2
  <2>2. /\ SubSeq(s, 1, n) \in Seq(S)
        /\ Len(SubSeq(s, 1, n)) = IF 1 <= n THEN n - 1 + 1 ELSE 0
        /\ \A k \in 1..(n - 1 + 1) : SubSeq(s, 1, n)[k] = s[1 + k - 1]
    BY <1>2, <2>1, SubSeqProperties
  <2>3. n - 1 + 1 = n /\ (IF 1 <= n THEN n - 1 + 1 ELSE 0) = n
    BY <1>2
  <2>4. \A k \in 1..n : 1 + k - 1 = k
    BY <1>2
  <2> QED
    BY <2>2, <2>3, <2>4
<1>4. Front(s) = SubSeq(s, 1, n)
  BY DEF Front, n
<1> QED
  BY <1>1, <1>2, <1>3, <1>4 DEF Last, n

\* The frames with another place of the last one.
moved(s, a) == Append(Front(s), [Last(s) EXCEPT !.at = a])

LEMMA LastMoves ==
    ASSUME NEW s \in Seq(Frame), s # <<>>, NEW a \in {"start", "next", "back"},
           NEW t, t = moved(s, a)
    PROVE /\ t \in Seq(Frame) /\ Len(t) = Len(s) /\ t # <<>>
          /\ \A k \in 1..Len(s) : t[k].handler = s[k].handler
          /\ \A k \in 1..Len(s) : k < Len(s) => t[k].at = s[k].at
          /\ t[Len(s)].at = a
<1> DEFINE g == [Last(s) EXCEPT !.at = a]
<1>1. g \in Frame /\ g.handler = s[Len(s)].handler /\ g.at = a
  <2>1. Last(s) \in Frame /\ Last(s) = s[Len(s)]
    BY FrontFacts
  <2> QED
    BY <2>1 DEF Frame
<1>2. t = Append(Front(s), g)
  BY DEF moved
<1> HIDE DEF g
<1>3. t \in Seq(Frame) /\ Len(t) = Len(s) /\ t[Len(s)] = g
  BY <1>1, <1>2, FrontFacts
<1>4. ASSUME NEW k \in 1..Len(s), k < Len(s) PROVE t[k] = s[k]
  <2>1. k \in 1..(Len(s) - 1) /\ k \in 1..Len(Front(s)) /\ Front(s) \in Seq(Frame)
    BY <1>4, FrontFacts
  <2>2. t[k] = Front(s)[k]
    BY <1>1, <1>2, <2>1
  <2> QED
    BY <2>1, <2>2, FrontFacts
<1> QED
  BY <1>1, <1>3, <1>4, FrontFacts

\* The fields that no step of a chain changes.
Same(p, q) ==
    /\ p.state = q.state /\ p.path = q.path /\ p.known = q.known /\ p.ctx = q.ctx
    /\ p.handlers = q.handlers /\ p.raised = q.raised

\* What proceed needs: it calls the next handler above frames, or goes back to them.
LEMMA Proceed ==
    ASSUME NEW q \in RequestType, NEW frames \in Seq(Frame),
           Chain(q), Called(q), q.panic = "none", q.raised = "error" => q.sent # 0,
           Ordered(q, frames), \A k \in 1..Len(frames) : frames[k].at = "next",
           Guarded(q, frames), Len(q.entered) # 0 \/ q.index = 0,
           NEW p, p = proceed(q, frames)
    PROVE /\ p \in RequestType /\ Same(p, q) /\ p.panic = "none" /\ Serving(p, hasLogger)
          /\ \/ p.entered = q.entered
             \/ /\ p.entered = Append(q.entered, p.index) /\ Len(p.entered) = p.index
                /\ p.stack # <<>> /\ Last(p.stack) = [handler |-> p.index, at |-> "start"]
<1> DEFINE n == Len(q.handlers)
           i == IF q.index > n THEN q.index ELSE q.index + 1
           new == [handler |-> i, at |-> "start"]
<1>1. /\ n \in Nat /\ i \in Nat /\ q.index \in Nat /\ q.aborted \in Nat
      /\ q.entered \in Seq(Nat) /\ q.handlers \in Seq(Kind)
  BY DEF RequestType
<1>2. CASE i <= n
  <2>1. q.index < n /\ i = q.index + 1 /\ Len(q.entered) = q.index /\ q.aborted = 0
    BY <1>1, <1>2 DEF Called
  <2>2. p = [q EXCEPT !.index = i, !.stack = Append(frames, new), !.entered = Append(@, i)]
    BY <1>2 DEF proceed, goesOn
  <2> HIDE DEF i
  <2>3. new \in Frame
    BY <1>1 DEF Frame
  <2> HIDE DEF new
  <2> DEFINE stack == Append(frames, new)
             entered == Append(q.entered, i)
  <2>4. /\ stack \in Seq(Frame) /\ Len(stack) = Len(frames) + 1 /\ stack # <<>>
        /\ \A k \in 1..Len(frames) : stack[k] = frames[k]
        /\ stack[Len(frames) + 1] = new
    <3>1. Len(frames) \in Nat /\ stack \in Seq(Frame) /\ Len(stack) = Len(frames) + 1
      BY <2>3
    <3>2. stack # <<>>
      BY <3>1
    <3>3. \A k \in 1..Len(frames) : stack[k] = frames[k]
      BY <2>3, <3>1
    <3>4. stack[Len(frames) + 1] = new
      BY <2>3, <3>1
    <3> QED
      BY <3>1, <3>2, <3>3, <3>4
  <2>5. /\ entered \in Seq(Nat) /\ Len(entered) = i
        /\ \A k \in 1..Len(entered) : entered[k] = k
    BY <1>1, <2>1 DEF Called
  <2>6. p = [q EXCEPT !.index = i, !.stack = stack, !.entered = entered]
    BY <2>2
  <2> HIDE DEF stack, entered
  <2>7. /\ p \in RequestType /\ Same(p, q) /\ p.panic = "none" /\ p.index = i
        /\ p.stack = stack /\ p.entered = entered /\ p.aborted = 0 /\ p.sent = q.sent
    BY <1>1, <2>1, <2>4, <2>5, <2>6, ZenonT(30) DEF RequestType, Same
  <2>8. Chain(p) /\ Called(p) /\ Len(p.entered) # 0
    BY <1>1, <1>2, <2>1, <2>5, <2>7 DEF Chain, Called, Same
  <2>9. new.handler = i /\ new.at = "start"
    BY DEF new
  <2>10. Stacked(p)
    <3>1. ASSUME NEW k \in 1..Len(stack)
          PROVE /\ stack[k].handler \in 1..n /\ stack[k].handler <= i
                /\ k < Len(stack) => stack[k].at = "next" /\ stack[k].handler < i
                /\ stack[k].at # "back"
      <4>1. CASE k = Len(frames) + 1
        BY <1>1, <1>2, <2>1, <2>4, <2>9, <4>1
      <4>2. CASE k \in 1..Len(frames)
        <5>1. stack[k] = frames[k] /\ frames[k].at = "next"
          BY <2>4, <4>2
        <5>2. frames[k].handler \in 1..n /\ frames[k].handler <= q.index
          BY <4>2 DEF Ordered
        <5>3. q.index < i
          BY <1>1, <2>1
        <5> QED
          BY <1>1, <5>1, <5>2, <5>3
      <4> QED
        BY <2>4, <4>1, <4>2
    <3>2. ASSUME NEW j \in 1..Len(stack), NEW k \in 1..Len(stack), j < k
          PROVE stack[j].handler < stack[k].handler
      <4>1. CASE k = Len(frames) + 1
        BY <2>4, <2>9, <3>1, <3>2, <4>1
      <4>2. CASE k \in 1..Len(frames)
        <5>1. j \in 1..Len(frames)
          BY <3>2, <4>2
        <5> QED
          BY <2>4, <3>2, <4>2, <5>1 DEF Ordered
      <4> QED
        BY <2>4, <4>1, <4>2
    <3> QED
      BY <2>4, <2>7, <3>1, <3>2 DEF Stacked, Ordered, Same
  <2>11. Guarded(p, p.stack)
    <3> SUFFICES ASSUME NEW j \in 1..Len(entered), q.handlers[j] = "recovery"
                 PROVE \E k \in 1..Len(stack) : stack[k].handler = j
      BY <2>7 DEF Guarded, Guards, Same
    <3>1. CASE j = i
      BY <2>4, <2>9, <3>1
    <3>2. CASE j # i
      <4>1. j \in 1..Len(q.entered) /\ ~(q.index > Len(q.handlers))
        BY <1>1, <2>1, <2>5, <3>2, SMTT(30)
      <4>2. PICK k \in 1..Len(frames) : frames[k].handler = j
        BY <4>1 DEF Guarded, Guards
      <4> QED
        BY <2>4, <4>2
    <3> QED
      BY <3>1, <3>2
  <2>12. Panicking(p, hasLogger)
    BY <2>7 DEF Panicking, Same
  <2>13. Last(p.stack) = [handler |-> p.index, at |-> "start"]
    BY <2>4, <2>7 DEF Last, new
  <2> QED
    BY <2>4, <2>5, <2>7, <2>8, <2>10, <2>11, <2>12, <2>13 DEF Serving, entered
<1>3. CASE ~(i <= n)
  <2> DEFINE back == IF frames = <<>> THEN <<>>
                     ELSE Append(Front(frames), [Last(frames) EXCEPT !.at = "back"])
  <2>1. i = n + 1 /\ Len(q.entered) # 0
    BY <1>1, <1>3 DEF Called, Chain
  <2>2. p = [q EXCEPT !.index = i, !.stack = back]
    BY <1>3 DEF proceed, goesOn
  <2> HIDE DEF i
  <2>3. /\ back \in Seq(Frame) /\ Len(back) = Len(frames)
        /\ \A k \in 1..Len(frames) : back[k].handler = frames[k].handler
        /\ \A k \in 1..Len(frames) : k < Len(frames) => back[k].at = "next"
    <3>1. CASE frames = <<>>
      BY <3>1
    <3>2. CASE frames # <<>>
      <4>1. back = moved(frames, "back")
        BY <3>2 DEF moved
      <4> HIDE DEF back
      <4>2. "back" \in {"start", "next", "back"}
        OBVIOUS
      <4>3. /\ back \in Seq(Frame) /\ Len(back) = Len(frames)
            /\ \A k \in 1..Len(frames) : back[k].handler = frames[k].handler
            /\ \A k \in 1..Len(frames) : k < Len(frames) => back[k].at = frames[k].at
        BY <3>2, <4>1, <4>2, LastMoves
      <4> QED
        BY <4>3
    <3> QED
      BY <3>1, <3>2
  <2> HIDE DEF back
  <2>4. /\ p \in RequestType /\ Same(p, q) /\ p.panic = "none" /\ p.index = i /\ p.stack = back
        /\ p.entered = q.entered /\ p.aborted = q.aborted /\ p.sent = q.sent
    BY <1>1, <2>2, <2>3 DEF RequestType, Same
  <2>5. Chain(p) /\ Called(p) /\ Len(p.entered) # 0
    BY <1>1, <1>3, <2>1, <2>4 DEF Chain, Called, Same, i
  <2>6. q.index <= i
    BY <1>1 DEF i
  <2>7. Stacked(p)
    <3>1. ASSUME NEW k \in 1..Len(back)
          PROVE /\ back[k].handler \in 1..n /\ back[k].handler <= i
                /\ k < Len(back) => back[k].at = "next"
      <4>1. k \in 1..Len(frames) /\ back[k].handler = frames[k].handler
        BY <2>3
      <4>2. frames[k].handler \in 1..n /\ frames[k].handler <= q.index
        BY <4>1 DEF Ordered
      <4> QED
        BY <1>1, <2>1, <2>3, <2>6, <4>1, <4>2
    <3>2. ASSUME NEW j \in 1..Len(back), NEW k \in 1..Len(back), j < k
          PROVE back[j].handler < back[k].handler
      BY <2>3, <3>2 DEF Ordered
    <3>3. i > n
      BY <1>1, <2>1
    <3> QED
      BY <2>4, <3>1, <3>2, <3>3 DEF Stacked, Ordered, Same
  <2>8. Guarded(p, p.stack)
    <3> SUFFICES ASSUME NEW j \in 1..Len(q.entered), q.handlers[j] = "recovery"
                 PROVE Guards(p, back, j)
      BY <2>4 DEF Guarded, Same
    <3>1. Guards(q, frames, j)
      BY DEF Guarded
    <3>2. p.index > Len(p.handlers)
      BY <1>1, <2>1, <2>4 DEF Same
    <3> QED
      BY <2>3, <3>1, <3>2 DEF Guards
  <2>9. Panicking(p, hasLogger)
    BY <2>4 DEF Panicking, Same
  <2> QED
    BY <2>4, <2>5, <2>7, <2>8, <2>9 DEF Serving
<1> QED
  BY <1>2, <1>3

\* What a handler does that returns.
LEMMA Returns ==
    ASSUME NEW q \in RequestType, Serving(q, hasLogger), q.panic = "none", q.stack # <<>>,
           q.handlers[Last(q.stack).handler] = "recovery" => q.index > Len(q.handlers),
           NEW p, p = returns(q)
    PROVE /\ p \in RequestType /\ Same(p, q) /\ p.panic = "none" /\ Serving(p, hasLogger)
          /\ \/ p.entered = q.entered
             \/ /\ p.entered = Append(q.entered, p.index) /\ Len(p.entered) = p.index
                /\ p.stack # <<>> /\ Last(p.stack) = [handler |-> p.index, at |-> "start"]
<1> DEFINE frames == Front(q.stack)
           n == Len(q.stack)
<1>1. /\ q.stack \in Seq(Frame) /\ n \in Nat \ {0} /\ Last(q.stack) = q.stack[n]
      /\ frames \in Seq(Frame) /\ Len(frames) = n - 1
      /\ \A k \in 1..(n - 1) : frames[k] = q.stack[k]
  <2>1. q.stack \in Seq(Frame)
    BY DEF RequestType
  <2> QED
    BY <2>1, FrontFacts
<1> HIDE DEF frames, n
<1>2. Ordered(q, q.stack) /\ Guarded(q, q.stack)
  BY DEF Serving, Stacked
<1>8. /\ \A k \in 1..n : /\ q.stack[k].handler \in 1..Len(q.handlers)
                         /\ q.stack[k].handler <= q.index
      /\ \A j, k \in 1..n : j < k => q.stack[j].handler < q.stack[k].handler
  BY <1>2 DEF Ordered, n
<1>9. \A k \in 1..(n - 1) : k \in 1..n /\ k < n
  BY <1>1
<1>3. Ordered(q, frames)
  <2>1. \A k \in 1..(n - 1) : /\ frames[k].handler \in 1..Len(q.handlers)
                              /\ frames[k].handler <= q.index
    BY <1>8, <1>1, <1>9
  <2>2. \A j, k \in 1..(n - 1) : j < k => frames[j].handler < frames[k].handler
    BY <1>8, <1>1, <1>9
  <2> QED
    BY <1>1, <2>1, <2>2 DEF Ordered
<1>4. \A k \in 1..Len(frames) : frames[k].at = "next"
  BY <1>1 DEF Serving, Stacked, n
<1>5. Guarded(q, frames)
  <2> SUFFICES ASSUME NEW i \in 1..Len(q.entered), q.handlers[i] = "recovery"
               PROVE Guards(q, frames, i)
    BY DEF Guarded
  <2>1. Guards(q, q.stack, i)
    BY <1>2 DEF Guarded
  <2>2. CASE \E k \in 1..(n - 1) : q.stack[k].handler = i
    BY <1>1, <2>2 DEF Guards
  <2>3. CASE q.stack[n].handler = i
    <3>1. q.index > Len(q.handlers)
      BY <1>1, <2>3
    <3>2. \A k \in 1..(n - 1) : q.stack[k].handler < i
      <4>1. n \in 1..n
        BY <1>1
      <4> QED
        BY <1>8, <1>9, <2>3, <4>1
    <3> QED
      BY <1>1, <3>1, <3>2 DEF Guards
  <2>4. CASE (\A k \in 1..n : q.stack[k].handler < i) /\ q.index > Len(q.handlers)
    BY <1>1, <2>4 DEF Guards
  <2>5. \/ \E k \in 1..n : q.stack[k].handler = i
        \/ (\A k \in 1..n : q.stack[k].handler < i) /\ q.index > Len(q.handlers)
    BY <2>1 DEF Guards, n
  <2>6. \A k \in 1..n : k \in 1..(n - 1) \/ k = n
    BY <1>1
  <2> QED
    BY <2>2, <2>3, <2>4, <2>5, <2>6
<1>6. /\ Chain(q) /\ Called(q) /\ Len(q.entered) # 0
      /\ q.raised = "error" => q.sent # 0
  BY DEF Serving, Panicking
<1>7. p = proceed(q, frames)
  BY DEF returns, frames
<1> QED
  BY <1>1, <1>3, <1>4, <1>5, <1>6, <1>7, Proceed

\* What a handler does that calls Next.
LEMMA CallsNext ==
    ASSUME NEW q \in RequestType, Serving(q, hasLogger), q.panic = "none", q.stack # <<>>,
           NEW p, p = callNext(q)
    PROVE /\ p \in RequestType /\ Same(p, q) /\ p.panic = "none" /\ Serving(p, hasLogger)
          /\ \/ p.entered = q.entered
             \/ /\ p.entered = Append(q.entered, p.index) /\ Len(p.entered) = p.index
                /\ p.stack # <<>> /\ Last(p.stack) = [handler |-> p.index, at |-> "start"]
<1> DEFINE frames == moved(q.stack, "next")
           n == Len(q.stack)
<1>1. q.stack \in Seq(Frame) /\ "next" \in {"start", "next", "back"} /\ n \in Nat \ {0}
  BY DEF RequestType
<1>2. /\ frames \in Seq(Frame) /\ Len(frames) = n /\ frames # <<>>
      /\ \A k \in 1..n : frames[k].handler = q.stack[k].handler
      /\ \A k \in 1..n : k < n => frames[k].at = q.stack[k].at
      /\ frames[n].at = "next"
  BY <1>1, LastMoves
<1>3. p = proceed(q, frames)
  BY DEF callNext, top, moved
<1> HIDE DEF frames, n
<1>4. Ordered(q, frames)
  BY <1>2 DEF Serving, Stacked, Ordered, n
<1>5. \A k \in 1..Len(frames) : frames[k].at = "next"
  <2>1. \A k \in 1..n : k < n => q.stack[k].at = "next"
    BY DEF Serving, Stacked, n
  <2>2. \A k \in 1..n : k < n \/ k = n
    BY <1>1
  <2> QED
    BY <1>2, <2>1, <2>2
<1>6. Guarded(q, frames)
  BY <1>2 DEF Serving, Guarded, Guards, n
<1>7. /\ Chain(q) /\ Called(q) /\ Len(q.entered) # 0
      /\ q.raised = "error" => q.sent # 0
  BY DEF Serving, Panicking
<1> QED
  BY <1>2, <1>3, <1>4, <1>5, <1>6, <1>7, Proceed

\* Writing a status changes nothing else.
LEMMA Writes ==
    ASSUME NEW q \in RequestType, Serving(q, hasLogger), NEW code \in Nat \ {0},
           NEW p, p = write(q, code)
    PROVE /\ p \in RequestType /\ Same(p, q) /\ p.panic = q.panic /\ Serving(p, hasLogger)
          /\ p.entered = q.entered /\ p.stack = q.stack /\ p.sent # 0 /\ p.index = q.index
<1> DEFINE sent == IF q.sent = 0 THEN code ELSE q.sent
<1>1. sent \in Nat \ {0}
  BY DEF RequestType
<1>2. p = [q EXCEPT !.sent = sent]
  BY DEF write
<1> HIDE DEF sent
<1>3. /\ p \in RequestType /\ Same(p, q) /\ p.panic = q.panic /\ p.sent = sent
      /\ p.entered = q.entered /\ p.stack = q.stack /\ p.index = q.index
      /\ p.aborted = q.aborted
  BY <1>1, <1>2 DEF RequestType, Same
<1>4. Chain(p) /\ Called(p) /\ Stacked(p) /\ Guarded(p, p.stack)
  BY <1>3 DEF Serving, Chain, Called, Stacked, Ordered, Guarded, Guards, Same
<1>5. Panicking(p, hasLogger)
  BY <1>1, <1>3 DEF Serving, Panicking, Caught, Same
<1> QED
  BY <1>1, <1>3, <1>4, <1>5 DEF Serving

\* After an Abort the chain has come to its end.
LEMMA Aborts ==
    ASSUME NEW q \in RequestType, Serving(q, hasLogger), NEW p, p = abort(q)
    PROVE /\ p \in RequestType /\ Same(p, q) /\ p.panic = q.panic /\ Serving(p, hasLogger)
          /\ p.entered = q.entered /\ p.stack = q.stack /\ p.sent = q.sent
          /\ p.index > Len(p.handlers)
<1> DEFINE aborted == IF q.aborted = 0 THEN Len(q.entered) ELSE q.aborted
           n == Len(q.handlers)
<1>1. /\ aborted \in Nat /\ n \in Nat /\ n + 1 \in Nat /\ q.index \in Nat
      /\ Len(q.entered) \in Nat \ {0}
  BY DEF RequestType, Serving
<1>2. p = [q EXCEPT !.aborted = aborted, !.index = n + 1]
  BY DEF abort, abortNothing
<1>3. Called(q) /\ Chain(q) /\ Stacked(q) /\ Guarded(q, q.stack) /\ Panicking(q, hasLogger)
  BY DEF Serving
<1>4. aborted # 0 /\ aborted = Len(q.entered)
  BY <1>1, <1>3 DEF Called
<1> HIDE DEF aborted, n
<1>5. /\ p \in RequestType /\ Same(p, q) /\ p.panic = q.panic /\ p.sent = q.sent
      /\ p.entered = q.entered /\ p.stack = q.stack /\ p.index = n + 1
      /\ p.aborted = aborted
  BY <1>1, <1>2 DEF RequestType, Same
<1>6. Chain(p) /\ Called(p)
  BY <1>1, <1>3, <1>4, <1>5 DEF Chain, Called, Same, n
<1>7. Stacked(p)
  BY <1>1, <1>3, <1>5 DEF Called, Stacked, Ordered, Same, n
<1>8. Guarded(p, p.stack)
  BY <1>1, <1>3, <1>5 DEF Guarded, Guards, Same, n
<1>9. Panicking(p, hasLogger)
  BY <1>3, <1>5 DEF Panicking, Caught, Same
<1> QED
  BY <1>1, <1>5, <1>6, <1>7, <1>8, <1>9 DEF Serving, Same, n
----------------------------------------------------------------------------
(* Panics *)

\* Where the application's handler runs, every Recovery called is below it.
LEMMA Raises ==
    ASSUME NEW q \in RequestType, Serving(q, hasLogger), q.stack # <<>>,
           q.handlers[Last(q.stack).handler] = "handler", NEW e \in Panics,
           NEW p, p = [q EXCEPT !.panic = e, !.raised = e]
    PROVE p \in RequestType /\ p.state = q.state /\ p.ctx = q.ctx /\ Serving(p, hasLogger)
          /\ p.handlers = q.handlers /\ p.entered = q.entered /\ p.stack = q.stack
          /\ p.panic = e /\ p.known = q.known
<1> DEFINE n == Len(q.stack)
           last == Len(q.handlers)
<1>1. e # "none"
  BY DEF Panics
<1>2. /\ p \in RequestType /\ p.panic = e /\ p.raised = e
      /\ p.stack = q.stack /\ p.entered = q.entered /\ p.index = q.index
      /\ p.aborted = q.aborted /\ p.sent = q.sent /\ p.handlers = q.handlers
      /\ p.state = q.state /\ p.ctx = q.ctx /\ p.known = q.known
  BY DEF RequestType
<1>3. q.stack \in Seq(Frame) /\ n \in Nat \ {0} /\ Last(q.stack) = q.stack[n]
  <2>1. q.stack \in Seq(Frame)
    BY DEF RequestType
  <2> QED
    BY <2>1, FrontFacts
<1>4. Chain(q) /\ Called(q) /\ Stacked(q) /\ Guarded(q, q.stack)
  BY DEF Serving
<1>5. /\ q.stack[n].handler \in 1..last /\ q.handlers[q.stack[n].handler] = "handler"
      /\ \A k \in 1..n : k < n => q.stack[k].at = "next"
      /\ n \in 1..n
  BY <1>3, <1>4 DEF Stacked, Ordered
<1>6. q.stack[n].handler = last
  BY <1>4, <1>5 DEF Chain
<1>7. Caught(q)
  <2> SUFFICES ASSUME NEW i \in 1..Len(q.entered), q.handlers[i] = "recovery"
               PROVE \E k \in 1..n : q.stack[k].handler = i /\ q.stack[k].at = "next"
    BY DEF Caught
  <2>1. i <= last /\ i # last
    <3>1. Len(q.entered) \in Nat /\ last \in Nat /\ Len(q.entered) <= last
      BY <1>4 DEF Called, RequestType
    <3> QED
      BY <1>5, <1>6, <3>1
  <2>2. ~(\A k \in 1..n : q.stack[k].handler < i)
    BY <1>3, <1>5, <1>6, <2>1
  <2>3. PICK k \in 1..n : q.stack[k].handler = i
    BY <1>4, <2>2 DEF Guarded, Guards
  <2>4. k < n
    BY <1>3, <1>6, <2>1, <2>3
  <2> QED
    BY <1>5, <2>3, <2>4
<1>8. Panicking(p, hasLogger)
  BY <1>1, <1>2, <1>7 DEF Panicking, Caught
<1>9. Chain(p) /\ Called(p) /\ Stacked(p) /\ Guarded(p, p.stack)
  BY <1>1, <1>2, <1>4 DEF Chain, Called, Stacked, Ordered, Guarded, Guards
<1> QED
  BY <1>2, <1>8, <1>9 DEF Serving

\* A handler that does not recover is popped, or a Recovery that panics itself.
LEMMA Pops ==
    ASSUME NEW q \in RequestType, Serving(q, hasLogger), q.stack # <<>>, q.panic # "none",
           NEW e \in Panics,
           q.raised \in {"error", "psyError"} => e = q.panic,
           hasLogger /\ q.raised \in {"error", "psyError"} => ~recovering(q),
           NEW p, p = [q EXCEPT !.stack = Front(@), !.panic = e]
    PROVE /\ p \in RequestType /\ Same(p, q) /\ Serving(p, hasLogger) /\ p.panic # "none"
          /\ p.entered = q.entered
<1> DEFINE frames == Front(q.stack)
           n == Len(q.stack)
<1>1. /\ q.stack \in Seq(Frame) /\ n \in Nat \ {0} /\ Last(q.stack) = q.stack[n]
      /\ frames \in Seq(Frame) /\ Len(frames) = n - 1
      /\ \A k \in 1..(n - 1) : frames[k] = q.stack[k]
  <2>1. q.stack \in Seq(Frame)
    BY DEF RequestType
  <2> QED
    BY <2>1, FrontFacts
<1>2. e # "none"
  BY DEF Panics
<1>3. p = [q EXCEPT !.stack = frames, !.panic = e]
  OBVIOUS
<1> HIDE DEF frames
<1>4. /\ p \in RequestType /\ Same(p, q) /\ p.panic = e /\ p.stack = frames
      /\ p.entered = q.entered /\ p.index = q.index /\ p.aborted = q.aborted
      /\ p.sent = q.sent /\ p.handlers = q.handlers /\ p.raised = q.raised
  BY <1>1, <1>3, ZenonT(30) DEF RequestType, Same
<1>5. Chain(q) /\ Called(q) /\ Stacked(q) /\ Guarded(q, q.stack) /\ Panicking(q, hasLogger)
  BY DEF Serving
<1>6. \A k \in 1..(n - 1) : k \in 1..n /\ k < n
  BY <1>1
<1>7. \A k \in 1..n : k \in 1..(n - 1) \/ k = n
  BY <1>1
<1>8. /\ \A k \in 1..n : /\ q.stack[k].handler \in 1..Len(q.handlers)
                         /\ q.stack[k].handler <= q.index
      /\ \A j, k \in 1..n : j < k => q.stack[j].handler < q.stack[k].handler
      /\ \A k \in 1..n : k < n => q.stack[k].at = "next"
  BY <1>5 DEF Stacked, Ordered
<1> HIDE DEF n
<1>9. Stacked(p)
  <2>1. \A k \in 1..(n - 1) : /\ frames[k].handler \in 1..Len(q.handlers)
                              /\ frames[k].handler <= q.index
                              /\ frames[k].at = "next"
    BY <1>1, <1>6, <1>8
  <2>2. \A j, k \in 1..(n - 1) : j < k => frames[j].handler < frames[k].handler
    BY <1>1, <1>6, <1>8
  <2> QED
    BY <1>1, <1>2, <1>4, <2>1, <2>2 DEF Stacked, Ordered
<1>10. Guarded(p, p.stack)
  <2> SUFFICES ASSUME NEW i \in 1..Len(q.entered), q.handlers[i] = "recovery"
               PROVE \/ \E k \in 1..(n - 1) : frames[k].handler = i
                     \/ \A k \in 1..(n - 1) : frames[k].handler < i
    BY <1>1, <1>2, <1>4 DEF Guarded, Guards
  <2>1. \/ \E k \in 1..n : q.stack[k].handler = i
        \/ \A k \in 1..n : q.stack[k].handler < i
    BY <1>5 DEF Guarded, Guards, n
  <2>2. CASE q.stack[n].handler = i
    <3>1. n \in 1..n
      BY <1>1
    <3>2. \A k \in 1..(n - 1) : q.stack[k].handler < i
      BY <1>6, <1>8, <2>2, <3>1
    <3> QED
      BY <1>1, <3>2
  <2> QED
    BY <1>1, <1>6, <1>7, <2>1, <2>2
<1>11. Panicking(p, hasLogger)
  <2> SUFFICES ASSUME hasLogger, q.raised \in {"error", "psyError"},
                      NEW i \in 1..Len(q.entered), q.handlers[i] = "recovery"
               PROVE \E k \in 1..(n - 1) : frames[k].handler = i /\ frames[k].at = "next"
    BY <1>1, <1>2, <1>4, <1>5 DEF Panicking, Caught
  <2>1. PICK k \in 1..n : q.stack[k].handler = i /\ q.stack[k].at = "next"
    BY <1>5 DEF Panicking, Caught, n
  <2>2. k # n
    BY <1>1, <2>1 DEF recovering, top
  <2> QED
    BY <1>1, <1>7, <2>1, <2>2
<1> QED
  BY <1>2, <1>4, <1>5, <1>9, <1>10, <1>11 DEF Serving, Chain, Called

\* A Recovery catches the panic: it aborts the chain and returns.
LEMMA Recovers ==
    ASSUME NEW q \in RequestType, Serving(q, hasLogger), q.stack # <<>>,
           NEW code \in Nat, q.raised = "error" => code # 0,
           NEW v, v = [abort(q) EXCEPT !.panic = "none", !.sent = code],
           NEW p, p = returns(v)
    PROVE p \in RequestType /\ Same(p, q) /\ Serving(p, hasLogger) /\ p.entered = q.entered
<1> DEFINE w == abort(q)
<1>1. /\ w \in RequestType /\ Same(w, q) /\ w.panic = q.panic /\ Serving(w, hasLogger)
      /\ w.entered = q.entered /\ w.stack = q.stack /\ w.sent = q.sent
      /\ w.index > Len(w.handlers)
  BY Aborts
<1>2. v = [w EXCEPT !.panic = "none", !.sent = code]
  OBVIOUS
<1> HIDE DEF w
<1>3. /\ v \in RequestType /\ Same(v, w) /\ v.panic = "none" /\ v.sent = code
      /\ v.entered = w.entered /\ v.stack = w.stack /\ v.index = w.index
      /\ v.aborted = w.aborted
  BY <1>1, <1>2, ZenonT(30) DEF RequestType, Same
<1>4. Chain(v) /\ Called(v) /\ Stacked(v)
  <2>1. Chain(w) /\ Called(w) /\ Stacked(w)
    BY <1>1 DEF Serving
  <2>2. Chain(v) /\ Called(v)
    BY <1>3, <2>1 DEF Chain, Called, Same
  <2>3. Stacked(v)
    BY <1>1, <1>3, <2>1 DEF Stacked, Ordered, Same
  <2> QED
    BY <2>2, <2>3
<1>5. Guarded(v, v.stack)
  BY <1>1, <1>3 DEF Serving, Guarded, Guards, Same
<1>6. Panicking(v, hasLogger)
  BY <1>1, <1>3 DEF Panicking, Same
<1>7. Serving(v, hasLogger)
  BY <1>1, <1>3, <1>4, <1>5, <1>6 DEF Serving
<1>8. v.index > Len(v.handlers) /\ v.stack # <<>> /\ v \in RequestType /\ v.panic = "none"
  BY <1>1, <1>3 DEF Same
<1>9. /\ p \in RequestType /\ Same(p, v) /\ Serving(p, hasLogger)
      /\ \/ p.entered = v.entered
         \/ p.entered = Append(v.entered, p.index) /\ Len(p.entered) = p.index
  BY <1>7, <1>8, Returns
<1>10. p.index > Len(p.handlers)
  <2>1. v.index \in Nat /\ Len(v.handlers) \in Nat
    BY <1>8, RequestNumbers
  <2>2. p.index = v.index
    BY <1>8, <2>1 DEF returns, proceed, goesOn, RequestType
  <2> QED
    BY <1>8, <1>9, <2>2 DEF Same
<1>11. p.entered = v.entered
  <2>1. Len(p.entered) <= Len(p.handlers)
    BY <1>9 DEF Serving, Called
  <2>2. p.index \in Nat /\ Len(p.handlers) \in Nat
    BY <1>9 DEF RequestType
  <2> QED
    BY <1>9, <1>10, <2>1, <2>2
<1> QED
  BY <1>1, <1>3, <1>9, <1>11 DEF Same
----------------------------------------------------------------------------
(* The steps of a request *)

\* A BasicAuth that has let a known user pass has left the user in the context.
Keyed(q, r, c) ==
    q.known => \A i \in 1..Len(q.entered) : q.handlers[i] = "basicAuth" =>
        \/ c[q.ctx] = r
        \/ /\ q.panic = "none" /\ q.stack # <<>>
           /\ Last(q.stack) = [handler |-> i, at |-> "start"]

Settled(q, r, c) ==
    q.known => \A i \in 1..Len(q.entered) : q.handlers[i] = "basicAuth" => c[q.ctx] = r

\* The user in a context was known, in a request that got this context.
Held(q, x) == q.known /\ q.ctx = x /\ q.state # "new"

UsersHeld(requests, c) == \A x \in Ctx : c[x] # None => Held(requests[c[x]], x)

\* The inductive invariant of the web engine.
WebInv ==
    /\ req \in [Request -> RequestType] /\ contexts \in [Ctx -> Request \cup {None}]
    /\ config \in Config /\ groups = config.groups
    /\ \A r \in Request : /\ RequestInv(req[r], hasLogger)
                          /\ req[r].state = "serving" => /\ req[r].ctx \in Ctx
                                                         /\ Keyed(req[r], r, contexts)
    /\ \A r, o \in Request : r # o /\ req[r].state = "serving" /\ req[o].state = "serving" =>
                                req[r].ctx # req[o].ctx
    /\ UsersHeld(req, contexts)

\* A step within a chain: no handler is called, or the next one.
Moves(p, q) ==
    /\ p \in RequestType /\ RequestInv(p, hasLogger) /\ p.state # "new"
    /\ p.known = q.known /\ p.ctx = q.ctx /\ p.handlers = q.handlers
    /\ \/ p.entered = q.entered
       \/ /\ p.entered = Append(q.entered, p.index) /\ Len(p.entered) = p.index
          /\ p.panic = "none"
          /\ p.stack # <<>> /\ Last(p.stack) = [handler |-> p.index, at |-> "start"]

LEMMA SettledMoves ==
    ASSUME NEW q \in RequestType, NEW p, Moves(p, q), NEW r, NEW c, Settled(q, r, c)
    PROVE Keyed(p, r, c)
<1> SUFFICES ASSUME p.known, NEW i \in 1..Len(p.entered), p.handlers[i] = "basicAuth",
                    c[q.ctx] # r
             PROVE /\ p.panic = "none" /\ p.stack # <<>>
                   /\ Last(p.stack) = [handler |-> i, at |-> "start"]
  BY DEF Keyed, Moves
<1>1. i \notin 1..Len(q.entered)
  BY DEF Settled, Moves
<1>2. p.entered # q.entered
  BY <1>1
<1>3. Len(p.entered) = p.index /\ p.entered = Append(q.entered, p.index)
  BY <1>2 DEF Moves
<1>4. p.index \in Nat /\ q.entered \in Seq(Nat)
  BY DEF Moves, RequestType
<1>5. Len(p.entered) = Len(q.entered) + 1
  BY <1>3, <1>4
<1>6. i = p.index
  BY <1>1, <1>3, <1>4, <1>5
<1> QED
  BY <1>2, <1>6 DEF Moves

LEMMA Settles ==
    ASSUME NEW q \in RequestType, NEW r, NEW c, Keyed(q, r, c),
           \/ ~q.known \/ q.panic # "none" \/ q.stack = <<>>
           \/ q.handlers[Last(q.stack).handler] # "basicAuth" \/ Last(q.stack).at # "start"
    PROVE Settled(q, r, c)
<1> SUFFICES ASSUME q.known, NEW i \in 1..Len(q.entered), q.handlers[i] = "basicAuth",
                    c[q.ctx] # r
             PROVE FALSE
  BY DEF Settled
<1>1. /\ q.panic = "none" /\ q.stack # <<>>
      /\ Last(q.stack) = [handler |-> i, at |-> "start"]
  BY DEF Keyed
<1>2. Last(q.stack).handler = i /\ Last(q.stack).at = "start"
  BY <1>1
<1> QED
  BY <1>1, <1>2

\* A step of one request: what is left to show of it.
LEMMA WebLocal ==
    ASSUME WebInv, NEW r \in Request, UNCHANGED <<config, groups, hasLogger>>,
           req[r].state = "serving",
           NEW p, Moves(p, req[r]), req' = [req EXCEPT ![r] = p],
           \/ contexts' = contexts
           \/ req[r].known /\ contexts' = [contexts EXCEPT ![req[r].ctx] = r],
           Settled(req[r], r, contexts')
    PROVE WebInv'
<1>1. req \in [Request -> RequestType] /\ req[r].ctx \in Ctx
  BY DEF WebInv
<1>9. /\ contexts' \in [Ctx -> Request \cup {None}]
      /\ \A x \in Ctx : x # req[r].ctx => contexts'[x] = contexts[x]
  BY <1>1 DEF WebInv
<1>2. p \in RequestType /\ req' \in [Request -> RequestType] /\ req'[r] = p
  BY <1>1 DEF Moves
<1>3. \A o \in Request \ {r} : req'[o] = req[o]
  BY <1>1
<1>4. RequestInv(p, hasLogger') /\ Keyed(p, r, contexts') /\ p.ctx = req[r].ctx
  BY <1>1, SettledMoves DEF Moves
<1>5. ASSUME NEW o \in Request, o # r
      PROVE /\ RequestInv(req'[o], hasLogger')
            /\ req[o].state = "serving" =>
                 /\ req[o].ctx \in Ctx /\ req[o].ctx # req[r].ctx
                 /\ Keyed(req[o], o, contexts')
  <2>1. RequestInv(req'[o], hasLogger')
    BY <1>3, <1>5 DEF WebInv
  <2>2. req[o].state = "serving" => req[o].ctx \in Ctx /\ req[o].ctx # req[r].ctx
                                    /\ Keyed(req[o], o, contexts)
    BY <1>5 DEF WebInv
  <2> QED
    BY <1>9, <2>1, <2>2 DEF Keyed
<1>6. \A o \in Request : RequestInv(req'[o], hasLogger')
  BY <1>2, <1>4, <1>5
<1>7. \A o \in Request : req'[o].state = "serving" =>
          req'[o].ctx \in Ctx /\ Keyed(req'[o], o, contexts')
  BY <1>1, <1>2, <1>3, <1>4, <1>5
<1>8. \A o, u \in Request : o # u /\ req'[o].state = "serving" /\ req'[u].state = "serving" =>
          req'[o].ctx # req'[u].ctx
  <2>1. ASSUME NEW o \in Request, NEW u \in Request, o # u, req'[o].state = "serving",
               req'[u].state = "serving", o # r, u # r
        PROVE req'[o].ctx # req'[u].ctx
    BY <1>3, <2>1 DEF WebInv
  <2> QED
    BY <1>2, <1>3, <1>4, <1>5, <2>1
<1>10. ASSUME NEW x \in Ctx, contexts'[x] # None
       PROVE Held(req'[contexts'[x]], x)
  <2>1. \A u \in Request : Held(req[u], x) => Held(req'[u], x)
    BY <1>2, <1>3 DEF Held, Moves
  <2>2. CASE contexts'[x] = contexts[x]
    <3>1. Held(req[contexts[x]], x) /\ contexts[x] \in Request
      BY <1>10, <2>2 DEF WebInv, UsersHeld
    <3> QED
      BY <2>1, <2>2, <3>1
  <2>3. CASE contexts'[x] # contexts[x]
    <3>1. x = req[r].ctx /\ contexts'[x] = r /\ req[r].known
      BY <1>1, <1>9, <2>3 DEF WebInv
    <3>2. Held(req[r], x)
      BY <3>1 DEF Held
    <3> QED
      BY <2>1, <3>1, <3>2
  <2> QED
    BY <2>2, <2>3
<1>11. UsersHeld(req', contexts')
  BY <1>10 DEF UsersHeld
<1> QED
  BY <1>2, <1>6, <1>7, <1>8, <1>9, <1>11 DEF WebInv

LEMMA MovesOn ==
    ASSUME NEW q \in RequestType, q.state = "serving",
           NEW p \in RequestType, Same(p, q), Serving(p, hasLogger),
           \/ p.entered = q.entered
           \/ /\ p.entered = Append(q.entered, p.index) /\ Len(p.entered) = p.index
              /\ p.panic = "none"
              /\ p.stack # <<>> /\ Last(p.stack) = [handler |-> p.index, at |-> "start"]
    PROVE Moves(p, q)
  BY DEF Moves, Same, RequestInv

\* The handler on top takes a step.
LEMMA AtFacts ==
    ASSUME WebInv, NEW r \in Request, NEW kind, NEW places, at(r, kind, places),
           NEW q, q = req[r]
    PROVE /\ q \in RequestType /\ q.state = "serving" /\ Serving(q, hasLogger) /\ q.panic = "none"
          /\ q.stack # <<>> /\ q.handlers[Last(q.stack).handler] = kind
          /\ Last(q.stack).at \in places /\ q.ctx \in Ctx /\ Keyed(q, r, contexts)
  BY DEF WebInv, RequestInv, at, top

LEMMA ChainStep ==
    ASSUME WebInv, NEW r \in Request, UNCHANGED <<config, groups, hasLogger, contexts>>,
           NEW kind, NEW places, at(r, kind, places),
           kind # "basicAuth" \/ places = {"back"} \/ ~req[r].known,
           NEW p, Moves(p, req[r]), req' = [req EXCEPT ![r] = p]
    PROVE WebInv'
<1> DEFINE q == req[r]
<1>1. /\ q \in RequestType /\ q.state = "serving" /\ q.handlers[Last(q.stack).handler] = kind
      /\ Last(q.stack).at \in places /\ Keyed(q, r, contexts)
  BY AtFacts
<1>2. Settled(q, r, contexts)
  BY <1>1, Settles
<1> QED
  BY <1>1, <1>2, WebLocal DEF WebInv

\* Logger and Recovery.
LEMMA LoggerSteps ==
    ASSUME WebInv, NEW r \in Request, UNCHANGED <<config, groups, hasLogger>>, Logger(r)
    PROVE WebInv'
<1> DEFINE q == req[r]
<1>1. PICK kind \in {"logger", "recovery"} :
        /\ at(r, kind, {"start", "back"})
        /\ does(r, IF top(q).at = "start" THEN callNext(q) ELSE returns(q))
        /\ UNCHANGED contexts
  BY DEF Logger
<1>2. /\ q \in RequestType /\ q.state = "serving" /\ Serving(q, hasLogger) /\ q.panic = "none"
      /\ q.stack # <<>> /\ Last(q.stack).at \in {"start", "back"}
  BY <1>1, AtFacts
<1> HIDE DEF q
<1>3. PICK p : p = (IF top(q).at = "start" THEN callNext(q) ELSE returns(q))
  OBVIOUS
<1>4. Moves(p, q)
  <2>1. CASE top(q).at = "start"
    <3>1. p = callNext(q)
      BY <1>3, <2>1
    <3> QED
      BY <1>2, <3>1, CallsNext, MovesOn
  <2>2. CASE top(q).at # "start"
    <3>1. p = returns(q)
      BY <1>3, <2>2
    <3>2. Last(q.stack).at = "back" /\ q.stack \in Seq(Frame)
      BY <1>2, <2>2 DEF top, RequestType
    <3>3. Len(q.stack) \in Nat \ {0} /\ Last(q.stack) = q.stack[Len(q.stack)]
      BY <1>2, <3>2, FrontFacts
    <3>4. q.index > Len(q.handlers)
      BY <1>2, <3>2, <3>3 DEF Serving, Stacked
    <3> QED
      BY <1>2, <3>1, <3>4, Returns, MovesOn
  <2> QED
    BY <2>1, <2>2
<1>5. kind # "basicAuth" /\ req' = [req EXCEPT ![r] = p]
  BY <1>1, <1>3 DEF does, q
<1> QED
  BY <1>1, <1>4, <1>5, ChainStep DEF q

\* A handler writes a status, or aborts, or both, and returns.
LEMMA ReturnsFrom ==
    ASSUME NEW q \in RequestType, q.state = "serving", q.stack # <<>>,
           q.handlers[Last(q.stack).handler] # "recovery",
           NEW w \in RequestType, Same(w, q), w.panic = "none", Serving(w, hasLogger),
           w.entered = q.entered, w.stack = q.stack,
           NEW p, p = returns(w)
    PROVE Moves(p, q)
<1>1. w.handlers[Last(w.stack).handler] # "recovery" /\ w.stack # <<>>
  BY DEF Same
<1>2. /\ p \in RequestType /\ Same(p, w) /\ p.panic = "none" /\ Serving(p, hasLogger)
      /\ \/ p.entered = w.entered
         \/ /\ p.entered = Append(w.entered, p.index) /\ Len(p.entered) = p.index
            /\ p.stack # <<>> /\ Last(p.stack) = [handler |-> p.index, at |-> "start"]
  BY <1>1, Returns
<1>3. Same(p, q)
  BY <1>2 DEF Same
<1> QED
  BY <1>2, <1>3, MovesOn

LEMMA WritesAndReturns ==
    ASSUME NEW q \in RequestType, q.state = "serving", q.stack # <<>>, Serving(q, hasLogger),
           q.panic = "none", q.handlers[Last(q.stack).handler] # "recovery",
           NEW code \in Nat \ {0}, NEW p, p = returns(write(q, code))
    PROVE Moves(p, q)
<1>1. PICK w : w = write(q, code)
  OBVIOUS
<1>2. /\ w \in RequestType /\ Same(w, q) /\ w.panic = "none" /\ Serving(w, hasLogger)
      /\ w.entered = q.entered /\ w.stack = q.stack
  BY <1>1, Writes
<1> QED
  BY <1>1, <1>2, ReturnsFrom

LEMMA BasicAuthSteps ==
    ASSUME WebInv, NEW r \in Request, UNCHANGED <<config, groups, hasLogger>>, BasicAuth(r)
    PROVE WebInv'
<1> DEFINE q == req[r]
<1>1. CASE /\ at(r, "basicAuth", {"start"}) /\ q.known
           /\ contexts' = [contexts EXCEPT ![q.ctx] = r] /\ does(r, callNext(q))
  <2>1. /\ q \in RequestType /\ q.state = "serving" /\ Serving(q, hasLogger) /\ q.panic = "none"
        /\ q.stack # <<>> /\ q.ctx \in Ctx
    BY <1>1, AtFacts
  <2>2. PICK p : p = callNext(q)
    OBVIOUS
  <2>3. Moves(p, q) /\ req' = [req EXCEPT ![r] = p]
    BY <1>1, <2>1, <2>2, CallsNext, MovesOn DEF does
  <2>4. /\ contexts' \in [Ctx -> Request \cup {None}] /\ contexts'[q.ctx] = r
        /\ \A x \in Ctx : x # q.ctx => contexts'[x] = contexts[x]
    BY <1>1, <2>1 DEF WebInv
  <2>5. Settled(q, r, contexts')
    BY <2>4 DEF Settled
  <2> QED
    BY <1>1, <2>1, <2>3, <2>5, WebLocal
<1>2. CASE /\ at(r, "basicAuth", {"start"}) /\ ~q.known
           /\ does(r, returns(write(q, 401))) /\ UNCHANGED contexts
  <2>1. /\ q \in RequestType /\ q.state = "serving" /\ Serving(q, hasLogger) /\ q.panic = "none"
        /\ q.stack # <<>> /\ q.handlers[Last(q.stack).handler] = "basicAuth"
    BY <1>2, AtFacts
  <2>2. PICK p : p = returns(write(q, 401))
    OBVIOUS
  <2>3. Moves(p, q) /\ req' = [req EXCEPT ![r] = p]
    BY <1>2, <2>1, <2>2, WritesAndReturns DEF does
  <2> QED
    BY <1>2, <2>3, ChainStep
<1>3. CASE at(r, "basicAuth", {"back"}) /\ does(r, returns(q)) /\ UNCHANGED contexts
  <2>1. /\ q \in RequestType /\ q.state = "serving" /\ Serving(q, hasLogger) /\ q.panic = "none"
        /\ q.stack # <<>> /\ q.handlers[Last(q.stack).handler] = "basicAuth"
    BY <1>3, AtFacts
  <2>2. PICK p : p = returns(q)
    OBVIOUS
  <2>3. Moves(p, q) /\ req' = [req EXCEPT ![r] = p]
    BY <1>3, <2>1, <2>2, Returns, MovesOn DEF does
  <2> QED
    BY <1>3, <2>3, ChainStep
<1> QED
  BY <1>1, <1>2, <1>3 DEF BasicAuth

LEMMA AbortsAndReturns ==
    ASSUME NEW q \in RequestType, q.state = "serving", q.stack # <<>>, Serving(q, hasLogger),
           q.panic = "none", q.handlers[Last(q.stack).handler] # "recovery",
           NEW code \in Nat \ {0}, NEW p, p = returns(abort(write(q, code)))
    PROVE Moves(p, q)
<1>1. PICK v : v = write(q, code)
  OBVIOUS
<1>2. /\ v \in RequestType /\ Same(v, q) /\ v.panic = "none" /\ Serving(v, hasLogger)
      /\ v.entered = q.entered /\ v.stack = q.stack
  BY <1>1, Writes
<1>3. PICK w : w = abort(v)
  OBVIOUS
<1>4. /\ w \in RequestType /\ Same(w, v) /\ w.panic = "none" /\ Serving(w, hasLogger)
      /\ w.entered = v.entered /\ w.stack = v.stack
  BY <1>2, <1>3, Aborts
<1>5. Same(w, q)
  BY <1>2, <1>4 DEF Same
<1>6. p = returns(w)
  BY <1>1, <1>3
<1> QED
  BY <1>2, <1>4, <1>5, <1>6, ReturnsFrom

LEMMA AuthInterceptorSteps ==
    ASSUME WebInv, NEW r \in Request, UNCHANGED <<config, groups, hasLogger>>, AuthInterceptor(r)
    PROVE WebInv'
<1> DEFINE q == req[r]
<1>1. at(r, "jwt", {"start"}) /\ UNCHANGED contexts
  BY DEF AuthInterceptor
<1>2. /\ q \in RequestType /\ q.state = "serving" /\ Serving(q, hasLogger) /\ q.panic = "none"
      /\ q.stack # <<>> /\ q.handlers[Last(q.stack).handler] # "recovery"
  BY <1>1, AtFacts
<1>3. CASE req' = [req EXCEPT ![r] = returns(q)]
  <2>1. PICK p : p = returns(q)
    OBVIOUS
  <2>2. Moves(p, q)
    BY <1>2, <2>1, Returns, MovesOn
  <2> QED
    BY <1>1, <1>3, <2>1, <2>2, ChainStep
<1>4. CASE req' = [req EXCEPT ![r] = returns(abort(write(q, 401)))]
  <2>1. PICK p : p = returns(abort(write(q, 401)))
    OBVIOUS
  <2>2. Moves(p, q)
    BY <1>2, <2>1, AbortsAndReturns
  <2> QED
    BY <1>1, <1>4, <2>1, <2>2, ChainStep
<1> QED
  BY <1>3, <1>4 DEF AuthInterceptor, does

LEMMA NotFoundSteps ==
    ASSUME WebInv, NEW r \in Request, UNCHANGED <<config, groups, hasLogger>>, notFound(r)
    PROVE WebInv'
<1> DEFINE q == req[r]
<1>1. at(r, "notFound", {"start"}) /\ UNCHANGED contexts
  BY DEF notFound
<1>2. /\ q \in RequestType /\ q.state = "serving" /\ Serving(q, hasLogger) /\ q.panic = "none"
      /\ q.stack # <<>> /\ q.handlers[Last(q.stack).handler] # "recovery"
  BY <1>1, AtFacts
<1>3. PICK p : p = returns(write(q, 404))
  OBVIOUS
<1>4. Moves(p, q) /\ req' = [req EXCEPT ![r] = p]
  BY <1>2, <1>3, WritesAndReturns DEF notFound, does
<1> QED
  BY <1>1, <1>4, ChainStep

\* What the application's handler does, when it does not panic.
LEMMA Handles ==
    ASSUME NEW q \in RequestType, q.state = "serving", Serving(q, hasLogger), q.panic = "none",
           q.stack # <<>>, q.handlers[Last(q.stack).handler] # "recovery",
           NEW p,
           \/ p = write(q, 200) \/ p = abort(write(q, 200)) \/ p = write(abort(q), 400)
           \/ p = abort(q) \/ p = callNext(q) \/ p = returns(q)
    PROVE Moves(p, q)
<1>1. PICK v : v = write(q, 200)
  OBVIOUS
<1>2. PICK w : w = abort(q)
  OBVIOUS
<1>3. /\ v \in RequestType /\ Same(v, q) /\ v.panic = "none" /\ Serving(v, hasLogger)
      /\ v.entered = q.entered /\ v.stack = q.stack
  BY <1>1, Writes, SMTT(30)
<1>4. /\ w \in RequestType /\ Same(w, q) /\ w.panic = "none" /\ Serving(w, hasLogger)
      /\ w.entered = q.entered /\ w.stack = q.stack
  BY <1>2, Aborts
<1>5. CASE p = v \/ p = w
  BY <1>3, <1>4, <1>5, MovesOn
<1>6. CASE p = abort(v)
  <2>1. /\ p \in RequestType /\ Same(p, v) /\ Serving(p, hasLogger) /\ p.entered = v.entered
    BY <1>3, <1>6, Aborts
  <2>2. Same(p, q)
    BY <1>3, <2>1 DEF Same
  <2> QED
    BY <1>3, <2>1, <2>2, MovesOn
<1>7. CASE p = write(w, 400)
  <2>3. PICK u : u = write(w, 400)
    OBVIOUS
  <2>1. /\ u \in RequestType /\ Same(u, w) /\ Serving(u, hasLogger) /\ u.entered = w.entered
    BY <1>4, <2>3, Writes, SMTT(30)
  <2>2. Same(u, q) /\ u = p
    BY <1>4, <1>7, <2>1, <2>3 DEF Same
  <2> QED
    BY <1>4, <2>1, <2>2, MovesOn
<1>8. CASE p = callNext(q)
  BY <1>8, CallsNext, MovesOn
<1>9. CASE p = returns(q)
  BY <1>9, Returns, MovesOn
<1> QED
  BY <1>1, <1>2, <1>5, <1>6, <1>7, <1>8, <1>9

LEMMA HandlerSteps ==
    ASSUME WebInv, NEW r \in Request, UNCHANGED <<config, groups, hasLogger>>,
           NEW given, handles(r, given)
    PROVE WebInv'
<1> DEFINE q == req[r]
<1>1. at(r, "handler", {"start", "back"}) /\ UNCHANGED contexts
  BY DEF handles
<1>2. /\ q \in RequestType /\ q.state = "serving" /\ Serving(q, hasLogger) /\ q.panic = "none"
      /\ q.stack # <<>> /\ q.handlers[Last(q.stack).handler] # "recovery"
  BY <1>1, AtFacts
<1>3. ASSUME NEW p, req' = [req EXCEPT ![r] = p],
             \/ p = write(q, 200) \/ p = abort(write(q, 200)) \/ p = write(abort(q), 400)
             \/ p = abort(q) \/ p = callNext(q) \/ p = returns(q)
      PROVE WebInv'
  <2>1. Moves(p, q)
    BY <1>2, <1>3, Handles
  <2> QED
    BY <1>1, <1>3, <2>1, ChainStep
<1> QED
  BY <1>3 DEF handles, does, Fail

\* A panic unwinds the stack, or ends in a Recovery or at the server.
LEMMA Unwinds ==
    ASSUME NEW q \in RequestType, q.state = "serving", Serving(q, hasLogger), q.panic # "none",
           NEW p,
           \/ q.stack = <<>> /\ p = [q EXCEPT !.state = "aborted"]
           \/ /\ q.stack # <<>> /\ (~recovering(q) \/ q.panic = "goexit")
              /\ p = [q EXCEPT !.stack = Front(@)]
           \/ /\ q.stack # <<>>
              /\ q.panic \in {"value", "bareError"} \/ (q.panic = "error" /\ ~hasLogger)
              /\ p = [[q EXCEPT !.stack = Front(@)] EXCEPT !.panic = "error"]
           \/ /\ q.stack # <<>> /\ q.panic = "psyError"
              /\ \/ p = returns(abort([q EXCEPT !.panic = "none"]))
                 \/ p = returns(abort(write([q EXCEPT !.panic = "none"], 400)))
           \/ /\ q.stack # <<>> /\ q.panic = "error"
              /\ p = returns(Fail([q EXCEPT !.panic = "none"], 500))
    PROVE Moves(p, q)
<1>1. q.panic \in Panics /\ Panicking(q, hasLogger)
  BY DEF RequestType, Serving
<1>2. q.raised \in {"error", "psyError"} => q.panic = q.raised
  BY <1>1 DEF Panicking
<1>3. CASE q.stack = <<>> /\ p = [q EXCEPT !.state = "aborted"]
  <2>1. /\ p \in RequestType /\ p.state = "aborted" /\ p.panic = q.panic /\ p.raised = q.raised
        /\ p.stack = q.stack /\ p.entered = q.entered /\ p.index = q.index /\ p.sent = q.sent
        /\ p.aborted = q.aborted /\ p.handlers = q.handlers /\ p.ctx = q.ctx
        /\ p.known = q.known
    BY <1>3 DEF RequestType
  <2>2. Called(p) /\ Panicking(p, hasLogger)
    <3>1. Called(q)
      BY DEF Serving
    <3> QED
      BY <1>1, <2>1, <3>1 DEF Called, Panicking, Caught
  <2>3. Served(p, hasLogger)
    <3>1. q.raised # "none"
      BY <1>1 DEF Panicking
    <3>2. ASSUME hasLogger, q.raised \in {"error", "psyError"}
          PROVE \A i \in 1..Len(q.entered) : q.handlers[i] # "recovery"
      <4>1. Caught(q)
        BY <1>1, <3>2 DEF Panicking
      <4>2. Len(q.stack) = 0
        BY <1>3
      <4> QED
        BY <4>1, <4>2 DEF Caught
    <3> QED
      BY <2>1, <2>2, <3>1, <3>2 DEF Served
  <2> QED
    BY <2>1, <2>3 DEF Moves, RequestInv
<1>4. CASE q.stack # <<>> /\ (~recovering(q) \/ q.panic = "goexit")
           /\ p = [q EXCEPT !.stack = Front(@)]
  <2>1. p = [q EXCEPT !.stack = Front(@), !.panic = q.panic]
    BY <1>4 DEF RequestType
  <2>2. hasLogger /\ q.raised \in {"error", "psyError"} => ~recovering(q)
    BY <1>2, <1>4
  <2>3. q.raised \in {"error", "psyError"} => q.panic = q.panic
    OBVIOUS
  <2>4. PICK u : u = [q EXCEPT !.stack = Front(@), !.panic = q.panic]
    OBVIOUS
  <2>5. u \in RequestType /\ Same(u, q) /\ Serving(u, hasLogger) /\ u.entered = q.entered
    BY <1>1, <1>4, <2>2, <2>3, <2>4, Pops
  <2> QED
    BY <2>1, <2>4, <2>5, MovesOn
<1>5. CASE /\ q.stack # <<>>
           /\ q.panic \in {"value", "bareError"} \/ (q.panic = "error" /\ ~hasLogger)
           /\ p = [[q EXCEPT !.stack = Front(@)] EXCEPT !.panic = "error"]
  <2>1. p = [q EXCEPT !.stack = Front(@), !.panic = "error"] /\ "error" \in Panics
    BY <1>5 DEF Panics
  <2>2. hasLogger /\ q.raised \in {"error", "psyError"} => ~recovering(q)
    BY <1>2, <1>5
  <2>3. q.raised \in {"error", "psyError"} => "error" = q.panic
    BY <1>2, <1>5
  <2>4. PICK u : u = [q EXCEPT !.stack = Front(@), !.panic = "error"]
    OBVIOUS
  <2>5. u \in RequestType /\ Same(u, q) /\ Serving(u, hasLogger) /\ u.entered = q.entered
    BY <1>5, <2>1, <2>2, <2>3, <2>4, Pops, ZenonT(30)
  <2> QED
    BY <2>1, <2>4, <2>5, MovesOn
<1>6. ASSUME q.stack # <<>>, NEW code \in Nat, q.raised = "error" => code # 0,
             p = returns([abort(q) EXCEPT !.panic = "none", !.sent = code])
      PROVE Moves(p, q)
  <2>1. PICK v : v = [abort(q) EXCEPT !.panic = "none", !.sent = code]
    OBVIOUS
  <2>2. PICK u : u = returns(v)
    OBVIOUS
  <2>3. q.stack # <<>> /\ (q.raised = "error" => code # 0)
    BY <1>6
  <2>4. u \in RequestType
    BY <2>1, <2>2, <2>3, Recovers, ZenonT(30)
  <2>5. Same(u, q)
    BY <2>1, <2>2, <2>3, Recovers
  <2>6. Serving(u, hasLogger)
    BY <2>1, <2>2, <2>3, Recovers, ZenonT(30)
  <2>7. u.entered = q.entered
    BY <2>1, <2>2, <2>3, Recovers, ZenonT(30)
  <2>8. u = p
    BY <1>6, <2>1, <2>2
  <2> QED
    BY <2>4, <2>5, <2>6, <2>7, <2>8, MovesOn
<1>7. q.sent \in Nat
  BY DEF RequestType
<1>8. CASE /\ q.stack # <<>> /\ q.panic = "psyError"
           /\ \/ p = returns(abort([q EXCEPT !.panic = "none"]))
              \/ p = returns(abort(write([q EXCEPT !.panic = "none"], 400)))
  <2>1. q.raised # "error"
    BY <1>2, <1>8
  <2>2. CASE p = returns(abort([q EXCEPT !.panic = "none"]))
    <3>1. abort([q EXCEPT !.panic = "none"]) = [abort(q) EXCEPT !.panic = "none", !.sent = q.sent]
      BY DEF abort, abortNothing, RequestType
    <3> QED
      BY <1>6, <1>7, <1>8, <2>1, <2>2, <3>1
  <2>3. CASE p = returns(abort(write([q EXCEPT !.panic = "none"], 400)))
    <3> DEFINE code == IF q.sent = 0 THEN 400 ELSE q.sent
    <3>1. code \in Nat
      BY <1>7
    <3>2. write([q EXCEPT !.panic = "none"], 400) = [q EXCEPT !.panic = "none", !.sent = code]
      BY DEF write, RequestType
    <3> HIDE DEF code
    <3>3. abort([q EXCEPT !.panic = "none", !.sent = code]) =
              [abort(q) EXCEPT !.panic = "none", !.sent = code]
      BY DEF abort, abortNothing, RequestType
    <3> QED
      BY <1>6, <1>8, <2>1, <2>3, <3>1, <3>2, <3>3, ZenonT(30)
  <2> QED
    BY <1>8, <2>2, <2>3
<1>9. CASE q.stack # <<>> /\ p = returns(Fail([q EXCEPT !.panic = "none"], 500))
  <2> DEFINE code == IF q.sent = 0 THEN 500 ELSE q.sent
  <2>1. code \in Nat /\ code # 0
    BY <1>7
  <2>2. /\ abort([q EXCEPT !.panic = "none"]) = [abort(q) EXCEPT !.panic = "none"]
        /\ abort([q EXCEPT !.panic = "none"]).sent = q.sent
    BY DEF abort, abortNothing, RequestType
  <2>3. Fail([q EXCEPT !.panic = "none"], 500) = [abort([q EXCEPT !.panic = "none"])
                                                      EXCEPT !.sent = code]
    BY <2>2 DEF Fail, write
  <2> HIDE DEF code
  <2>4. Fail([q EXCEPT !.panic = "none"], 500) = [abort(q) EXCEPT !.panic = "none", !.sent = code]
    BY <2>2, <2>3
  <2> QED
    BY <1>6, <1>9, <2>1, <2>4
<1> QED
  BY <1>3, <1>4, <1>5, <1>8, <1>9

LEMMA UnwindSteps ==
    ASSUME WebInv, NEW r \in Request, UNCHANGED <<config, groups, hasLogger>>, unwind(r)
    PROVE WebInv'
<1> DEFINE q == req[r]
<1>1. /\ q \in RequestType /\ q.state = "serving" /\ Serving(q, hasLogger) /\ q.panic # "none"
      /\ UNCHANGED contexts /\ Keyed(q, r, contexts)
  BY DEF unwind, WebInv, RequestInv
<1>2. Settled(q, r, contexts)
  BY <1>1, Settles
<1>3. ASSUME NEW p, req' = [req EXCEPT ![r] = p],
             \/ q.stack = <<>> /\ p = [q EXCEPT !.state = "aborted"]
             \/ /\ q.stack # <<>> /\ (~recovering(q) \/ q.panic = "goexit")
                /\ p = [q EXCEPT !.stack = Front(@)]
             \/ /\ q.stack # <<>>
                /\ q.panic \in {"value", "bareError"} \/ (q.panic = "error" /\ ~hasLogger)
                /\ p = [[q EXCEPT !.stack = Front(@)] EXCEPT !.panic = "error"]
             \/ /\ q.stack # <<>> /\ q.panic = "psyError"
                /\ \/ p = returns(abort([q EXCEPT !.panic = "none"]))
                   \/ p = returns(abort(write([q EXCEPT !.panic = "none"], 400)))
             \/ /\ q.stack # <<>> /\ q.panic = "error"
                /\ p = returns(Fail([q EXCEPT !.panic = "none"], 500))
      PROVE WebInv'
  <2>1. Moves(p, q)
    BY <1>1, <1>3, Unwinds, ZenonT(30)
  <2> QED
    BY <1>1, <1>2, <1>3, <2>1, WebLocal DEF WebInv
<1>4. CASE q.stack = <<>> /\ does(r, [q EXCEPT !.state = "aborted"])
  BY <1>3, <1>4 DEF does
<1>5. CASE /\ q.stack # <<>> /\ (~recovering(q) \/ q.panic = "goexit")
           /\ does(r, [q EXCEPT !.stack = Front(@)])
  BY <1>3, <1>5 DEF does
<1>6. CASE /\ q.stack # <<>>
           /\ q.panic \in {"value", "bareError"} \/ (q.panic = "error" /\ ~hasLogger)
           /\ does(r, [[q EXCEPT !.stack = Front(@)] EXCEPT !.panic = "error"])
  BY <1>3, <1>6 DEF does
<1>7. CASE /\ q.stack # <<>> /\ q.panic = "psyError"
           /\ \/ does(r, returns(abort([q EXCEPT !.panic = "none"])))
              \/ does(r, returns(abort(write([q EXCEPT !.panic = "none"], 400))))
  BY <1>3, <1>7 DEF does
<1>8. CASE /\ q.stack # <<>> /\ q.panic = "error"
           /\ does(r, returns(Fail([q EXCEPT !.panic = "none"], 500)))
  BY <1>3, <1>8, ZenonT(30) DEF does
<1> QED
  BY <1>4, <1>5, <1>6, <1>7, <1>8 DEF unwind

\* The request ends.
LEMMA ServeReturnsSteps ==
    ASSUME WebInv, NEW r \in Request, UNCHANGED <<config, groups, hasLogger>>, serveReturns(r)
    PROVE WebInv'
<1> DEFINE q == req[r]
           p == [q EXCEPT !.state = "done"]
<1>1. /\ q \in RequestType /\ q.state = "serving" /\ Serving(q, hasLogger) /\ q.panic = "none"
      /\ q.stack = <<>> /\ UNCHANGED contexts /\ Keyed(q, r, contexts)
  BY DEF serveReturns, WebInv, RequestInv
<1>2. Settled(q, r, contexts)
  BY <1>1, Settles
<1>3. req' = [req EXCEPT ![r] = p]
  BY DEF serveReturns, WebInv
<1>4. /\ p \in RequestType /\ p.state = "done" /\ p.panic = q.panic /\ p.raised = q.raised
      /\ p.stack = q.stack /\ p.entered = q.entered /\ p.index = q.index /\ p.sent = q.sent
      /\ p.aborted = q.aborted /\ p.handlers = q.handlers /\ p.ctx = q.ctx
      /\ p.known = q.known
  BY <1>1 DEF RequestType
<1> HIDE DEF p
<1>5. Served(p, hasLogger)
  BY <1>1, <1>4 DEF Serving, Served, Called, Stacked, Panicking
<1>6. Moves(p, q)
  BY <1>4, <1>5 DEF Moves, RequestInv
<1> QED
  BY <1>1, <1>2, <1>3, <1>6, WebLocal DEF WebInv

\* The application's handler panics, in the function of a transaction or not.
LEMMA PanicSteps ==
    ASSUME WebInv, NEW r \in Request, UNCHANGED <<config, groups, hasLogger, contexts>>,
           req[r].state = "serving", req[r].stack # <<>>,
           req[r].handlers[Last(req[r].stack).handler] = "handler",
           NEW e \in Panics, NEW p, p = [req[r] EXCEPT !.panic = e, !.raised = e],
           req' = [req EXCEPT ![r] = p]
    PROVE WebInv'
<1> DEFINE q == req[r]
<1>1. q \in RequestType /\ Serving(q, hasLogger) /\ Keyed(q, r, contexts)
  BY DEF WebInv, RequestInv
<1>2. Settled(q, r, contexts)
  BY <1>1, Settles
<1>5. p = [q EXCEPT !.panic = e, !.raised = e] /\ q.stack # <<>>
      /\ q.handlers[Last(q.stack).handler] = "handler" /\ q.state = "serving"
  OBVIOUS
<1> HIDE DEF q
<1>3. /\ p \in RequestType /\ p.state = q.state /\ p.ctx = q.ctx /\ Serving(p, hasLogger)
      /\ p.handlers = q.handlers /\ p.entered = q.entered /\ p.known = q.known
  <2>1. PICK u : u = [q EXCEPT !.panic = e, !.raised = e]
    OBVIOUS
  <2>2. u \in RequestType /\ Serving(u, hasLogger)
    <3>1. q.stack # <<>> /\ q.handlers[Last(q.stack).handler] = "handler"
      BY <1>5
    <3>2. q \in RequestType /\ Serving(q, hasLogger)
      BY <1>1
    <3> QED
      BY <2>1, <3>1, <3>2, Raises
  <2>3. /\ u.state = q.state /\ u.ctx = q.ctx /\ u.handlers = q.handlers
        /\ u.entered = q.entered /\ u.known = q.known
    BY <1>1, <2>1 DEF RequestType
  <2> QED
    BY <1>5, <2>1, <2>2, <2>3
<1>4. Moves(p, q)
  BY <1>3, <1>5 DEF Moves, RequestInv
<1> QED
  BY <1>2, <1>4, <1>5, WebLocal DEF WebInv, q

\* What middlewares composes is a chain without the application's handler.
LEMMA ChainFacts ==
    ASSUME NEW h \in Seq(Middleware), NEW last \in {"handler", "notFound"},
           NEW chain, chain = Append(h, last)
    PROVE /\ chain \in Seq(Kind) /\ Len(chain) >= 1
          /\ \A i \in 1..Len(chain) : chain[i] = "handler" => i = Len(chain)
<1>1. h \in Seq(Kind) /\ last \in Kind
  BY DEF Kind
<1>2. /\ Len(h) \in Nat /\ Len(chain) = Len(h) + 1
      /\ \A i \in 1..Len(h) : chain[i] = h[i] /\ h[i] \in Middleware
  OBVIOUS
<1>3. chain \in Seq(Kind)
  BY <1>1
<1>4. ASSUME NEW i \in 1..Len(chain), chain[i] = "handler" PROVE i = Len(chain)
  <2>1. CASE i \in 1..Len(h)
    BY <1>2, <1>4, <2>1 DEF Middleware
  <2> QED
    BY <1>2, <2>1
<1> QED
  BY <1>2, <1>3, <1>4

\* The request that ServeHTTP makes.
served(x, path, known, h, last) ==
    [newRequest EXCEPT !.state = "serving", !.path = path, !.known = known, !.ctx = x,
                       !.handlers = Append(h, last)]

\* Its chain starts.
LEMMA Starts ==
    ASSUME NEW x \in Ctx, NEW path \in Paths, NEW known \in BOOLEAN, Paths # {},
           NEW h \in Seq(Middleware), NEW last \in {"handler", "notFound"},
           NEW q, q = served(x, path, known, h, last), NEW p, p = proceed(q, <<>>)
    PROVE /\ p \in RequestType /\ p.state = "serving" /\ p.ctx = x /\ Serving(p, hasLogger)
          /\ p.panic = "none"
          /\ \A r, c : Keyed(p, r, c)
<1>1. PICK chain : chain = Append(h, last)
  OBVIOUS
<1>2. /\ chain \in Seq(Kind) /\ Len(chain) >= 1 /\ Len(chain) \in Nat
      /\ \A i \in 1..Len(chain) : chain[i] = "handler" => i = Len(chain)
  BY <1>1, ChainFacts
<1>3. q = [newRequest EXCEPT !.state = "serving", !.path = path, !.known = known,
                             !.ctx = x, !.handlers = chain]
  BY <1>1 DEF served
<1>4. /\ q \in RequestType /\ q.state = "serving" /\ q.ctx = x /\ q.handlers = chain
      /\ q.index = 0 /\ q.panic = "none" /\ q.raised = "none" /\ q.entered = <<>>
      /\ q.aborted = 0 /\ q.stack = <<>>
  <2>1. /\ q.state = "serving" /\ q.ctx = x /\ q.handlers = chain /\ q.path = path
        /\ q.known = known /\ q.sent = 0
        /\ q.index = 0 /\ q.panic = "none" /\ q.raised = "none" /\ q.entered = <<>>
        /\ q.aborted = 0 /\ q.stack = <<>>
        /\ q = [state |-> "serving", path |-> path, known |-> known, ctx |-> x,
                handlers |-> chain, index |-> 0, stack |-> <<>>, panic |-> "none", sent |-> 0,
                entered |-> <<>>, aborted |-> 0, raised |-> "none"]
    BY <1>3 DEF newRequest
  <2>2. /\ <<>> \in Seq(Frame) /\ <<>> \in Seq(Nat) /\ 0 \in Nat /\ x \in Ctx \cup {None}
        /\ "none" \in Panics \cup {"none"} /\ "serving" \in {"new", "serving", "done", "aborted"}
    OBVIOUS
  <2>3. q \in RequestType
    BY <1>2, <2>1, <2>2 DEF RequestType
  <2> QED
    BY <2>1, <2>3
<1>5. /\ Chain(q) /\ Called(q) /\ Ordered(q, <<>>) /\ Guarded(q, <<>>)
      /\ <<>> \in Seq(Frame) /\ Len(<<>>) = 0 /\ Len(q.entered) = 0
  BY <1>2, <1>4 DEF Chain, Called, Ordered, Guarded
<1>6. PICK frames : frames = <<>>
  OBVIOUS
<1>11. /\ frames \in Seq(Frame) /\ Ordered(q, frames) /\ Guarded(q, frames)
      /\ \A k \in 1..Len(frames) : frames[k].at = "next"
      /\ p = proceed(q, frames)
  BY <1>5, <1>6
<1>12. Len(q.entered) # 0 \/ q.index = 0
  BY <1>4
<1>13. q.raised = "error" => q.sent # 0
  BY <1>4
<1>7. /\ p \in RequestType /\ Same(p, q) /\ p.panic = "none" /\ Serving(p, hasLogger)
      /\ \/ p.entered = q.entered
         \/ /\ p.entered = Append(q.entered, p.index) /\ Len(p.entered) = p.index
            /\ p.stack # <<>> /\ Last(p.stack) = [handler |-> p.index, at |-> "start"]
  <2>1. PICK u : u = proceed(q, frames)
    OBVIOUS
  <2>2. /\ u \in RequestType /\ Same(u, q) /\ u.panic = "none" /\ Serving(u, hasLogger)
        /\ \/ u.entered = q.entered
           \/ /\ u.entered = Append(q.entered, u.index) /\ Len(u.entered) = u.index
              /\ u.stack # <<>> /\ Last(u.stack) = [handler |-> u.index, at |-> "start"]
    <3>1. q \in RequestType /\ q.panic = "none" /\ Chain(q) /\ Called(q)
      BY <1>4, <1>5
    <3>2. u \in RequestType /\ Same(u, q)
      BY <1>11, <1>12, <1>13, <2>1, <3>1, Proceed
    <3>3. u.panic = "none" /\ Serving(u, hasLogger)
      BY <1>11, <1>12, <1>13, <2>1, <3>1, Proceed
    <3>4. \/ u.entered = q.entered
          \/ /\ u.entered = Append(q.entered, u.index) /\ Len(u.entered) = u.index
             /\ u.stack # <<>> /\ Last(u.stack) = [handler |-> u.index, at |-> "start"]
      <4> SUFFICES ASSUME u.entered # q.entered
                   PROVE /\ u.entered = Append(q.entered, u.index) /\ Len(u.entered) = u.index
                         /\ u.stack # <<>> /\ Last(u.stack) = [handler |-> u.index, at |-> "start"]
        OBVIOUS
      <4>1. u.entered = Append(q.entered, u.index)
        BY <1>11, <1>12, <1>13, <2>1, <3>1, Proceed
      <4>2. Len(u.entered) = u.index
        BY <1>11, <1>12, <1>13, <2>1, <3>1, Proceed
      <4>3. u.stack # <<>>
        BY <1>11, <1>12, <1>13, <2>1, <3>1, Proceed
      <4>4. Last(u.stack) = [handler |-> u.index, at |-> "start"]
        BY <1>11, <1>12, <1>13, <2>1, <3>1, Proceed
      <4> QED
        BY <4>1, <4>2, <4>3, <4>4
    <3> QED
      BY <3>2, <3>3, <3>4
  <2> QED
    BY <1>11, <2>1, <2>2
<1>8. Len(p.entered) # 0 /\ p.entered # q.entered
  BY <1>4, <1>7 DEF Serving
<1>9. p.stack # <<>> /\ Last(p.stack) = [handler |-> 1, at |-> "start"] /\ Len(p.entered) = 1
  <2>1. p.index \in Nat /\ p.entered = Append(<<>>, p.index) /\ Len(p.entered) = p.index
    BY <1>4, <1>7, <1>8 DEF RequestType
  <2>2. p.index = 1
    <3>1. ASSUME NEW s \in Seq(Nat), NEW i \in Nat, Len(s) = 0 PROVE Len(Append(s, i)) = 1
      BY <3>1
    <3>2. <<>> \in Seq(Nat) /\ Len(<<>>) = 0
      OBVIOUS
    <3>3. Len(Append(<<>>, p.index)) = 1
      BY <2>1, <3>1, <3>2
    <3> QED
      BY <2>1, <3>3
  <2> QED
    BY <1>7, <1>8, <2>1, <2>2
<1>10. \A r, c : Keyed(p, r, c)
  <2>1. \A i \in 1..Len(p.entered) : i = 1
    <3>1. \A i \in 1..1 : i = 1
      OBVIOUS
    <3> QED
      BY <1>9, <3>1
  <2> QED
    BY <1>7, <1>9, <2>1 DEF Keyed
<1> QED
  BY <1>4, <1>7, <1>10 DEF Same

\* The middlewares of the groups that a path is in.
LEMMA MiddlewaresType ==
    ASSUME NEW gs \in Seq([prefix : Seq(STRING), middlewares : Seq(Middleware)]), NEW path
    PROVE  middlewares(gs, path) \in Seq(Middleware)
<1>1. PICK seqs : seqs = [i \in DOMAIN gs |-> IF IsPrefix(gs[i].prefix, path)
                                             THEN gs[i].middlewares ELSE <<>>]
  OBVIOUS
<1>2. PICK S : S = Seq(Middleware)
  OBVIOUS
<1>3. PICK G : G = [prefix : Seq(STRING), middlewares : Seq(Middleware)]
  OBVIOUS
<1>4. PICK n \in Nat : n = Len(gs) /\ DOMAIN gs = 1..n /\ \A i \in 1..n : gs[i] \in G
  <2>1. gs \in Seq(G)
    BY <1>3, Zenon
  <2>2. Len(gs) \in Nat /\ DOMAIN gs = 1..Len(gs) /\ \A i \in 1..Len(gs) : gs[i] \in G
    BY <2>1
  <2> QED
    BY <2>2
<1>5. ASSUME NEW i \in 1..n PROVE gs[i].middlewares \in S
  BY <1>2, <1>3, <1>4
<1>6. <<>> \in S
  BY <1>2
<1>7. seqs \in [1..n -> S]
  BY <1>1, <1>4, <1>5, <1>6
<1>8. seqs \in Seq(S)
  BY <1>7
<1>9. FlattenSeq(seqs) \in Seq(Middleware)
  BY <1>2, <1>8, FlattenType
<1> QED
  BY <1>1, <1>9 DEF middlewares

LEMMA ServeHTTPSteps ==
    ASSUME WebInv, NEW r \in Request, UNCHANGED <<config, groups, hasLogger>>,
           NEW x \in Ctx, NEW path \in config.paths, NEW known \in BOOLEAN,
           ServeHTTP(r, x, path, known)
    PROVE WebInv'
<1> DEFINE h == middlewares(groups, path)
           last == IF getRoute(path).handler = 0 THEN "notFound" ELSE "handler"
<1>1. path \in Paths /\ Paths # {} /\ h \in Seq(Middleware) /\ last \in {"handler", "notFound"}
  <2>1. path \in Paths /\ Paths # {}
    BY AppAssumption DEF WebInv
  <2>2. groups \in Seq([prefix : Seq(STRING), middlewares : Seq(Middleware)])
    BY AppAssumption DEF WebInv
  <2> QED
    BY <2>1, <2>2, MiddlewaresType
<1>2. /\ req[r].state = "new"
      /\ \A o \in Request : req[o].state = "serving" => req[o].ctx # x
      /\ req' = [req EXCEPT ![r] =
                   proceed([newRequest EXCEPT !.state = "serving", !.path = path,
                              !.known = known, !.ctx = x, !.handlers = Append(h, last)], <<>>)]
      /\ contexts' = contexts \/ contexts' = [contexts EXCEPT ![x] = None]
  BY DEF ServeHTTP
<1> HIDE DEF h, last
<1>13. PICK ms \in Seq(Middleware) : ms = h
  BY <1>1
<1>14. PICK l \in {"handler", "notFound"} : l = last
  BY <1>1
<1>3. PICK q : q = served(x, path, known, ms, l)
  OBVIOUS
<1>4. PICK p : p = proceed(q, <<>>)
  OBVIOUS
<1>5. /\ p \in RequestType /\ p.state = "serving" /\ p.ctx = x /\ Serving(p, hasLogger)
      /\ \A o, c : Keyed(p, o, c)
  <2>1. path \in Paths /\ Paths # {}
    BY <1>1
  <2>2. p \in RequestType /\ p.state = "serving" /\ p.ctx = x
    BY <1>3, <1>4, <2>1, Starts
  <2>3. Serving(p, hasLogger)
    BY <1>3, <1>4, <2>1, Starts
  <2>4. \A o, c : Keyed(p, o, c)
    BY <1>3, <1>4, <2>1, Starts
  <2> QED
    BY <2>2, <2>3, <2>4
<1>6. req' = [req EXCEPT ![r] = p]
  BY <1>2, <1>3, <1>4, <1>13, <1>14 DEF served
<1>7. /\ req \in [Request -> RequestType] /\ contexts \in [Ctx -> Request \cup {None}]
      /\ req' \in [Request -> RequestType] /\ req'[r] = p
      /\ \A o \in Request \ {r} : req'[o] = req[o]
  BY <1>5, <1>6 DEF WebInv
<1>8. /\ contexts' \in [Ctx -> Request \cup {None}]
      /\ \A y \in Ctx \ {x} : contexts'[y] = contexts[y]
  BY <1>2, <1>7
<1>9. ASSUME NEW o \in Request \ {r}, req[o].state = "serving"
      PROVE req[o].ctx \in Ctx \ {x} /\ Keyed(req[o], o, contexts')
  <2>1. req[o].ctx \in Ctx \ {x} /\ Keyed(req[o], o, contexts)
    BY <1>2, <1>9 DEF WebInv
  <2>2. contexts'[req[o].ctx] = contexts[req[o].ctx]
    BY <1>8, <2>1
  <2> QED
    BY <2>1, <2>2 DEF Keyed
<1>10. RequestInv(p, hasLogger')
  BY <1>5 DEF RequestInv
<1>11. \A o \in Request : /\ RequestInv(req'[o], hasLogger')
                          /\ req'[o].state = "serving" => /\ req'[o].ctx \in Ctx
                                                          /\ Keyed(req'[o], o, contexts')
  <2>1. \A o \in Request \ {r} : RequestInv(req'[o], hasLogger')
    BY <1>7 DEF WebInv
  <2> QED
    BY <1>5, <1>7, <1>9, <1>10, <2>1
<1>12. \A o, u \in Request : o # u /\ req'[o].state = "serving" /\ req'[u].state = "serving" =>
                                 req'[o].ctx # req'[u].ctx
  <2>1. ASSUME NEW o \in Request \ {r}, NEW u \in Request \ {r}, o # u,
               req'[o].state = "serving", req'[u].state = "serving"
        PROVE req'[o].ctx # req'[u].ctx
    BY <1>7, <2>1 DEF WebInv
  <2> QED
    BY <1>5, <1>7, <1>9, <2>1
<1>15. ASSUME NEW y \in Ctx, contexts'[y] # None
       PROVE Held(req'[contexts'[y]], y)
  <2>1. contexts'[y] = contexts[y]
    BY <1>2, <1>7, <1>15
  <2>2. contexts[y] \in Request /\ Held(req[contexts[y]], y)
    BY <1>7, <1>15, <2>1 DEF WebInv, UsersHeld
  <2>3. contexts[y] # r
    BY <1>2, <2>2 DEF Held
  <2> QED
    BY <1>7, <2>1, <2>2, <2>3
<1>16. UsersHeld(req', contexts')
  BY <1>15 DEF UsersHeld
<1> QED
  BY <1>7, <1>8, <1>11, <1>12, <1>16 DEF WebInv

\* What the state that WebInv describes means for the requests.
LEMMA WebSuffices == WebInv => HandlersRunInOrder /\ PanicsAreAnswered
<1> SUFFICES ASSUME WebInv PROVE HandlersRunInOrder /\ PanicsAreAnswered
  OBVIOUS
<1>1. ASSUME NEW r \in Request
      PROVE  /\ req[r] \in RequestType /\ RequestInv(req[r], hasLogger)
             /\ req[r].state \in {"new", "serving", "done", "aborted"}
             /\ DOMAIN req[r].entered = 1..Len(req[r].entered)
             /\ Called(req[r])
             /\ req[r].state \in {"done", "aborted"} => Served(req[r], hasLogger)
  <2>1. req[r] \in RequestType /\ RequestInv(req[r], hasLogger)
    BY DEF WebInv
  <2>2. /\ req[r].state \in {"new", "serving", "done", "aborted"}
        /\ DOMAIN req[r].entered = 1..Len(req[r].entered)
    BY <2>1 DEF RequestType
  <2> QED
    BY <2>1, <2>2 DEF RequestInv, Serving, Served
<1>2. PanicsAreAnswered
  BY <1>1 DEF PanicsAreAnswered, Called, Served, Panicking
<1>3. ASSUME NEW r \in Request, NEW q, q = req[r], at(r, "handler", {"start", "back"}), q.known,
             NEW i \in 1..Len(q.entered), q.handlers[i] = "basicAuth"
      PROVE  contexts[q.ctx] = r
  <2>1. q.handlers[Last(q.stack).handler] = "handler" /\ Keyed(q, r, contexts)
    BY <1>3, AtFacts
  <2>2. q.handlers[Last(q.stack).handler] # "basicAuth"
    BY <2>1
  <2>3. Settled(q, r, contexts)
    BY <1>1, <1>3, <2>1, <2>2, Settles
  <2> QED
    BY <1>3, <2>3 DEF Settled
<1>4. ASSUME NEW r \in Request, NEW q, q = req[r], at(r, "handler", {"start", "back"}),
             NEW user, user = contexts[q.ctx], user # None
      PROVE  /\ req[user].known /\ req[user].ctx = q.ctx
             /\ user = r \/ req[user].state \in {"done", "aborted"}
  <2>1. q.state = "serving" /\ q.ctx \in Ctx
    BY <1>4, AtFacts
  <2>2. user \in Request /\ Held(req[user], q.ctx)
    BY <1>4, <2>1 DEF WebInv, UsersHeld
  <2>3. user # r => req[user].state # "serving"
    BY <1>4, <2>1, <2>2 DEF WebInv, Held
  <2> QED
    BY <1>1, <2>2, <2>3 DEF Held
<1>5. HandlersRunInOrder
  <2> SUFFICES ASSUME NEW r \in Request
               PROVE
        LET q == req[r]
            passedAuth == \E i \in DOMAIN q.entered : q.handlers[i] = "basicAuth"
            user == contexts[q.ctx]
        IN /\ \A i \in DOMAIN q.entered : q.entered[i] = i
           /\ q.aborted # 0 => Len(q.entered) = q.aborted
           /\ q.state = "done" /\ q.aborted = 0 /\ (passedAuth => q.known) =>
                Len(q.entered) = Len(q.handlers)
           /\ at(r, "handler", {"start", "back"}) =>
                /\ q.known /\ passedAuth => user = r
                /\ user # None => /\ req[user].known /\ req[user].ctx = q.ctx
                                  /\ user = r \/ req[user].state \in {"done", "aborted"}
    BY DEF HandlersRunInOrder
  <2>1. PICK q : q = req[r]
    OBVIOUS
  <2>2. PICK user : user = contexts[q.ctx]
    OBVIOUS
  <2>3. /\ \A i \in DOMAIN q.entered : q.entered[i] = i
        /\ q.aborted # 0 => Len(q.entered) = q.aborted
        /\ q.state = "done" /\ q.aborted = 0 => Len(q.entered) = Len(q.handlers)
    BY <1>1, <2>1 DEF Called, Served
  <2>4. at(r, "handler", {"start", "back"}) =>
          /\ q.known /\ (\E i \in DOMAIN q.entered : q.handlers[i] = "basicAuth") => user = r
          /\ user # None => /\ req[user].known /\ req[user].ctx = q.ctx
                            /\ user = r \/ req[user].state \in {"done", "aborted"}
    BY <1>1, <1>3, <1>4, <2>1, <2>2
  <2> QED
    BY <2>1, <2>2, <2>3, <2>4
<1> QED
  BY <1>2, <1>5
----------------------------------------------------------------------------
(* The application *)

\* A transaction runs on the stack of the request's handler.
Inside(r) ==
    session[r].at # "none" =>
        /\ req[r].state = "serving" /\ req[r].stack # <<>>
        /\ req[r].handlers[Last(req[r].stack).handler] = "handler"

\* The inductive invariant of the safety properties.
AppInv == OrmInv /\ WebInv /\ \A r \in Request : Inside(r)

\* It holds when the program starts.
LEMMA AppStarts == Init => AppInv
<1> SUFFICES ASSUME Init PROVE AppInv
  OBVIOUS
<1>1. OrmInv
  BY OrmStarts DEF Init
<1>2. newRequest \in RequestType
  <2>1. newRequest.path \in Paths
    BY AppAssumption DEF newRequest
  <2>2. /\ <<>> \in Seq(Kind) /\ <<>> \in Seq(Frame) /\ <<>> \in Seq(Nat)
        /\ None \in Ctx \cup {None} /\ "none" \in Panics \cup {"none"}
        /\ "new" \in {"new", "serving", "done", "aborted"}
    OBVIOUS
  <2> QED
    BY <2>1, <2>2 DEF newRequest, RequestType
<1>3. RequestInv(newRequest, hasLogger) /\ newRequest.state = "new"
  <2>1. /\ newRequest.state = "new" /\ newRequest.handlers = <<>> /\ newRequest.index = 0
        /\ newRequest.entered = <<>> /\ newRequest.aborted = 0 /\ newRequest.raised = "none"
        /\ Len(<<>>) = 0
    BY DEF newRequest
  <2> QED
    BY <2>1 DEF RequestInv, Called
<1>4. WebInv
  <2>1. req = [r \in Request |-> newRequest] /\ contexts = [x \in Ctx |-> None]
    BY DEF Init, WebInit
  <2>2. config \in Config /\ groups = config.groups
    BY DEF Init
  <2>3. UsersHeld(req, contexts)
    BY <2>1 DEF UsersHeld
  <2> QED
    BY <1>2, <1>3, <2>1, <2>2, <2>3 DEF WebInv
<1>5. \A r \in Request : session[r].at = "none"
  BY AppAssumption DEF Init, OrmInit, newSession
<1> QED
  BY <1>1, <1>4, <1>5 DEF AppInv, Inside

\* A step of a request leaves the others alone.
LEMMA WebAlone ==
    ASSUME WebInv, NEW r \in Request, serves(r), NEW o \in Request \ {r}
    PROVE req'[o] = req[o]
<1>1. req \in [Request -> RequestType]
  BY DEF WebInv
<1>2. CASE \E q : req' = [req EXCEPT ![r] = q]
  BY <1>1, <1>2
<1>3. ASSUME NEW q, does(r, q) PROVE \E p : req' = [req EXCEPT ![r] = p]
  BY <1>3 DEF does
<1>4. CASE arrives(r)
  BY <1>1, <1>4 DEF arrives, ServeHTTP
<1>5. CASE webStep(r)
  <2>1. CASE serveReturns(r)
    BY <1>1, <2>1 DEF serveReturns
  <2>2. CASE Logger(r)
    BY <1>2, <1>3, <2>2 DEF Logger
  <2>3. CASE BasicAuth(r)
    BY <1>2, <1>3, <2>3 DEF BasicAuth
  <2>4. CASE AuthInterceptor(r)
    BY <1>2, <1>3, <2>4 DEF AuthInterceptor
  <2>5. CASE notFound(r)
    BY <1>2, <1>3, <2>5 DEF notFound
  <2>6. CASE unwind(r)
    BY <1>2, <1>3, <2>6 DEF unwind
  <2> QED
    BY <1>5, <2>1, <2>2, <2>3, <2>4, <2>5, <2>6 DEF webStep
<1>6. CASE \E given : handles(r, given)
  BY <1>2, <1>3, <1>6 DEF handles
<1>7. CASE \E p : handlerPanics(r, p)
  BY <1>1, <1>7 DEF handlerPanics
<1> QED
  BY <1>4, <1>5, <1>6, <1>7 DEF serves

\* So does a step of a session.
LEMMA OrmAlone ==
    ASSUME OrmInv, NEW s \in Session, NEW u \in Session \ {s},
           f(s) \/ (\E e \in BOOLEAN : ends(s, e)) \/ endsMissing(s)
    PROVE session'[u] = session[u]
<1>1. session \in [Session -> SessionType]
  BY DEF OrmInv, OrmTypes
<1>2. ASSUME NEW new, sessionIs(s, new) PROVE session'[u] = session[u]
  BY <1>1, <1>2 DEF sessionIs
<1>3. CASE begins(s)
  BY <1>2, <1>3 DEF begins, Begin
<1>4. CASE \/ Model(s) \/ \E c \in config.clauses : setClause(s, c)
           \/ \E e \in BOOLEAN : returnsErr(s, e)
  BY <1>2, <1>4 DEF Model, setClause, returnsErr
<1>5. CASE \E kind \in Statement : statement(s, kind)
  BY <1>2, <1>5 DEF statement
<1>6. CASE ownTransaction(s)
  BY <1>2, <1>6 DEF ownTransaction, Begin, Rollback, Commit
<1>7. CASE (\E e \in BOOLEAN : ends(s, e)) \/ endsMissing(s)
  BY <1>2, <1>7 DEF ends, endsMissing, Rollback, Commit
<1> QED
  BY <1>3, <1>4, <1>5, <1>6, <1>7 DEF f

\* The handler panics: the sessions stay as they are.
LEMMA PanicsSteps ==
    ASSUME AppInv, NEW r \in Request, NEW e \in Panics,
           UNCHANGED <<config, groups, hasLogger, contexts>>,
           req[r].state = "serving", req[r].stack # <<>>,
           req[r].handlers[Last(req[r].stack).handler] = "handler",
           req' = [req EXCEPT ![r].panic = e, ![r].raised = e]
    PROVE /\ WebInv' /\ \A o \in Request \ {r} : req'[o] = req[o]
          /\ req'[r].state = "serving" /\ req'[r].stack = req[r].stack
          /\ req'[r].handlers = req[r].handlers
<1>1. req \in [Request -> RequestType] /\ WebInv
  BY DEF AppInv, WebInv
<1>2. PICK p : p = [req[r] EXCEPT !.panic = e, !.raised = e]
  OBVIOUS
<1>3. req' = [req EXCEPT ![r] = p]
  BY <1>1, <1>2
<1>4. WebInv'
  BY <1>1, <1>2, <1>3, PanicSteps, ZenonT(30)
<1>5. p.state = req[r].state /\ p.stack = req[r].stack /\ p.handlers = req[r].handlers
  BY <1>1, <1>2 DEF RequestType
<1> QED
  BY <1>1, <1>3, <1>4, <1>5

\* A step of a request keeps it, outside of a transaction,
LEMMA ServesSteps ==
    ASSUME AppInv, NEW r \in Request, serves(r),
           UNCHANGED <<config, groups, hasLogger, hooks>>
    PROVE AppInv'
<1>1. OrmInv /\ WebInv /\ session[r].at = "none" /\ UNCHANGED ormvars
  BY DEF AppInv, serves
<1>2. OrmInv'
  BY <1>1 DEF OrmInv, OrmTypes, Transacts, Clauses
<1>3. WebInv'
  <2>1. CASE arrives(r)
    BY <1>1, <2>1, ServeHTTPSteps DEF arrives
  <2>2. CASE webStep(r)
    <3>1. CASE serveReturns(r)
      BY <1>1, <3>1, ServeReturnsSteps
    <3>2. CASE Logger(r)
      BY <1>1, <3>2, LoggerSteps
    <3>3. CASE BasicAuth(r)
      BY <1>1, <3>3, BasicAuthSteps
    <3>4. CASE AuthInterceptor(r)
      BY <1>1, <3>4, AuthInterceptorSteps
    <3>5. CASE notFound(r)
      BY <1>1, <3>5, NotFoundSteps
    <3>6. CASE unwind(r)
      BY <1>1, <3>6, UnwindSteps
    <3> QED
      BY <2>2, <3>1, <3>2, <3>3, <3>4, <3>5, <3>6 DEF webStep
  <2>3. CASE handles(r, config.calls)
    <3>1. PICK given : given = config.calls
      OBVIOUS
    <3> QED
      BY <1>1, <2>3, <3>1, HandlerSteps
  <2>4. ASSUME NEW e \in config.panics, handlerPanics(r, e) PROVE WebInv'
    <3>1. e \in Panics
      BY <1>1, AppAssumption DEF WebInv
    <3>2. /\ req[r].state = "serving" /\ req[r].stack # <<>>
          /\ req[r].handlers[Last(req[r].stack).handler] = "handler"
          /\ req' = [req EXCEPT ![r].panic = e, ![r].raised = e] /\ UNCHANGED contexts
      BY <2>4 DEF handlerPanics, at, top
    <3> QED
      BY <3>1, <3>2, PanicsSteps
  <2> QED
    BY <2>1, <2>2, <2>3, <2>4 DEF serves
<1>4. \A o \in Request : Inside(o)'
  <2>1. ASSUME NEW o \in Request \ {r} PROVE Inside(o)'
    <3>1. req'[o] = req[o] /\ session'[o] = session[o]
      BY <1>1, WebAlone
    <3> QED
      BY <3>1 DEF AppInv, Inside
  <2> QED
    BY <1>1, <2>1 DEF Inside
<1> QED
  BY <1>2, <1>3, <1>4 DEF AppInv

\* inside of one,
LEMMA TransactsSteps ==
    ASSUME AppInv, NEW r \in Request, transacts(r),
           UNCHANGED <<config, groups, hasLogger, hooks>>
    PROVE AppInv'
<1>1. OrmInv /\ WebInv /\ r \in Session /\ config \in Config
  BY AppAssumption DEF AppInv, WebInv
<1>2. /\ req[r].state = "serving" /\ req[r].stack # <<>>
      /\ req[r].handlers[Last(req[r].stack).handler] = "handler"
  BY DEF transacts, at, top
<1>3. CASE f(r) /\ UNCHANGED <<req, pool, contexts>>
  <2>1. WebInv'
    BY <1>1, <1>3 DEF WebInv
  <2>2. OrmInv'
    <3>1. CASE begins(r)
      BY <1>1, <3>1, BeginSteps
    <3>2. CASE \/ Model(r) \/ \E c \in config.clauses : setClause(r, c)
               \/ \E e \in BOOLEAN : returnsErr(r, e)
      <4>1. config.clauses \subseteq Clause
        BY <1>1, AppAssumption
      <4> QED
        BY <1>1, <3>2, <4>1, ClauseSteps
    <3>3. CASE \E kind \in Statement : statement(r, kind)
      BY <1>1, <3>3, StatementSteps
    <3>4. CASE ownTransaction(r)
      BY <1>1, <3>4, OwnSteps
    <3> QED
      BY <1>3, <3>1, <3>2, <3>3, <3>4 DEF f
  <2>3. \A o \in Request : Inside(o)'
    <3>1. ASSUME NEW o \in Request \ {r} PROVE Inside(o)'
      <4>1. session'[o] = session[o]
        BY <1>1, <1>3, AppAssumption, OrmAlone
      <4> QED
        BY <1>3, <4>1 DEF AppInv, Inside
    <3> QED
      BY <1>2, <1>3, <3>1 DEF Inside
  <2> QED
    BY <2>1, <2>2, <2>3 DEF AppInv
<1>4. ASSUME NEW e \in Panics, panics(r, e) PROVE AppInv'
  <2>1. /\ req' = [req EXCEPT ![r].panic = e, ![r].raised = e]
        /\ UNCHANGED <<contexts, session, tx, stored, outcome>>
    BY <1>4 DEF panics, handlerPanics
  <2>2. /\ WebInv' /\ \A o \in Request \ {r} : req'[o] = req[o]
        /\ req'[r].state = "serving" /\ req'[r].stack = req[r].stack
        /\ req'[r].handlers = req[r].handlers
    BY <1>2, <2>1, PanicsSteps
  <2>3. OrmInv'
    BY <1>1, <2>1 DEF OrmInv, OrmTypes, Transacts, Clauses
  <2>4. ASSUME NEW o \in Request PROVE Inside(o)'
    <3>1. Inside(o) /\ session' = session
      BY <2>1 DEF AppInv
    <3>2. /\ req'[o].state = "serving" <=> req[o].state = "serving"
          /\ req'[o].stack = req[o].stack /\ req'[o].handlers = req[o].handlers
      BY <1>4, <2>2 DEF panics, handlerPanics, at
    <3> QED
      BY <3>1, <3>2 DEF Inside
  <2> QED
    BY <2>2, <2>3, <2>4 DEF AppInv
<1>5. config.panics \subseteq Panics /\ "error" \in Panics
  BY <1>1, AppAssumption DEF Panics
<1> QED
  BY <1>3, <1>4, <1>5 DEF transacts

\* and when the transaction ends.
LEMMA LeavesSteps ==
    ASSUME AppInv, NEW r \in Request, leaves(r),
           UNCHANGED <<config, groups, hasLogger, hooks>>
    PROVE AppInv'
<1>1. OrmInv /\ WebInv /\ r \in Session /\ session[r].at # "none"
  BY AppAssumption DEF AppInv, leaves, inF
<1>2. /\ req[r].state = "serving" /\ req[r].stack # <<>>
      /\ req[r].handlers[Last(req[r].stack).handler] = "handler"
  BY <1>1 DEF AppInv, Inside
<1>3. PICK e \in BOOLEAN : e = (req[r].panic \notin {"none", "goexit"})
  OBVIOUS
<1>4. (ends(r, e) /\ UNCHANGED req) \/ endsMissing(r)
  BY <1>3 DEF leaves
<1>5. OrmInv'
  BY <1>1, <1>4, EndSteps
<1>6. \A o \in Request \ {r} : session'[o] = session[o]
  BY <1>1, <1>4, AppAssumption, OrmAlone
<1>7. /\ WebInv' /\ \A o \in Request \ {r} : req'[o] = req[o]
      /\ req'[r].state = "serving" /\ req'[r].stack = req[r].stack
      /\ req'[r].handlers = req[r].handlers
  <2>1. CASE UNCHANGED req
    <3>1. UNCHANGED contexts
      BY DEF leaves
    <3> QED
      BY <1>1, <1>2, <2>1, <3>1 DEF WebInv
  <2>2. CASE req' = [req EXCEPT ![r].panic = "error", ![r].raised = "error"]
    <3>1. PICK p \in Panics : p = "error"
      BY DEF Panics
    <3>2. UNCHANGED contexts
      BY DEF leaves
    <3> QED
      BY <1>2, <2>2, <3>1, <3>2, PanicsSteps
  <2> QED
    BY <2>1, <2>2 DEF leaves
<1>8. \A o \in Request : Inside(o)'
  BY <1>2, <1>6, <1>7 DEF AppInv, Inside
<1> QED
  BY <1>5, <1>7, <1>8 DEF AppInv

\* Every step keeps it.
LEMMA AppSteps == AppInv /\ [Next]_vars => AppInv'
<1> SUFFICES ASSUME AppInv, [Next]_vars PROVE AppInv'
  OBVIOUS
<1>1. ASSUME NEW r \in Request, serves(r) \/ transacts(r) \/ leaves(r),
             UNCHANGED <<config, groups, hasLogger, hooks>>
      PROVE AppInv'
  BY <1>1, ServesSteps, TransactsSteps, LeavesSteps
<1>2. CASE UNCHANGED <<config, webvars, hooks, ormvars>>
  <2>1. OrmInv' /\ WebInv'
    BY <1>2 DEF AppInv, OrmInv, OrmTypes, Transacts, Clauses, WebInv
  <2>2. \A o \in Request : Inside(o)'
    BY <1>2 DEF AppInv, Inside
  <2> QED
    BY <2>1, <2>2 DEF AppInv
<1>3. config.requests \subseteq Request
  BY AppAssumption DEF AppInv, WebInv
<1> QED
  BY <1>1, <1>2, <1>3 DEF Next, registers

\* The invariant of a program: its sessions, its requests, and where a transaction runs.
THEOREM AppInvariant == Spec => []AppInv
  BY AppStarts, AppSteps, PTL DEF Spec

\* A Transaction whose function leaves Begin, Commit and Rollback alone stores all
\* of its changes when it returns nil and none of them after an error or a panic,
\* and leaves no transaction open (raw.go, psyorm.go).
THEOREM TransactionsAreAtomic == Spec => []TransactionAllOrNothing
<1>1. AppInv => TransactionAllOrNothing
  BY OrmSuffices DEF AppInv
<1> QED
  BY <1>1, AppInvariant, PTL

\* Each statement is built from the clauses that were given for it, unless hooks
\* run statements of their own (clause.go, record.go).
THEOREM StatementsAreBuiltAsGiven == Spec => []StatementHasItsClauses
<1>1. AppInv => StatementHasItsClauses
  BY OrmSuffices DEF AppInv
<1> QED
  BY <1>1, AppInvariant, PTL

\* The handlers of each request run in the order of their chain, each one once,
\* until one aborts, and the handler finds the user that BasicAuth let pass in its
\* own context, whatever the middlewares and the handlers call (context.go).
THEOREM ChainsRunInOrder == Spec => []HandlersRunInOrder
<1>1. AppInv => HandlersRunInOrder
  BY WebSuffices DEF AppInv
<1> QED
  BY <1>1, AppInvariant, PTL

\* A panic with an error or a PsyError under a Recovery never reaches the server of
\* net/http, and a request that ended after an error was sent a status (recovery.go).
THEOREM PanicsEndInRecovery == Spec => []PanicsAreAnswered
<1>1. AppInv => PanicsAreAnswered
  BY WebSuffices DEF AppInv
<1> QED
  BY <1>1, AppInvariant, PTL
----------------------------------------------------------------------------
(* Types *)

\* The statuses that the code sends.
Status == {0, 200, 400, 401, 404, 500}

\* Each status is one that the code writes; only a request that is served has a stack.
Answered(q) == q.sent \in Status /\ (q.state # "serving" => q.stack = <<>>)

\* The types of the web engine that WebInv does not give.
WebTypes == pool \subseteq Ctx /\ \A r \in Request : Answered(req[r])

\* A record with the fields of a request, whatever they are.
IsRequest(q) ==
    q = [state |-> q.state, path |-> q.path, known |-> q.known, ctx |-> q.ctx,
         handlers |-> q.handlers, index |-> q.index, stack |-> q.stack, panic |-> q.panic,
         sent |-> q.sent, entered |-> q.entered, aborted |-> q.aborted, raised |-> q.raised]

LEMMA RequestFields ==
    ASSUME NEW q \in RequestType
    PROVE IsRequest(q)
  BY DEF RequestType, IsRequest

LEMMA ProceedSends ==
    ASSUME NEW q, IsRequest(q), NEW frames, NEW p, p = proceed(q, frames)
    PROVE IsRequest(p) /\ p.state = q.state /\ p.sent = q.sent
<1> DEFINE i == IF q.index > Len(q.handlers) THEN q.index ELSE q.index + 1
           back == IF frames = <<>> THEN <<>>
                   ELSE Append(Front(frames), [Last(frames) EXCEPT !.at = "back"])
           called == Append(frames, [handler |-> i, at |-> "start"])
           entered == Append(q.entered, i)
<1>1. \/ p = [q EXCEPT !.index = i, !.stack = called, !.entered = entered]
      \/ p = [q EXCEPT !.index = i, !.stack = back]
  BY DEF proceed, IsRequest
<1> HIDE DEF i, back, called, entered
<1> QED
  BY <1>1 DEF IsRequest

LEMMA WriteSends ==
    ASSUME NEW q, IsRequest(q), NEW code, NEW p, p = write(q, code)
    PROVE IsRequest(p) /\ p.state = q.state /\ p.sent = IF q.sent = 0 THEN code ELSE q.sent
<1> DEFINE sent == IF q.sent = 0 THEN code ELSE q.sent
<1>1. p = [q EXCEPT !.sent = sent]
  BY DEF write, IsRequest
<1> HIDE DEF sent
<1>2. IsRequest(p) /\ p.state = q.state /\ p.sent = sent
  BY <1>1 DEF IsRequest
<1> QED
  BY <1>2 DEF sent

LEMMA AbortSends ==
    ASSUME NEW q, IsRequest(q), NEW p, p = abort(q)
    PROVE IsRequest(p) /\ p.state = q.state /\ p.sent = q.sent
<1> DEFINE n == Len(q.handlers) + 1
           a == IF q.aborted = 0 THEN Len(q.entered) ELSE q.aborted
<1>1. p = [[q EXCEPT !.aborted = a] EXCEPT !.index = n]
  BY DEF abort, abortNothing, IsRequest
<1> HIDE DEF n, a
<1> QED
  BY <1>1 DEF IsRequest

\* A step of the request that is served.
Sends(p, q) == IsRequest(p) /\ p.state = q.state /\ p.sent \in Status

LEMMA SendsWhat ==
    ASSUME NEW q, IsRequest(q), q.sent \in Status
    PROVE /\ Sends(callNext(q), q) /\ Sends(returns(q), q) /\ Sends(abort(q), q)
          /\ \A code \in Status : Sends(write(q, code), q)
<1>1. Sends(callNext(q), q) /\ Sends(returns(q), q)
  BY ProceedSends DEF callNext, returns, Sends
<1>2. Sends(abort(q), q)
  BY AbortSends DEF Sends
<1>3. ASSUME NEW code \in Status PROVE Sends(write(q, code), q)
  BY WriteSends DEF Sends
<1> QED
  BY <1>1, <1>2, <1>3

LEMMA SendsThen ==
    ASSUME NEW o, NEW q, Sends(q, o), NEW p, Sends(p, q)
    PROVE Sends(p, o)
  BY DEF Sends

\* A request that is served takes a step: what is left to show of it.
LEMMA AnsweredLocal ==
    ASSUME req \in [Request -> RequestType], WebTypes, NEW r \in Request,
           NEW p, Answered(p), req' = [req EXCEPT ![r] = p], pool' \subseteq Ctx
    PROVE WebTypes'
  BY DEF WebTypes, Answered

LEMMA SendsLocal ==
    ASSUME req \in [Request -> RequestType], WebTypes, NEW r \in Request,
           req[r].state = "serving", NEW p, Sends(p, req[r]), does(r, p)
    PROVE WebTypes'
<1>1. Answered(p)
  BY DEF Answered, Sends
<1>2. req' = [req EXCEPT ![r] = p] /\ pool' \subseteq Ctx
  BY DEF does, WebTypes
<1> QED
  BY <1>1, <1>2, AnsweredLocal

\* The handlers of a chain, and the end of a panic.
LEMMA ChainKeepsTypes ==
    ASSUME WebInv, WebTypes, NEW r \in Request,
           \/ Logger(r) \/ BasicAuth(r) \/ AuthInterceptor(r) \/ notFound(r)
           \/ \E given : handles(r, given)
    PROVE WebTypes'
<1> DEFINE q == req[r]
<1>1. req \in [Request -> RequestType] /\ IsRequest(q) /\ q.sent \in Status
  BY RequestFields DEF WebInv, WebTypes, Answered
<1>2. q.state = "serving"
  BY DEF Logger, BasicAuth, AuthInterceptor, notFound, handles, at
<1>3. ASSUME NEW p, Sends(p, q), does(r, p) PROVE WebTypes'
  BY <1>1, <1>2, <1>3, SendsLocal
<1> HIDE DEF q
<1>4. /\ Sends(callNext(q), q) /\ Sends(returns(q), q) /\ Sends(abort(q), q)
      /\ \A code \in {200, 400, 401, 404} : Sends(write(q, code), q)
  BY <1>1, SendsWhat DEF Status
<1>5. ASSUME NEW u, Sends(u, q)
      PROVE /\ Sends(returns(u), q) /\ Sends(abort(u), q)
            /\ \A code \in {200, 400, 401, 404} : Sends(write(u, code), q)
  <2>1. IsRequest(u) /\ u.sent \in Status
    BY <1>5 DEF Sends
  <2>2. /\ Sends(returns(u), u) /\ Sends(abort(u), u)
        /\ \A code \in {200, 400, 401, 404} : Sends(write(u, code), u)
    BY <2>1, SendsWhat DEF Status
  <2> QED
    BY <1>5, <2>2, SendsThen
<1>6. CASE Logger(r)
  BY <1>3, <1>4, <1>6 DEF Logger, q
<1>7. CASE BasicAuth(r)
  <2>1. Sends(returns(write(q, 401)), q)
    BY <1>4, <1>5
  <2> QED
    BY <1>3, <1>4, <1>7, <2>1 DEF BasicAuth, q
<1>8. CASE AuthInterceptor(r)
  <2>1. Sends(returns(abort(write(q, 401))), q)
    BY <1>4, <1>5
  <2> QED
    BY <1>3, <1>4, <1>8, <2>1 DEF AuthInterceptor, q
<1>9. CASE notFound(r)
  <2>1. Sends(returns(write(q, 404)), q)
    BY <1>4, <1>5
  <2> QED
    BY <1>3, <1>9, <2>1 DEF notFound, q
<1>10. ASSUME NEW given, handles(r, given) PROVE WebTypes'
  <2>1. Sends(abort(write(q, 200)), q) /\ Sends(write(abort(q), 400), q)
    BY <1>4, <1>5
  <2> QED
    BY <1>3, <1>4, <1>10, <2>1 DEF handles, Fail, q
<1> QED
  BY <1>6, <1>7, <1>8, <1>9, <1>10

LEMMA UnwindKeepsTypes ==
    ASSUME WebInv, WebTypes, NEW r \in Request, unwind(r)
    PROVE WebTypes'
<1> DEFINE q == req[r]
           popped == [q EXCEPT !.stack = Front(@)]
           recovered == [q EXCEPT !.panic = "none"]
<1>1. req \in [Request -> RequestType] /\ IsRequest(q) /\ q.sent \in Status
  BY RequestFields DEF WebInv, WebTypes, Answered
<1>2. q.state = "serving"
  BY DEF unwind
<1>3. ASSUME NEW p, Sends(p, q), does(r, p) PROVE WebTypes'
  BY <1>1, <1>2, <1>3, SendsLocal
<1>4. Sends(popped, q) /\ Sends([popped EXCEPT !.panic = "error"], q) /\ Sends(recovered, q)
  <2>1. PICK s : s = Front(q.stack)
    OBVIOUS
  <2> DEFINE p == [q EXCEPT !.stack = s]
  <2>2. Sends(p, q) /\ Sends([p EXCEPT !.panic = "error"], q)
    <3> HIDE DEF q
    <3>1. Sends(p, q)
      BY <1>1 DEF IsRequest, Sends
    <3> HIDE DEF p
    <3>2. Sends([p EXCEPT !.panic = "error"], p)
      BY <3>1 DEF IsRequest, Sends
    <3> QED
      BY <3>1, <3>2, SendsThen
  <2>3. Sends(recovered, q)
    <3> HIDE DEF q
    <3> QED
      BY <1>1 DEF IsRequest, Sends
  <2>4. popped = p
    BY <1>1, <2>1 DEF IsRequest
  <2> HIDE DEF popped, p, recovered
  <2> QED
    BY <2>2, <2>3, <2>4
<1>5. ASSUME NEW u, Sends(u, q)
      PROVE /\ Sends(returns(u), q) /\ Sends(abort(u), q)
            /\ Sends(write(u, 400), q) /\ Sends(write(u, 500), q)
  <2>1. IsRequest(u) /\ u.sent \in Status
    BY <1>5 DEF Sends
  <2>2. /\ Sends(returns(u), u) /\ Sends(abort(u), u)
        /\ \A code \in {400, 500} : Sends(write(u, code), u)
    BY <2>1, SendsWhat DEF Status
  <2> QED
    BY <1>5, <2>2, SendsThen
<1> HIDE DEF popped, recovered
<1>6. \A answered \in {recovered, write(recovered, 400)} : Sends(returns(abort(answered)), q)
  BY <1>4, <1>5
<1>7. Sends(returns(Fail(recovered, 500)), q)
  BY <1>4, <1>5 DEF Fail
<1>8. CASE q.stack = <<>> /\ does(r, [q EXCEPT !.state = "aborted"])
  <2>1. Answered([q EXCEPT !.state = "aborted"])
    BY <1>1, <1>8 DEF IsRequest, Answered
  <2> QED
    BY <1>1, <1>8, <2>1, AnsweredLocal DEF does, WebTypes
<1>9. \/ q.stack = <<>> /\ does(r, [q EXCEPT !.state = "aborted"])
      \/ does(r, popped) \/ does(r, [popped EXCEPT !.panic = "error"])
      \/ \E answered \in {recovered, write(recovered, 400)} : does(r, returns(abort(answered)))
      \/ does(r, returns(Fail(recovered, 500)))
  BY DEF unwind, popped, recovered
<1> QED
  BY <1>3, <1>4, <1>6, <1>7, <1>8, <1>9

\* A context comes from the pool and goes back to it.
LEMMA ServeKeepsTypes ==
    ASSUME WebInv, WebTypes, NEW r \in Request,
           \/ serveReturns(r)
           \/ \E x \in Ctx : \E path, known : ServeHTTP(r, x, path, known)
    PROVE WebTypes'
<1>1. req \in [Request -> RequestType] /\ Answered(req[r]) /\ pool \subseteq Ctx
  BY DEF WebInv, WebTypes
<1>2. CASE serveReturns(r)
  <2>1. PICK p : p = [req[r] EXCEPT !.state = "done"]
    OBVIOUS
  <2>2. Answered(p) /\ req' = [req EXCEPT ![r] = p]
    <3>1. p.sent = req[r].sent /\ p.stack = req[r].stack
      BY <1>1, <2>1 DEF RequestType
    <3> QED
      BY <1>1, <1>2, <2>1, <3>1 DEF serveReturns, Answered
  <2>3. pool' \subseteq Ctx
    <3>1. req[r].ctx \in Ctx
      BY <1>2 DEF WebInv, serveReturns
    <3> QED
      BY <1>1, <1>2, <3>1 DEF serveReturns
  <2> QED
    BY <1>1, <2>2, <2>3, AnsweredLocal
<1>3. ASSUME NEW x \in Ctx, NEW path, NEW known, ServeHTTP(r, x, path, known)
      PROVE WebTypes'
  <2> DEFINE last == IF getRoute(path).handler = 0 THEN "notFound" ELSE "handler"
             chain == Append(middlewares(groups, path), last)
  <2>1. PICK q : q = [newRequest EXCEPT !.state = "serving", !.path = path, !.known = known,
                         !.ctx = x, !.handlers = chain]
    OBVIOUS
  <2>2. PICK p : p = proceed(q, <<>>)
    OBVIOUS
  <2>3. req' = [req EXCEPT ![r] = p] /\ pool' \subseteq Ctx
    BY <1>1, <1>3, <2>1, <2>2 DEF ServeHTTP
  <2> HIDE DEF chain
  <2>4. IsRequest(q) /\ q.state = "serving" /\ q.sent = 0
    BY <2>1 DEF newRequest, IsRequest
  <2>5. Answered(p)
    BY <2>2, <2>4, ProceedSends DEF Answered, Status
  <2> QED
    BY <1>1, <2>3, <2>5, AnsweredLocal
<1> QED
  BY <1>2, <1>3

\* A handler panics, in a transaction or out of it.
LEMMA RaisesKeepsTypes ==
    ASSUME WebInv, WebTypes, NEW r \in Request, req[r].state = "serving", NEW e,
           req' = [req EXCEPT ![r].panic = e, ![r].raised = e], UNCHANGED pool
    PROVE WebTypes'
<1>1. req \in [Request -> RequestType] /\ IsRequest(req[r]) /\ Answered(req[r])
  BY RequestFields DEF WebInv, WebTypes
<1>2. PICK p : p = [req[r] EXCEPT !.panic = e, !.raised = e]
  OBVIOUS
<1>3. req' = [req EXCEPT ![r] = p]
  BY <1>1, <1>2
<1>4. Answered(p)
  BY <1>1, <1>2 DEF IsRequest, Answered
<1> QED
  BY <1>1, <1>3, <1>4, AnsweredLocal DEF WebTypes

\* What a function has stored, and could with its transaction, it has done; and it
\* has made no more changes than statements.
Bounded(s) ==
    LET q == session[s]
    IN /\ Len(tx[s]) <= 2 /\ q.count <= MaxStatements /\ q.done <= MaxStatements
       /\ q.at # "none" => q.done <= q.count
       /\ \A t \in 1..Len(tx[s]) : tx[s][t].changes <= q.done
       /\ stored[s] <= q.done
       /\ open(s) => stored[s] + tx[s][q.tx].changes <= q.done

\* The bounds of all sessions.
OrmBounds == \A s \in Session : Bounded(s)

LEMMA BoundedLocal ==
    ASSUME OrmBounds, NEW s \in Session, Bounded(s)',
           \A u \in Session \ {s} : /\ session'[u] = session[u] /\ tx'[u] = tx[u]
                                    /\ stored'[u] = stored[u]
    PROVE OrmBounds'
<1>1. ASSUME NEW u \in Session, u # s PROVE Bounded(u)'
  BY <1>1 DEF OrmBounds, Bounded, open
<1> QED
  BY <1>1 DEF OrmBounds

\* The numbers of a session.
LEMMA SessionNumbers ==
    ASSUME OrmInv, OrmBounds, NEW s \in Session
    PROVE /\ session \in [Session -> SessionType] /\ tx \in [Session -> Seq(TxType)]
          /\ stored \in [Session -> Nat] /\ session[s] \in SessionType
          /\ session[s].count \in Nat /\ session[s].done \in Nat /\ stored[s] \in Nat
          /\ session[s].tx \in Nat /\ session[s].tx <= Len(tx[s])
          /\ tx[s] \in Seq(TxType) /\ Len(tx[s]) \in Nat /\ Len(tx[s]) <= 2
          /\ \A t \in 1..Len(tx[s]) : tx[s][t] \in TxType /\ tx[s][t].changes \in Nat
          /\ open(s) => session[s].tx \in 1..Len(tx[s])
          /\ MaxStatements \in Nat /\ Bounded(s)
<1>1. /\ session \in [Session -> SessionType] /\ tx \in [Session -> Seq(TxType)]
      /\ stored \in [Session -> Nat] /\ session[s].tx <= Len(tx[s])
  BY DEF OrmInv, OrmTypes
<1>2. /\ session[s] \in SessionType /\ tx[s] \in Seq(TxType) /\ stored[s] \in Nat
      /\ MaxStatements \in Nat /\ Bounded(s)
  BY <1>1, AppAssumption DEF OrmBounds
<1>3. /\ session[s].count \in Nat /\ session[s].done \in Nat /\ session[s].tx \in Nat
  BY <1>2 DEF SessionType
<1>4. ASSUME NEW t \in 1..Len(tx[s]) PROVE tx[s][t] \in TxType /\ tx[s][t].changes \in Nat
  <2>1. tx[s][t] \in TxType
    BY <1>2
  <2> QED
    BY <2>1 DEF TxType
<1>5. Len(tx[s]) <= 2 /\ Len(tx[s]) \in Nat
  BY <1>2 DEF Bounded
<1>6. open(s) => session[s].tx \in 1..Len(tx[s])
  BY <1>1, <1>3, <1>5 DEF open
<1> QED
  BY <1>1, <1>2, <1>3, <1>4, <1>5, <1>6

\* The function sets a model or a clause, or returns.
LEMMA ClauseKeepsBounds ==
    ASSUME OrmInv, OrmBounds, NEW s \in Session,
           Model(s) \/ (\E c \in Clause : setClause(s, c)) \/ (\E e \in BOOLEAN : returnsErr(s, e))
    PROVE OrmBounds'
<1> DEFINE q == session[s]
<1>1. session \in [Session -> SessionType] /\ q \in SessionType /\ q.at # "none"
  BY SessionNumbers DEF Model, setClause, returnsErr, inF
<1>2. ASSUME NEW p, sessionIs(s, p), p.at # "none", p.tx = q.tx, p.count = q.count,
             p.done = q.done, UNCHANGED <<tx, stored>>
      PROVE OrmBounds'
  <2>1. session'[s] = p /\ \A u \in Session \ {s} : session'[u] = session[u]
    BY <1>1, <1>2 DEF sessionIs
  <2>2. Bounded(s)'
    BY <1>1, <1>2, <2>1 DEF OrmBounds, Bounded, open
  <2> QED
    BY <1>2, <2>1, <2>2, BoundedLocal
<1>3. CASE Model(s)
  <2> DEFINE p == [q EXCEPT !.refTable = TRUE]
  <2>1. p.at # "none" /\ p.tx = q.tx /\ p.count = q.count /\ p.done = q.done
    BY <1>1 DEF SessionType
  <2>2. sessionIs(s, p) /\ UNCHANGED <<tx, stored>>
    BY <1>3 DEF Model
  <2> HIDE DEF p, q
  <2> QED
    BY <1>2, <2>1, <2>2
<1>4. ASSUME NEW c \in Clause, setClause(s, c) PROVE OrmBounds'
  <2> DEFINE p == [q EXCEPT !.clause = @ \cup {c}, !.wanted = @ \cup {c}]
  <2>1. p.at # "none" /\ p.tx = q.tx /\ p.count = q.count /\ p.done = q.done
    BY <1>1 DEF SessionType
  <2>2. sessionIs(s, p) /\ UNCHANGED <<tx, stored>>
    BY <1>4 DEF setClause
  <2> HIDE DEF p, q
  <2> QED
    BY <1>2, <2>1, <2>2
<1>5. ASSUME NEW e \in BOOLEAN, returnsErr(s, e) PROVE OrmBounds'
  <2> DEFINE p == [q EXCEPT !.at = "returned", !.err = e]
  <2>1. p.at # "none" /\ p.tx = q.tx /\ p.count = q.count /\ p.done = q.done
    BY <1>1 DEF SessionType
  <2>2. sessionIs(s, p) /\ UNCHANGED <<tx, stored>>
    BY <1>5 DEF returnsErr
  <2> HIDE DEF p, q
  <2> QED
    BY <1>2, <2>1, <2>2
<1> QED
  BY <1>3, <1>4, <1>5

\* A statement makes one change, or none.
LEMMA StatementKeepsBounds ==
    ASSUME OrmInv, OrmBounds, NEW s \in Session, NEW kind \in Statement, statement(s, kind)
    PROVE OrmBounds'
<1> DEFINE q == session[s]
           n == q.tx
           changed == IF kind \in changing THEN 1 ELSE 0
           limit == IF kind = "First" THEN {"limit"} ELSE {}
           given == q.clause \cup limit
           left == IF hooks /\ kind \in hooked THEN {} ELSE given
           wanted == q.wanted \cup limit
           asGiven == \A c \in builds[kind] : c \in left <=> c \in wanted
           sent == [Clear(q) EXCEPT !.count = @ + 1, !.asGiven = @ /\ asGiven]
           succeeds == [sent EXCEPT !.done = @ + changed]
<1>1. /\ session \in [Session -> SessionType] /\ q \in SessionType
      /\ tx \in [Session -> Seq(TxType)] /\ stored \in [Session -> Nat]
      /\ q.count \in Nat /\ q.done \in Nat /\ stored[s] \in Nat /\ tx[s] \in Seq(TxType)
      /\ MaxStatements \in Nat /\ Bounded(s) /\ n <= Len(tx[s])
      /\ \A t \in 1..Len(tx[s]) : tx[s][t] \in TxType /\ tx[s][t].changes \in Nat
      /\ open(s) => n \in 1..Len(tx[s])
  BY SessionNumbers
<1>2. /\ q.at = "f" /\ q.count < MaxStatements /\ q.done <= q.count
  BY <1>1 DEF statement, inF, Bounded
<1>3. /\ sent.at = "f" /\ sent.tx = n /\ sent.count = q.count + 1 /\ sent.done = q.done
      /\ succeeds.at = "f" /\ succeeds.tx = n /\ succeeds.count = q.count + 1
      /\ succeeds.done = q.done + changed
  <2>1. PICK b : b = asGiven
    OBVIOUS
  <2>2. PICK c : c = Clear(q)
    OBVIOUS
  <2>3. /\ c = [q EXCEPT !.clause = {}, !.wanted = {}]
        /\ sent = [c EXCEPT !.count = @ + 1, !.asGiven = @ /\ b]
    BY <2>1, <2>2 DEF Clear
  <2> HIDE DEF asGiven, changed, sent
  <2>4. c \in SessionType /\ c.at = "f" /\ c.tx = n /\ c.count = q.count /\ c.done = q.done
    BY <1>1, <1>2, <2>3 DEF SessionType
  <2> HIDE DEF q
  <2>5. PICK d : d = (c.asGiven /\ b)
    OBVIOUS
  <2>6. sent = [c EXCEPT !.count = q.count + 1, !.asGiven = d]
    BY <2>3, <2>4, <2>5
  <2>7. /\ sent.at = "f" /\ sent.tx = n /\ sent.count = q.count + 1 /\ sent.done = q.done
        /\ [sent EXCEPT !.done = q.done + changed].done = q.done + changed
        /\ [sent EXCEPT !.done = q.done + changed].at = "f"
        /\ [sent EXCEPT !.done = q.done + changed].tx = n
        /\ [sent EXCEPT !.done = q.done + changed].count = q.count + 1
    BY <2>4, <2>6 DEF SessionType
  <2> QED
    BY <2>7
<1>4. changed \in {0, 1}
  OBVIOUS
<1>5. \/ sessionIs(s, sent) /\ UNCHANGED <<tx, stored>>
      \/ /\ open(s) /\ sessionIs(s, succeeds)
         /\ tx' = [tx EXCEPT ![s][n].changes = @ + changed] /\ UNCHANGED stored
      \/ /\ n = 0 /\ sessionIs(s, succeeds)
         /\ stored' = [stored EXCEPT ![s] = @ + changed] /\ UNCHANGED tx
  BY DEF statement
<1> HIDE DEF sent, succeeds, changed
<1>6. CASE sessionIs(s, sent) /\ UNCHANGED <<tx, stored>>
  <2>1. session'[s] = sent /\ \A u \in Session \ {s} : session'[u] = session[u]
    BY <1>1, <1>6 DEF sessionIs
  <2>2. Bounded(s)'
    BY <1>1, <1>2, <1>3, <1>6, <2>1, SMTT(30) DEF Bounded, open
  <2> QED
    BY <1>6, <2>1, <2>2, BoundedLocal
<1>7. CASE /\ open(s) /\ sessionIs(s, succeeds)
           /\ tx' = [tx EXCEPT ![s][n].changes = @ + changed] /\ UNCHANGED stored
  <2>1. session'[s] = succeeds /\ \A u \in Session \ {s} : session'[u] = session[u]
    BY <1>1, <1>7 DEF sessionIs
  <2> DEFINE t == [tx[s] EXCEPT ![n].changes = @ + changed]
  <2>2. tx'[s] = t /\ \A u \in Session \ {s} : tx'[u] = tx[u]
    BY <1>1, <1>7
  <2>3. n \in 1..Len(tx[s]) /\ tx[s] \in Seq(TxType) /\ tx[s][n] \in TxType
    BY <1>1, <1>7
  <2> HIDE DEF n
  <2>4. /\ Len(t) = Len(tx[s]) /\ t[n].changes = tx[s][n].changes + changed
        /\ \A k \in 1..Len(tx[s]) : k # n => t[k] = tx[s][k]
    BY <2>3 DEF TxType
  <2> HIDE DEF t, q
  <2>5. /\ stored[s] <= q.done /\ stored[s] + tx[s][n].changes <= q.done
        /\ tx[s][n].changes <= q.done /\ tx[s][n].changes \in Nat
        /\ Len(tx[s]) <= 2 /\ \A k \in 1..Len(tx[s]) : tx[s][k].changes <= q.done
    BY <1>1, <1>7, <2>3 DEF Bounded, n, q
  <2>6. /\ q.count + 1 <= MaxStatements /\ q.done + changed <= MaxStatements
        /\ q.done + changed <= q.count + 1
        /\ stored[s] <= q.done + changed
        /\ stored[s] + (tx[s][n].changes + changed) <= q.done + changed
        /\ tx[s][n].changes + changed <= q.done + changed
    <3>1. q.count \in Nat /\ q.done \in Nat /\ stored[s] \in Nat /\ MaxStatements \in Nat
      BY <1>1 DEF q
    <3>2. PICK a \in Nat : a = tx[s][n].changes
      BY <2>5
    <3>3. PICK b \in Nat : b = stored[s]
      BY <3>1
    <3>4. a <= q.done /\ b + a <= q.done /\ b <= q.done
      BY <2>5, <3>2, <3>3
    <3>5. /\ q.count + 1 <= MaxStatements /\ q.done + changed <= MaxStatements
          /\ q.done + changed <= q.count + 1 /\ b <= q.done + changed
          /\ b + (a + changed) <= q.done + changed /\ a + changed <= q.done + changed
      BY <1>2, <1>4, <3>1, <3>4
    <3> QED
      BY <3>2, <3>3, <3>5
  <2>7. \A k \in 1..Len(tx[s]) : t[k].changes <= q.done + changed
    <3>1. ASSUME NEW k \in 1..Len(tx[s]), k # n PROVE t[k].changes <= q.done + changed
      BY <1>1, <1>4, <2>4, <2>5, <3>1, SMTT(30)
    <3> QED
      BY <2>4, <2>6, <3>1
  <2>8. Bounded(s)'
    BY <1>3, <1>7, <2>1, <2>2, <2>4, <2>5, <2>6, <2>7 DEF Bounded
  <2> QED
    BY <1>7, <2>1, <2>2, <2>8, BoundedLocal
<1>8. CASE /\ n = 0 /\ sessionIs(s, succeeds)
           /\ stored' = [stored EXCEPT ![s] = @ + changed] /\ UNCHANGED tx
  <2>1. session'[s] = succeeds /\ \A u \in Session \ {s} : session'[u] = session[u]
    BY <1>1, <1>8 DEF sessionIs
  <2>2. stored'[s] = stored[s] + changed /\ \A u \in Session \ {s} : stored'[u] = stored[u]
    BY <1>1, <1>8
  <2>3. /\ stored[s] + changed <= q.done + changed
        /\ q.count + 1 <= MaxStatements /\ q.done + changed <= MaxStatements
        /\ q.done + changed <= q.count + 1
        /\ Len(tx[s]) <= 2
        /\ \A t \in 1..Len(tx[s]) : tx[s][t].changes <= q.done + changed
    BY <1>1, <1>2, <1>4, SMTT(30) DEF Bounded
  <2>4. ~open(s)'
    BY <1>3, <1>8, <2>1 DEF open
  <2>5. Bounded(s)'
    BY <1>3, <1>8, <2>1, <2>2, <2>3, <2>4 DEF Bounded
  <2> QED
    BY <1>8, <2>1, <2>2, <2>5, BoundedLocal
<1> QED
  BY <1>5, <1>6, <1>7, <1>8

\* What a session may become when its transaction begins or ends.
Becomes(v, q) ==
    /\ v \in SessionType /\ v.done = q.done /\ v.count <= MaxStatements
    /\ v.at # "none" => v.done <= v.count

LEMMA BeginKeepsBounds ==
    ASSUME OrmInv, OrmBounds, NEW s \in Session, Len(tx[s]) < 2,
           NEW v, Becomes(v, session[s]), Begin(s, v), UNCHANGED stored
    PROVE OrmBounds'
<1> DEFINE q == session[s]
           n == Len(tx[s])
           t == Append(tx[s], [state |-> "open", changes |-> 0])
<1>1. /\ session \in [Session -> SessionType] /\ tx \in [Session -> Seq(TxType)]
      /\ q.done \in Nat /\ stored[s] \in Nat /\ tx[s] \in Seq(TxType) /\ n \in Nat
      /\ Bounded(s) /\ \A k \in 1..n : tx[s][k].changes \in Nat
  BY SessionNumbers
<1>2. /\ n <= 2 /\ q.done <= MaxStatements /\ stored[s] <= q.done
      /\ \A k \in 1..n : tx[s][k].changes <= q.done
  BY <1>1 DEF Bounded
<1>3. v \in SessionType /\ v.done = q.done /\ v.count <= MaxStatements
      /\ (v.at # "none" => v.done <= v.count)
  BY DEF Becomes
<1> HIDE DEF q
<1>4. CASE /\ tx' = [tx EXCEPT ![s] = t]
           /\ sessionIs(s, [v EXCEPT !.tx = n + 1])
  <2>1. PICK w : w = [v EXCEPT !.tx = n + 1]
    OBVIOUS
  <2>2. w.tx = n + 1 /\ w.at = v.at /\ w.done = q.done /\ w.count = v.count
    BY <1>3, <2>1 DEF SessionType
  <2>3. /\ session'[s] = w /\ tx'[s] = t
        /\ \A u \in Session \ {s} : session'[u] = session[u] /\ tx'[u] = tx[u]
    BY <1>1, <1>4, <2>1 DEF sessionIs
  <2>4. /\ Len(t) = n + 1 /\ t[n + 1].changes = 0
        /\ \A k \in 1..n : t[k] = tx[s][k]
    BY <1>1
  <2>5. \A k \in 1..(n + 1) : t[k].changes <= q.done
    BY <1>1, <1>2, <2>4
  <2>6. n + 1 <= 2 /\ stored[s] + 0 <= q.done
    BY <1>1, <1>2
  <2> HIDE DEF t, n
  <2>7. Bounded(s)'
    BY <1>2, <1>3, <2>2, <2>3, <2>4, <2>5, <2>6 DEF Bounded
  <2> QED
    BY <2>3, <2>7, BoundedLocal
<1>5. CASE sessionIs(s, [v EXCEPT !.tx = 0]) /\ UNCHANGED tx
  <2>1. PICK w : w = [v EXCEPT !.tx = 0]
    OBVIOUS
  <2>2. w.tx = 0 /\ w.at = v.at /\ w.done = q.done /\ w.count = v.count
    BY <1>3, <2>1 DEF SessionType
  <2>3. session'[s] = w /\ \A u \in Session \ {s} : session'[u] = session[u]
    BY <1>1, <1>5, <2>1 DEF sessionIs
  <2>4. ~open(s)'
    BY <2>2, <2>3 DEF open
  <2>5. Bounded(s)'
    BY <1>2, <1>3, <1>5, <2>2, <2>3, <2>4 DEF Bounded
  <2> QED
    BY <1>5, <2>3, <2>5, BoundedLocal
<1> QED
  BY <1>4, <1>5 DEF Begin

\* A transaction that has ended is not open any more: its changes are stored once.
LEMMA EndingKeepsBounds ==
    ASSUME OrmInv, OrmBounds, NEW s \in Session, NEW v, Becomes(v, session[s]),
           v.tx \in {0, session[s].tx},
           Rollback(s, v) \/ \E fails \in BOOLEAN : Commit(s, fails, v)
    PROVE OrmBounds'
<1> DEFINE q == session[s]
           n == q.tx
<1>1. /\ session \in [Session -> SessionType] /\ tx \in [Session -> Seq(TxType)]
      /\ stored \in [Session -> Nat]
      /\ q.done \in Nat /\ stored[s] \in Nat /\ tx[s] \in Seq(TxType)
      /\ Bounded(s) /\ \A k \in 1..Len(tx[s]) : tx[s][k] \in TxType /\ tx[s][k].changes \in Nat
      /\ open(s) => n \in 1..Len(tx[s])
  BY SessionNumbers
<1>2. /\ Len(tx[s]) <= 2 /\ q.done <= MaxStatements /\ stored[s] <= q.done
      /\ \A k \in 1..Len(tx[s]) : tx[s][k].changes <= q.done
      /\ open(s) => stored[s] + tx[s][n].changes <= q.done
  BY <1>1 DEF Bounded
<1>3. /\ v.done = q.done /\ v.count <= MaxStatements
      /\ v.at # "none" => v.done <= v.count
  BY DEF Becomes
<1>4. session'[s] = v /\ \A u \in Session \ {s} : session'[u] = session[u]
  BY <1>1 DEF Rollback, Commit, sessionIs
<1>5. CASE ~open(s)
  <2>1. UNCHANGED <<tx, stored>>
    BY <1>5 DEF Rollback, Commit
  <2>2. ~open(s)'
    BY <1>4, <1>5, <2>1 DEF open
  <2>3. Bounded(s)'
    BY <1>2, <1>3, <1>4, <2>1, <2>2 DEF Bounded
  <2> QED
    BY <1>4, <2>1, <2>3, BoundedLocal
<1>6. CASE open(s)
  <2>1. PICK state \in {"committed", "rolledBack"} :
          /\ tx' = [tx EXCEPT ![s][n].state = state]
          /\ stored' = stored \/ stored' = [stored EXCEPT ![s] = @ + tx[s][n].changes]
    BY <1>6 DEF Rollback, Commit
  <2>2. n \in 1..Len(tx[s]) /\ tx[s][n] \in TxType
    BY <1>1, <1>6
  <2> DEFINE t == [tx[s] EXCEPT ![n].state = state]
  <2> HIDE DEF n
  <2>3. /\ Len(t) = Len(tx[s]) /\ t[n].state = state
        /\ \A k \in 1..Len(tx[s]) : t[k].changes = tx[s][k].changes
    <3>1. Len(t) = Len(tx[s]) /\ t[n] = [tx[s][n] EXCEPT !.state = state]
      BY <1>1, <2>2, SMTT(30)
    <3>2. t[n].state = state /\ t[n].changes = tx[s][n].changes
      BY <2>2, <3>1 DEF TxType
    <3>3. \A k \in 1..Len(tx[s]) : k # n => t[k] = tx[s][k]
      BY <1>1, <2>2
    <3> HIDE DEF t
    <3> QED
      BY <3>1, <3>2, <3>3
  <2>4. tx'[s] = t /\ \A u \in Session \ {s} : tx'[u] = tx[u]
    BY <1>1, <2>1
  <2> HIDE DEF t
  <2>5. ~open(s)'
    BY <1>4, <2>1, <2>3, <2>4 DEF open, n
  <2>6. stored'[s] <= q.done /\ \A u \in Session \ {s} : stored'[u] = stored[u]
    <3>1. stored[s] + tx[s][n].changes <= q.done
      BY <1>2, <1>6
    <3> HIDE DEF q
    <3> QED
      BY <1>1, <1>2, <2>1, <3>1
  <2>7. Bounded(s)'
    BY <1>2, <1>3, <1>4, <2>3, <2>4, <2>5, <2>6 DEF Bounded
  <2> QED
    BY <1>4, <2>4, <2>6, <2>7, BoundedLocal
<1> QED
  BY <1>5, <1>6

LEMMA OwnKeepsBounds ==
    ASSUME OrmInv, OrmBounds, NEW s \in Session, ownTransaction(s)
    PROVE OrmBounds'
<1> DEFINE q == session[s]
           new == [q EXCEPT !.own = TRUE]
<1>1. q \in SessionType /\ q.at = "f" /\ Bounded(s)
  BY SessionNumbers DEF ownTransaction, inF
<1>2. /\ new \in SessionType /\ new.done = q.done /\ new.count = q.count /\ new.tx = q.tx
      /\ new.at = "f"
  BY <1>1 DEF SessionType
<1>3. q.count <= MaxStatements /\ q.done <= q.count
  BY <1>1 DEF Bounded
<1>4. Becomes(new, q)
  BY <1>2, <1>3 DEF Becomes
<1>5. \/ Len(tx[s]) < 2 /\ Begin(s, new) /\ UNCHANGED stored
      \/ Rollback(s, new)
      \/ \E fails, lost \in BOOLEAN : Commit(s, fails, [new EXCEPT !.lost = lost])
  BY DEF ownTransaction
<1> HIDE DEF new
<1>6. ASSUME NEW fails \in BOOLEAN, NEW lost \in BOOLEAN,
             Commit(s, fails, [new EXCEPT !.lost = lost])
      PROVE OrmBounds'
  <2>1. PICK v : v = [new EXCEPT !.lost = lost]
    OBVIOUS
  <2>2. /\ v \in SessionType /\ v.done = new.done /\ v.count = new.count /\ v.tx = new.tx
        /\ v.at = new.at
    BY <1>2, <2>1 DEF SessionType
  <2>3. Becomes(v, q) /\ v.tx = q.tx
    BY <1>2, <1>3, <2>2 DEF Becomes
  <2> QED
    BY <1>6, <2>1, <2>3, EndingKeepsBounds
<1>7. CASE Rollback(s, new)
  BY <1>2, <1>4, <1>7, EndingKeepsBounds
<1>8. CASE Len(tx[s]) < 2 /\ Begin(s, new) /\ UNCHANGED stored
  BY <1>4, <1>8, BeginKeepsBounds
<1> QED
  BY <1>5, <1>6, <1>7, <1>8

LEMMA BeginsKeepsBounds ==
    ASSUME OrmInv, OrmBounds, NEW s \in Session, begins(s)
    PROVE OrmBounds'
<1> DEFINE q == session[s]
           new == [q EXCEPT !.at = "f"]
<1>1. /\ q \in SessionType /\ Bounded(s) /\ q.count \in Nat
      /\ tx[s] = <<>> /\ q.done = 0
  BY SessionNumbers DEF OrmInv, begins, Transacts
<1>2. new \in SessionType /\ new.done = q.done /\ new.count = q.count
  BY <1>1 DEF SessionType
<1>3. new.done <= new.count /\ new.count <= MaxStatements
  BY <1>1, <1>2 DEF Bounded
<1>4. Becomes(new, q)
  BY <1>2, <1>3 DEF Becomes
<1>5. Len(tx[s]) < 2
  BY <1>1
<1>6. UNCHANGED stored /\ (Begin(s, new) \/ UNCHANGED <<session, tx>>)
  BY DEF begins
<1> HIDE DEF new
<1>7. CASE UNCHANGED <<session, tx>>
  BY <1>6, <1>7 DEF OrmBounds, Bounded, open
<1> QED
  BY <1>4, <1>5, <1>6, <1>7, BeginKeepsBounds

LEMMA EndsKeepBounds ==
    ASSUME OrmInv, OrmBounds, NEW s \in Session, NEW panicking \in BOOLEAN,
           ends(s, panicking) \/ endsMissing(s)
    PROVE OrmBounds'
<1> DEFINE q == session[s]
<1>1. /\ session \in [Session -> SessionType] /\ q \in SessionType /\ Bounded(s)
      /\ MaxStatements \in Nat
  BY SessionNumbers
<1>2. /\ over(s) \in SessionType /\ over(s).done = q.done /\ over(s).count = 0
      /\ over(s).at = "none" /\ over(s).tx = 0
  BY <1>1 DEF over, newSession, SessionType, Clause
<1>3. Becomes(over(s), q)
  BY <1>1, <1>2 DEF Becomes
<1>4. CASE endsMissing(s)
  <2>1. PICK v : v = over(s)
    OBVIOUS
  <2>2. session'[s] = v /\ \A u \in Session \ {s} : session'[u] = session[u]
    BY <1>1, <1>4, <2>1 DEF endsMissing, sessionIs
  <2>3. UNCHANGED <<tx, stored>>
    BY <1>4 DEF endsMissing
  <2>4. ~open(s)'
    BY <1>2, <2>1, <2>2 DEF open
  <2>5. Bounded(s)'
    BY <1>1, <1>2, <2>1, <2>2, <2>3, <2>4 DEF Bounded
  <2> QED
    BY <2>2, <2>3, <2>5, BoundedLocal
<1>5. CASE Rollback(s, over(s))
  BY <1>2, <1>3, <1>5, EndingKeepsBounds
<1>6. ASSUME NEW fails \in BOOLEAN, NEW lost \in BOOLEAN,
             Commit(s, fails, [over(s) EXCEPT !.lost = lost])
      PROVE OrmBounds'
  <2>1. PICK u : u = over(s)
    OBVIOUS
  <2>2. PICK v : v = [u EXCEPT !.lost = lost]
    OBVIOUS
  <2>3. /\ v \in SessionType /\ v.done = q.done /\ v.count = 0 /\ v.at = "none" /\ v.tx = 0
    BY <1>2, <2>1, <2>2 DEF SessionType
  <2>4. Becomes(v, q)
    BY <1>1, <2>3 DEF Becomes
  <2> QED
    BY <1>6, <2>1, <2>2, <2>3, <2>4, EndingKeepsBounds
<1> QED
  BY <1>4, <1>5, <1>6 DEF ends

\* With AppInv, the type invariant.
AppTypes ==
    /\ WebTypes /\ OrmBounds /\ hooks \in BOOLEAN
    /\ routes \in Seq(config.routes) /\ Len(routes) <= config.registrations

\* They hold when the program starts.
LEMMA TypesStart == Init => AppTypes
<1> SUFFICES ASSUME Init PROVE AppTypes
  OBVIOUS
<1>1. config \in Config /\ config.registrations \in Nat /\ MaxStatements \in Nat
  BY AppAssumption DEF Init
<1>2. WebTypes
  <2>1. pool = {} /\ req = [r \in Request |-> newRequest]
    BY DEF Init, WebInit
  <2>2. Answered(newRequest)
    BY DEF newRequest, Answered, Status
  <2> QED
    BY <2>1, <2>2 DEF WebTypes
<1>3. OrmBounds
  <2> SUFFICES ASSUME NEW s \in Session PROVE Bounded(s)
    BY DEF OrmBounds
  <2>1. session[s] = newSession /\ tx[s] = <<>> /\ stored[s] = 0
    BY DEF Init, OrmInit
  <2>2. newSession.count = 0 /\ newSession.done = 0 /\ newSession.at = "none" /\ newSession.tx = 0
    BY DEF newSession
  <2>3. Len(<<>>) = 0
    OBVIOUS
  <2> QED
    BY <1>1, <2>1, <2>2, <2>3 DEF Bounded, open
<1>4. hooks \in BOOLEAN
  BY DEF Init
<1>5. routes = <<>>
  BY DEF Init, RouterInit
<1>6. <<>> \in Seq(config.routes) /\ Len(<<>>) = 0
  OBVIOUS
<1> QED
  BY <1>1, <1>2, <1>3, <1>4, <1>5, <1>6 DEF AppTypes

\* A step of a request, with its transaction or without.
LEMMA ServingKeepsTypes ==
    ASSUME AppInv, WebTypes, OrmBounds, NEW r \in Request,
           serves(r) \/ transacts(r) \/ leaves(r)
    PROVE WebTypes' /\ OrmBounds'
<1>1. WebInv /\ OrmInv /\ r \in Session /\ config \in Config
  BY AppAssumption DEF AppInv, WebInv
<1>2. ASSUME UNCHANGED <<session, tx, stored>> PROVE OrmBounds'
  BY <1>2 DEF OrmBounds, Bounded, open
<1>3. ASSUME UNCHANGED <<req, pool>> PROVE WebTypes'
  BY <1>3 DEF WebTypes
<1>4. CASE serves(r)
  <2>1. OrmBounds'
    BY <1>2, <1>4 DEF serves
  <2>2. CASE \E x \in Ctx : \E path, known : ServeHTTP(r, x, path, known)
    BY <1>1, <2>1, <2>2, ServeKeepsTypes
  <2>3. CASE \E e : handlerPanics(r, e)
    BY <1>1, <2>1, <2>3, RaisesKeepsTypes DEF handlerPanics, at
  <2>4. CASE webStep(r)
    BY <1>1, <2>1, <2>4, ServeKeepsTypes, ChainKeepsTypes, UnwindKeepsTypes DEF webStep
  <2>5. CASE \E given : handles(r, given)
    BY <1>1, <2>1, <2>5, ChainKeepsTypes
  <2>6. arrives(r) => \E x \in Ctx : \E path, known : ServeHTTP(r, x, path, known)
    BY DEF arrives
  <2> QED
    BY <1>4, <2>1, <2>2, <2>3, <2>4, <2>5, <2>6 DEF serves
<1>5. CASE transacts(r)
  <2>1. CASE f(r) /\ UNCHANGED <<req, pool, contexts>>
    <3>1. config.clauses \subseteq Clause
      BY <1>1, AppAssumption
    <3>2. CASE begins(r)
      BY <1>1, <1>3, <2>1, <3>2, BeginsKeepsBounds
    <3>3. CASE \/ Model(r) \/ (\E c \in config.clauses : setClause(r, c))
               \/ \E e \in BOOLEAN : returnsErr(r, e)
      BY <1>1, <1>3, <2>1, <3>1, <3>3, ClauseKeepsBounds
    <3>4. CASE \E kind \in Statement : statement(r, kind)
      BY <1>1, <1>3, <2>1, <3>4, StatementKeepsBounds
    <3>5. CASE ownTransaction(r)
      BY <1>1, <1>3, <2>1, <3>5, OwnKeepsBounds
    <3> QED
      BY <1>3, <2>1, <3>2, <3>3, <3>4, <3>5 DEF f
  <2>2. CASE \E e : panics(r, e)
    <3>1. PICK e : panics(r, e)
      BY <2>2
    <3>2. handlerPanics(r, e) /\ UNCHANGED <<session, tx, stored>>
      BY <3>1 DEF panics
    <3> QED
      BY <1>1, <1>2, <3>2, RaisesKeepsTypes DEF handlerPanics, at
  <2> QED
    BY <1>5, <2>1, <2>2 DEF transacts
<1>6. CASE leaves(r)
  <2>1. PICK e \in BOOLEAN : e = (req[r].panic \notin {"none", "goexit"})
    OBVIOUS
  <2>2. OrmBounds'
    BY <1>1, <1>6, <2>1, EndsKeepBounds DEF leaves
  <2>3. req[r].state = "serving"
    BY <1>6 DEF AppInv, Inside, leaves, inF
  <2>4. WebTypes'
    BY <1>1, <1>3, <1>6, <2>3, RaisesKeepsTypes DEF leaves
  <2> QED
    BY <2>2, <2>4
<1> QED
  BY <1>4, <1>5, <1>6

\* Every step keeps them.
LEMMA AppKeepsTypes == AppInv /\ AppTypes /\ [Next]_vars => AppTypes'
<1> SUFFICES ASSUME AppInv, AppTypes, [Next]_vars PROVE AppTypes'
  OBVIOUS
<1>1. config \in Config /\ config.requests \subseteq Request /\ config.registrations \in Nat
  BY AppAssumption DEF AppInv, WebInv
<1>2. CASE UNCHANGED vars
  BY <1>2 DEF AppTypes, WebTypes, OrmBounds, Bounded, open
<1>3. ASSUME NEW p \in config.routes, registers(p) PROVE AppTypes'
  <2>1. WebTypes' /\ OrmBounds' /\ hooks' = hooks /\ config' = config
    BY <1>3 DEF registers, AppTypes, WebTypes, OrmBounds, Bounded, open
  <2>2. /\ routes' = Append(routes, p) /\ Len(routes) < config.registrations
        /\ routes \in Seq(config.routes)
    BY <1>3 DEF registers, addRoute, AppTypes
  <2>3. routes' \in Seq(config.routes) /\ Len(routes') = Len(routes) + 1 /\ Len(routes) \in Nat
    BY <2>2
  <2>4. Len(routes') <= config.registrations
    BY <1>1, <2>2, <2>3
  <2> QED
    BY <2>1, <2>3, <2>4 DEF AppTypes
<1>4. ASSUME NEW r \in config.requests, serves(r) \/ transacts(r) \/ leaves(r),
             UNCHANGED <<config, routervars, groups, hasLogger, hooks>>
      PROVE AppTypes'
  <2>1. WebTypes' /\ OrmBounds'
    BY <1>1, <1>4, ServingKeepsTypes DEF AppTypes
  <2> QED
    BY <1>4, <2>1 DEF AppTypes
<1> QED
  BY <1>2, <1>3, <1>4 DEF Next

\* Together they are the type invariant.
LEMMA TypesSuffice == AppInv /\ AppTypes => TypeOK
<1> SUFFICES ASSUME AppInv, AppTypes PROVE TypeOK
  OBVIOUS
<1>1. WebTypeOK
  <2>1. /\ pool \subseteq Ctx /\ contexts \in [Ctx -> Request \cup {None}]
    BY DEF AppInv, AppTypes, WebInv, WebTypes
  <2> SUFFICES ASSUME NEW r \in Request, NEW q, q = req[r]
               PROVE /\ q.state \in {"new", "serving", "done", "aborted"}
                     /\ q.path \in Paths /\ q.known \in BOOLEAN
                     /\ q.ctx \in Ctx \cup {None}
                     /\ q.handlers \in Seq(Middleware \cup {"handler", "notFound"})
                     /\ q.index \in 0..(Len(q.handlers) + 1)
                     /\ \A i \in DOMAIN q.stack :
                          /\ q.stack[i].handler \in DOMAIN q.handlers
                          /\ q.stack[i].at \in {"start", "next", "back"}
                     /\ q.panic \in Panics \cup {"none"} /\ q.raised \in Panics \cup {"none"}
                     /\ q.sent \in {0, 200, 400, 401, 404, 500}
                     /\ q.entered \in Seq(Nat) /\ q.aborted \in 0..Len(q.entered)
    BY <2>1, ZenonT(40) DEF WebTypeOK
  <2>2. q \in RequestType /\ RequestInv(q, hasLogger) /\ Answered(q)
    BY DEF AppInv, AppTypes, WebInv, WebTypes
  <2>3. /\ q.state \in {"new", "serving", "done", "aborted"}
        /\ q.path \in Paths /\ q.known \in BOOLEAN /\ q.ctx \in Ctx \cup {None}
        /\ q.handlers \in Seq(Kind) /\ q.stack \in Seq(Frame)
        /\ q.panic \in Panics \cup {"none"} /\ q.raised \in Panics \cup {"none"}
        /\ q.entered \in Seq(Nat) /\ q.index \in Nat /\ q.aborted \in Nat
        /\ Len(q.handlers) \in Nat /\ Len(q.entered) \in Nat
    BY <2>2, SMTT(30) DEF RequestType
  <2>4. Called(q)
    BY <2>2, <2>3 DEF RequestInv, Serving, Served
  <2>5. q.index \in 0..(Len(q.handlers) + 1) /\ q.aborted \in 0..Len(q.entered)
    BY <2>3, <2>4 DEF Called
  <2>6. ASSUME NEW i \in DOMAIN q.stack
        PROVE /\ q.stack[i].handler \in DOMAIN q.handlers
              /\ q.stack[i].at \in {"start", "next", "back"}
    <3>1. i \in 1..Len(q.stack) /\ q.stack[i] \in Frame
      BY <2>3, <2>6
    <3>2. q.state = "serving"
      BY <2>2, <2>6 DEF Answered
    <3>3. q.stack[i].handler \in 1..Len(q.handlers)
      BY <2>2, <3>1, <3>2 DEF RequestInv, Serving, Stacked, Ordered
    <3>4. 1..Len(q.handlers) = DOMAIN q.handlers
      BY <2>3
    <3> QED
      BY <3>1, <3>3, <3>4 DEF Frame
  <2> QED
    BY <2>2, <2>3, <2>5, <2>6 DEF Answered, Status, Kind
<1>2. OrmTypeOK
  <2>1. ASSUME NEW s \in Session
        PROVE /\ session[s] \in [at : {"none", "f", "returned"},
                                 tx : 0..2, refTable : BOOLEAN, clause : SUBSET Clause,
                                 err : BOOLEAN, count : 0..MaxStatements,
                                 wanted : SUBSET Clause, asGiven : BOOLEAN,
                                 done : 0..MaxStatements, own : BOOLEAN, lost : BOOLEAN]
              /\ stored[s] \in 0..MaxStatements
              /\ \A t \in DOMAIN tx[s] :
                   tx[s][t] \in [state : {"open", "committed", "rolledBack"},
                                 changes : 0..MaxStatements]
    <3>1. /\ session[s] \in SessionType /\ tx[s] \in Seq(TxType) /\ Bounded(s)
          /\ session[s].count \in Nat /\ session[s].done \in Nat /\ session[s].tx \in Nat
          /\ stored[s] \in Nat /\ MaxStatements \in Nat /\ session[s].tx <= Len(tx[s])
          /\ Len(tx[s]) <= 2 /\ Len(tx[s]) \in Nat
          /\ \A t \in 1..Len(tx[s]) : tx[s][t] \in TxType /\ tx[s][t].changes \in Nat
      BY SessionNumbers DEF AppInv, AppTypes
    <3>2. /\ session[s].tx \in 0..2 /\ session[s].count \in 0..MaxStatements
          /\ session[s].done \in 0..MaxStatements /\ stored[s] \in 0..MaxStatements
      BY <3>1 DEF Bounded
    <3>3. ASSUME NEW t \in 1..Len(tx[s]) PROVE tx[s][t].changes \in 0..MaxStatements
      BY <3>1, <3>3 DEF Bounded
    <3>4. DOMAIN tx[s] = 1..Len(tx[s])
      BY <3>1
    <3>5. ASSUME NEW t \in 1..Len(tx[s])
          PROVE tx[s][t] \in [state : {"open", "committed", "rolledBack"},
                              changes : 0..MaxStatements]
      <4>1. tx[s][t] \in TxType
        BY <3>1
      <4> QED
        BY <3>3, <4>1 DEF TxType
    <3>6. session[s] \in [at : {"none", "f", "returned"},
                          tx : 0..2, refTable : BOOLEAN, clause : SUBSET Clause,
                          err : BOOLEAN, count : 0..MaxStatements,
                          wanted : SUBSET Clause, asGiven : BOOLEAN,
                          done : 0..MaxStatements, own : BOOLEAN, lost : BOOLEAN]
      <4>1. PICK q : q = session[s]
        OBVIOUS
      <4> QED
        BY <3>1, <3>2, <4>1 DEF SessionType
    <3> QED
      BY <3>2, <3>4, <3>5, <3>6
  <2>2. /\ session \in [Session -> SessionType] /\ stored \in [Session -> Nat]
        /\ outcome \in [Session -> {"none", "nil", "err", "panic", "exit"}]
    BY DEF AppInv, OrmInv, OrmTypes
  <2>3. hooks \in BOOLEAN
    BY DEF AppTypes
  <2> QED
    BY <2>1, <2>2, <2>3 DEF OrmTypeOK
<1> QED
  BY <1>1, <1>2 DEF AppTypes, TypeOK

\* The type invariant of the web engine, the ORM and the application: each status
\* sent is one of the code, each handler on a stack is one of the request's chain,
\* and a Transaction never stores more changes than it sent statements (context.go,
\* raw.go).
THEOREM AppTypeCorrect == Spec => []TypeOK
<1>1. Spec => []AppTypes
  BY TypesStart, AppKeepsTypes, AppInvariant, PTL DEF Spec
<1> QED
  BY <1>1, AppInvariant, TypesSuffice, PTL
----------------------------------------------------------------------------
(* parsePattern *)

\* A star ends a route.
StarLast(s) == \A i \in 1..Len(s) : s[i] \in Star => i = Len(s)

\* The parts after one more item.
keeps(parts, item) == IF item = "" \/ endsInStar(parts) THEN parts ELSE Append(parts, item)

\* They are parts again.
LEMMA KeepsType ==
  ASSUME NEW P, NEW q \in Seq(P), NEW item \in P
  PROVE  keeps(q, item) \in Seq(P)
<1>1. Append(q, item) \in Seq(P)
  OBVIOUS
<1> QED
  BY <1>1 DEF keeps

\* The parts after each item of a pattern.
parses(pattern) ==
    CHOOSE fn : fn = [i \in 0..Len(pattern) |->
                      IF i = 0 THEN <<>>
                      ELSE IF pattern[i] = "" \/ endsInStar(fn[i - 1]) THEN fn[i - 1]
                      ELSE Append(fn[i - 1], pattern[i])]

\* parsePattern is the last of them, and each one follows from the one before.
LEMMA ParseDef ==
  ASSUME NEW P, NEW pattern \in Seq(P)
  PROVE  /\ parsePattern(pattern) = parses(pattern)[Len(pattern)]
         /\ parses(pattern) \in [0..Len(pattern) -> Seq(P)] /\ parses(pattern)[0] = <<>>
         /\ \A i \in 1..Len(pattern) :
              parses(pattern)[i] = keeps(parses(pattern)[i - 1], pattern[i])
<1>1. PICK n \in Nat : n = Len(pattern)
  OBVIOUS
<1> DEFINE eq(h) == h = [i \in 0..n |->
                           IF i = 0 THEN <<>>
                           ELSE IF pattern[i] = "" \/ endsInStar(h[i - 1]) THEN h[i - 1]
                           ELSE Append(h[i - 1], pattern[i])]
           s == CHOOSE h : eq(h)
<1>2. \A i \in 1..n : pattern[i] \in P /\ i \in 0..n /\ i # 0 /\ i - 1 \in 0..n
  BY <1>1
<1>3. parsePattern(pattern) = parses(pattern)[Len(pattern)]
  BY Zenon DEF parsePattern, parses
<1>4. parses(pattern) = s
  BY <1>1, Zenon DEF parses
<1>5. PICK S : S = Seq(P)
  OBVIOUS
<1>6. PICK a \in S : a = <<>>
  <2>1. <<>> \in Seq(P)
    OBVIOUS
  <2> QED
    BY <1>5, <2>1
<1>7. PICK g : g = [i \in 1..n |-> [q \in S |-> keeps(q, pattern[i])]]
  OBVIOUS
<1>8. ASSUME NEW q \in S, NEW i \in 1..n PROVE g[i][q] = keeps(q, pattern[i])
  BY <1>7
<1>9. ASSUME NEW q \in S, NEW i \in 1..n PROVE keeps(q, pattern[i]) \in S
  BY <1>2, <1>5, KeepsType
<1>10. Steps(g, n, S)
  BY <1>7, <1>9 DEF Steps
<1>11. PICK fn : fn = iterate(a, g, n)
  OBVIOUS
<1>12. fn \in [0..n -> S] /\ fn[0] = a /\ \A i \in 1..n : fn[i] = g[i][fn[i - 1]]
  BY <1>10, <1>11, NatRecursion
<1>13. ASSUME NEW i \in 1..n PROVE fn[i] = keeps(fn[i - 1], pattern[i])
  <2>1. fn[i] = g[i][fn[i - 1]] /\ fn[i - 1] \in S
    BY <1>2, <1>12
  <2> QED
    BY <1>8, <2>1
<1>14. eq(fn)
  <2>1. ASSUME NEW i \in 0..n
        PROVE  fn[i] = IF i = 0 THEN <<>>
                      ELSE IF pattern[i] = "" \/ endsInStar(fn[i - 1]) THEN fn[i - 1]
                      ELSE Append(fn[i - 1], pattern[i])
    <3>1. CASE i = 0
      BY <1>6, <1>12, <3>1
    <3>2. CASE i # 0
      <4>1. i \in 1..n
        BY <3>2
      <4>2. fn[i] = keeps(fn[i - 1], pattern[i])
        BY <1>13, <4>1
      <4> QED
        BY <3>2, <4>2 DEF keeps
    <3> QED
      BY <3>1, <3>2
  <2> QED
    BY <1>12, <2>1, Zenon
<1>15. eq(s)
  <2> HIDE DEF eq
  <2> QED
    BY <1>14
<1> HIDE DEF s
<1>16. s = [i \in 0..n |-> s[i]] /\ s[0] = <<>>
  <2>1. 0 \in 0..n
    OBVIOUS
  <2> QED
    BY <1>15, <2>1
<1>17. ASSUME NEW i \in 1..n PROVE s[i] = keeps(s[i - 1], pattern[i])
  BY <1>2, <1>15 DEF keeps
<1> HIDE DEF eq
<1> DEFINE M == { i \in Nat : i <= n => s[i] \in S }
<1>18. 0 \in M
  BY <1>6, <1>16
<1>19. ASSUME NEW i \in Nat, i \in M PROVE i + 1 \in M
  <2> SUFFICES ASSUME i + 1 <= n PROVE s[i + 1] \in S
    OBVIOUS
  <2>1. s[i] \in S /\ i + 1 \in 1..n /\ (i + 1) - 1 = i
    BY <1>19
  <2>2. s[i + 1] = keeps(s[i], pattern[i + 1]) /\ pattern[i + 1] \in P
    BY <1>2, <1>17, <2>1
  <2> QED
    BY <1>5, <2>1, <2>2, KeepsType
<1>20. Nat \subseteq M
  <2> HIDE DEF M
  <2> QED
    BY <1>18, <1>19, NatSetInduction
<1>21. \A i \in 0..n : s[i] \in S
  BY <1>20
<1>22. s \in [0..n -> S]
  BY <1>16, <1>21
<1> QED
  BY <1>1, <1>3, <1>4, <1>5, <1>16, <1>17, <1>22

\* The parts of a pattern, of which only the last one may be a star.
LEMMA ParseType ==
  ASSUME NEW P, NEW pattern \in Seq(P)
  PROVE  parsePattern(pattern) \in Seq(P) /\ StarLast(parsePattern(pattern))
<1>1. PICK n \in Nat : n = Len(pattern)
  OBVIOUS
<1> DEFINE fn == parses(pattern)
<1>2. /\ fn \in [0..n -> Seq(P)] /\ parsePattern(pattern) = fn[n] /\ fn[0] = <<>>
      /\ \A i \in 1..n : fn[i] = keeps(fn[i - 1], pattern[i])
  BY <1>1, ParseDef
<1> HIDE DEF fn
<1> DEFINE M == { i \in Nat : i <= n => StarLast(fn[i]) }
<1>3. 0 \in M
  BY <1>2 DEF StarLast
<1>4. ASSUME NEW i \in Nat, i \in M PROVE i + 1 \in M
  <2> SUFFICES ASSUME i + 1 <= n PROVE StarLast(fn[i + 1])
    OBVIOUS
  <2>1. /\ i \in 0..n /\ fn[i] \in Seq(P) /\ StarLast(fn[i]) /\ i + 1 \in 1..n /\ (i + 1) - 1 = i
        /\ pattern[i + 1] \in P
    <3>1. i + 1 \in 1..Len(pattern) /\ i \in 0..n /\ i <= n
      BY <1>1
    <3> QED
      BY <1>1, <1>2, <1>4, <3>1, SMTT(30)
  <2>2. fn[i + 1] = keeps(fn[i], pattern[i + 1])
    BY <1>2, <2>1
  <2>3. CASE fn[i + 1] = fn[i]
    BY <2>1, <2>3
  <2>4. CASE fn[i + 1] # fn[i]
    <3>1. fn[i + 1] = Append(fn[i], pattern[i + 1]) /\ ~endsInStar(fn[i])
      BY <2>2, <2>4 DEF keeps
    <3>2. PICK t : t = fn[i + 1]
      OBVIOUS
    <3>3. /\ Len(t) = Len(fn[i]) + 1 /\ Len(fn[i]) \in Nat
          /\ \A k \in 1..Len(fn[i]) : t[k] = fn[i][k]
      BY <2>1, <3>1, <3>2
    <3>4. ASSUME NEW k \in 1..Len(fn[i]) PROVE fn[i][k] \notin Star
      <4>1. fn[i][k] \in Star => k = Len(fn[i])
        BY <2>1, <3>4 DEF StarLast
      <4>2. fn[i] # <<>>
        BY <3>3, <3>4
      <4> QED
        BY <3>1, <4>1, <4>2 DEF endsInStar, Last
    <3>5. \A k \in 1..Len(t) : k \in 1..Len(fn[i]) \/ k = Len(t)
      <4>1. PICK m \in Nat : m = Len(fn[i])
        BY <3>3
      <4> QED
        BY <3>3, <4>1
    <3> QED
      BY <3>2, <3>3, <3>4, <3>5 DEF StarLast
  <2> QED
    BY <2>3, <2>4
<1>5. n \in M
  <2> HIDE DEF M
  <2> QED
    BY <1>3, <1>4, NatSetInduction
<1> QED
  BY <1>2, <1>5
----------------------------------------------------------------------------
(* The trie *)

\* The parts of patterns and paths, and the nodes of the trie.
Part == STRING
Node == [parts : Seq(Part), pattern : Seq(Part)]

\* What holds in every trie: its nodes have their parts, the first one is the root,
\* and a node's pattern is a route with as many parts.
TrieShape ==
    /\ root \in Seq(Node) /\ root # <<>> /\ root[1].parts = <<>>
    /\ routes \in Seq(Seq(Part) \ {NoPattern})
    /\ \A i \in DOMAIN root : root[i].pattern # NoPattern =>
         /\ \E r \in DOMAIN routes : routes[r] = root[i].pattern
         /\ Len(parsePattern(root[i].pattern)) = Len(root[i].parts)

\* The numbers of the children found, and their parts.
LEMMA ChildrenType ==
  ASSUME root \in Seq(Node), NEW here \in Seq(Part), NEW part
  PROVE  /\ matchChildren(here, part) \in SUBSET Nat
         /\ \A i \in matchChildren(here, part) :
              /\ i \in 1..Len(root) /\ root[i].parts \in Seq(Part) /\ root[i].parts # <<>>
              /\ Front(root[i].parts) = here /\ Last(root[i].parts) \in Part
              /\ Last(root[i].parts) = part \/ isWild(Last(root[i].parts))
              /\ root[i].parts = Append(here, Last(root[i].parts))
<1>1. ASSUME NEW i \in 1..Len(root) PROVE root[i].parts \in Seq(Part) /\ i \in Nat
  <2>1. root[i] \in Node
    OBVIOUS
  <2> QED
    BY <2>1 DEF Node
<1>2. DOMAIN root = 1..Len(root)
  OBVIOUS
<1>3. ASSUME NEW i \in matchChildren(here, part)
      PROVE  /\ i \in 1..Len(root) /\ i \in Nat /\ root[i].parts # <<>>
             /\ Front(root[i].parts) = here
             /\ Last(root[i].parts) = part \/ isWild(Last(root[i].parts))
  BY <1>1, <1>2, <1>3 DEF matchChildren
<1>4. ASSUME NEW i \in matchChildren(here, part)
      PROVE  root[i].parts = Append(here, Last(root[i].parts)) /\ Last(root[i].parts) \in Part
  <2>1. PICK t \in Seq(Part) : t = root[i].parts
    BY <1>1, <1>3
  <2>2. t # <<>>
    BY <1>3, <2>1
  <2>3. t = Append(Front(t), Last(t)) /\ Last(t) \in Part
    BY <2>2, FrontLast
  <2> QED
    BY <1>3, <2>1, <2>3
<1> QED
  BY <1>1, <1>3, <1>4

\* The next step of the way.
goes(here, part) ==
    Append(here, IF matchChildren(here, part) = {} THEN part
               ELSE Last(root[Min(matchChildren(here, part))].parts))

\* It adds one part.
LEMMA GoesType ==
  ASSUME root \in Seq(Node), NEW here \in Seq(Part), NEW part \in Part
  PROVE  goes(here, part) \in Seq(Part) /\ Len(goes(here, part)) = Len(here) + 1
<1>1. PICK e \in Part : goes(here, part) = Append(here, e)
  <2>1. CASE matchChildren(here, part) = {}
    BY <2>1 DEF goes
  <2>2. CASE matchChildren(here, part) # {}
    <3>1. PICK m : m = Min(matchChildren(here, part))
      OBVIOUS
    <3>2. m \in matchChildren(here, part)
      BY <2>2, <3>1, ChildrenType, MinIsSmallest
    <3>3. Last(root[m].parts) \in Part
      BY <3>2, ChildrenType
    <3>4. goes(here, part) = Append(here, Last(root[m].parts))
      BY <2>2, <3>1 DEF goes
    <3> QED
      BY <3>3, <3>4
  <2> QED
    BY <2>1, <2>2
<1> QED
  BY <1>1

\* The way begins at the root, and goes on so at each height.
LEMMA WayDef ==
  ASSUME root \in Seq(Node), NEW parts \in Seq(Part)
  PROVE  /\ way(parts) \in [0..Len(parts) -> Seq(Part)] /\ way(parts)[0] = <<>>
         /\ \A h \in 1..Len(parts) : way(parts)[h] = goes(way(parts)[h - 1], parts[h])
<1>1. PICK n \in Nat : n = Len(parts)
  OBVIOUS
<1> DEFINE eq(w) == w = [height \in 0..n |->
                           IF height = 0 THEN <<>>
                           ELSE LET children == matchChildren(w[height - 1], parts[height])
                                    part == IF children = {} THEN parts[height]
                                            ELSE Last(root[Min(children)].parts)
                                IN Append(w[height - 1], part)]
           s == CHOOSE w : eq(w)
<1>2. \A i \in 1..n : parts[i] \in Part /\ i \in 0..n /\ i # 0 /\ i - 1 \in 0..n
  BY <1>1
<1>3. way(parts) = s
  BY <1>1, Zenon DEF way
<1>4. PICK S : S = Seq(Part)
  OBVIOUS
<1>5. PICK a \in S : a = <<>>
  <2>1. <<>> \in Seq(Part)
    OBVIOUS
  <2> QED
    BY <1>4, <2>1
<1>6. PICK g : g = [i \in 1..n |-> [q \in S |-> goes(q, parts[i])]]
  OBVIOUS
<1>7. ASSUME NEW q \in S, NEW i \in 1..n PROVE g[i][q] = goes(q, parts[i])
  BY <1>6
<1>8. ASSUME NEW q \in S, NEW i \in 1..n PROVE goes(q, parts[i]) \in S
  BY <1>2, <1>4, GoesType
<1>9. Steps(g, n, S)
  BY <1>6, <1>8 DEF Steps
<1>10. PICK fn : fn = iterate(a, g, n)
  OBVIOUS
<1>11. fn \in [0..n -> S] /\ fn[0] = a /\ \A i \in 1..n : fn[i] = g[i][fn[i - 1]]
  BY <1>9, <1>10, NatRecursion
<1>12. ASSUME NEW i \in 1..n PROVE fn[i] = goes(fn[i - 1], parts[i])
  <2>1. fn[i] = g[i][fn[i - 1]] /\ fn[i - 1] \in S
    BY <1>2, <1>11
  <2> QED
    BY <1>7, <2>1
<1>13. eq(fn)
  <2>1. ASSUME NEW i \in 0..n
        PROVE  fn[i] = IF i = 0 THEN <<>>
                      ELSE LET children == matchChildren(fn[i - 1], parts[i])
                               part == IF children = {} THEN parts[i]
                                       ELSE Last(root[Min(children)].parts)
                           IN Append(fn[i - 1], part)
    <3>1. CASE i = 0
      BY <1>5, <1>11, <3>1
    <3>2. CASE i # 0
      <4>1. i \in 1..n
        BY <3>2
      <4>2. fn[i] = goes(fn[i - 1], parts[i])
        BY <1>12, <4>1
      <4> QED
        BY <3>2, <4>2 DEF goes
    <3> QED
      BY <3>1, <3>2
  <2> QED
    BY <1>11, <2>1, Zenon
<1>14. eq(s)
  <2> HIDE DEF eq
  <2> QED
    BY <1>13
<1> HIDE DEF s
<1>15. s = [i \in 0..n |-> s[i]] /\ s[0] = <<>>
  <2>1. 0 \in 0..n
    OBVIOUS
  <2> QED
    BY <1>14, <2>1
<1>16. ASSUME NEW i \in 1..n PROVE s[i] = goes(s[i - 1], parts[i])
  BY <1>2, <1>14 DEF goes
<1> HIDE DEF eq
<1> DEFINE M == { i \in Nat : i <= n => s[i] \in S }
<1>17. 0 \in M
  BY <1>5, <1>15
<1>18. ASSUME NEW i \in Nat, i \in M PROVE i + 1 \in M
  <2> SUFFICES ASSUME i + 1 <= n PROVE s[i + 1] \in S
    OBVIOUS
  <2>1. s[i] \in S /\ i + 1 \in 1..n /\ (i + 1) - 1 = i
    BY <1>18
  <2>2. s[i + 1] = goes(s[i], parts[i + 1]) /\ parts[i + 1] \in Part
    BY <1>2, <1>16, <2>1
  <2> QED
    BY <1>4, <2>1, <2>2, GoesType
<1>19. Nat \subseteq M
  <2> HIDE DEF M
  <2> QED
    BY <1>17, <1>18, NatSetInduction
<1>20. \A i \in 0..n : s[i] \in S
  BY <1>19
<1>21. s \in [0..n -> S]
  BY <1>15, <1>20
<1> QED
  BY <1>1, <1>3, <1>4, <1>15, <1>16, <1>21

\* At each height the way has as many parts.
LEMMA WayLength ==
  ASSUME root \in Seq(Node), NEW parts \in Seq(Part), NEW n \in Nat, n <= Len(parts)
  PROVE  Len(way(parts)[n]) = n
<1> DEFINE w == way(parts)
           M == { h \in Nat : h <= Len(parts) => Len(w[h]) = h }
<1>1. /\ w \in [0..Len(parts) -> Seq(Part)] /\ w[0] = <<>> /\ Len(parts) \in Nat
      /\ \A h \in 1..Len(parts) : w[h] = goes(w[h - 1], parts[h]) /\ parts[h] \in Part
  BY WayDef
<1> HIDE DEF w
<1>2. 0 \in M
  BY <1>1
<1>3. ASSUME NEW h \in Nat, h \in M PROVE h + 1 \in M
  <2> SUFFICES ASSUME h + 1 <= Len(parts) PROVE Len(w[h + 1]) = h + 1
    OBVIOUS
  <2>1. h \in 0..Len(parts) /\ h + 1 \in 1..Len(parts) /\ (h + 1) - 1 = h /\ h <= Len(parts)
    BY <1>1
  <2>2. w[h] \in Seq(Part) /\ w[h + 1] = goes(w[h], parts[h + 1]) /\ parts[h + 1] \in Part
    BY <1>1, <2>1
  <2>3. Len(w[h]) = h
    BY <1>3, <2>1
  <2> QED
    BY <2>2, <2>3, GoesType
<1>4. Nat \subseteq M
  <2> HIDE DEF M
  <2> QED
    BY <1>2, <1>3, NatSetInduction
<1> QED
  BY <1>4 DEF w

\* What insert does to root: the nodes that were there stay, of which one may get the
\* pattern, and the missing ones come behind them, in the order of the way.
Inserted(pattern, known, new) ==
    LET parts == parsePattern(pattern)
        here == way(parts)
        n == Len(root)
    IN /\ known \in 0..Len(parts)
       /\ \E i \in 1..n : root[i].parts = here[known]
       /\ \A h \in (known + 1)..Len(parts), i \in 1..n : root[i].parts # here[h]
       /\ new \in Seq(Node) /\ Len(new) = n + (Len(parts) - known)
       /\ \A i \in 1..n : /\ new[i].parts = root[i].parts
                          /\ new[i].pattern = IF root[i].parts = here[Len(parts)] THEN pattern
                                              ELSE root[i].pattern
       /\ \A k \in 1..(Len(parts) - known) :
            /\ new[n + k].parts = here[known + k]
            /\ new[n + k].pattern = IF known + k = Len(parts) THEN pattern ELSE NoPattern

\* insert makes such a trie.
LEMMA InsertDef ==
  ASSUME root \in Seq(Node), root # <<>>, root[1].parts = <<>>, NEW pattern \in Seq(Part)
  PROVE  \E known \in Nat : Inserted(pattern, known, insert(pattern))
<1>1. PICK parts \in Seq(Part) : parts = parsePattern(pattern)
  BY ParseType
<1>2. PICK here : here = way(parts)
  OBVIOUS
<1>3. PICK m \in Nat : m = Len(parts)
  OBVIOUS
<1>4. PICK n \in Nat : n = Len(root) /\ 1 <= n
  OBVIOUS
<1>5. here \in [0..m -> Seq(Part)] /\ here[0] = <<>>
  BY <1>1, <1>2, <1>3, WayDef
<1>6. \A h \in 0..m : here[h] \in Seq(Part) /\ Len(here[h]) = h
  BY <1>1, <1>2, <1>3, <1>5, WayLength
<1> DEFINE H == {height \in 0..m : \E i \in DOMAIN root : root[i].parts = here[height]}
<1>7. PICK known : known = Max(H)
  OBVIOUS
<1>8. H \in SUBSET Nat /\ IsFiniteSet(H) /\ H # {}
  <2>1. IsFiniteSet(0..m)
    BY 0 \in Int, m \in Int, FS_Interval
  <2>2. H \subseteq 0..m
    OBVIOUS
  <2>3. 0 \in H
    <3>1. 1 \in DOMAIN root /\ root[1].parts = here[0] /\ 0 \in 0..m
      BY <1>4, <1>5
    <3> QED
      BY <3>1
  <2> QED
    BY <2>1, <2>2, <2>3, FS_Subset
<1>9. known \in H /\ \A h \in H : h <= known
  <2> HIDE DEF H
  <2> QED
    BY <1>7, <1>8, MaxIsLargest
<1>10. PICK d \in Nat : d = m - known /\ known \in 0..m
  <2>1. known \in 0..m
    BY <1>9
  <2> QED
    BY <2>1
<1>11. PICK tail : tail = [i \in 1..d |-> node(here[known + i])]
  OBVIOUS
<1>12. ASSUME NEW i \in 1..d PROVE node(here[known + i]) \in Node /\ known + i \in 0..m
  <2>1. known + i \in 0..m
    BY <1>10
  <2>2. <<>> \in Seq(Part)
    OBVIOUS
  <2> QED
    BY <1>6, <2>1, <2>2 DEF node, Node, NoPattern
<1>13. tail \in Seq(Node) /\ Len(tail) = d /\ \A i \in 1..d : tail[i] = node(here[known + i])
  BY <1>11, <1>12
<1>14. PICK nodes : nodes = root \o tail
  OBVIOUS
<1>15. /\ nodes \in Seq(Node) /\ Len(nodes) = n + d /\ DOMAIN nodes = 1..(n + d)
       /\ \A i \in 1..n : nodes[i] = root[i]
       /\ \A k \in 1..d : nodes[n + k] = node(here[known + k])
  <2>1. ASSUME NEW i \in 1..n PROVE nodes[i] = root[i]
    BY <1>4, <1>13, <1>14
  <2>2. ASSUME NEW k \in 1..d PROVE nodes[n + k] = node(here[known + k])
    <3>1. n + k \in 1..(n + d) /\ ~ (n + k <= n) /\ (n + k) - n = k
      OBVIOUS
    <3> QED
      BY <1>4, <1>13, <1>14, <3>1
  <2>3. nodes \in Seq(Node) /\ Len(nodes) = n + d
    <3>1. Len(nodes) = Len(root) + Len(tail) /\ nodes \in Seq(Node)
      BY <1>13, <1>14, ConcatProperties
    <3> QED
      BY <1>4, <1>13, <3>1
  <2> QED
    BY <2>1, <2>2, <2>3
<1>16. PICK new : new = [i \in 1..(n + d) |-> IF nodes[i].parts = here[m]
                                           THEN [nodes[i] EXCEPT !.pattern = pattern]
                                           ELSE nodes[i]]
  OBVIOUS
<1>17. insert(pattern) = new
  <2>1. insert(pattern) = [i \in DOMAIN nodes |-> IF nodes[i].parts = here[m]
                                           THEN [nodes[i] EXCEPT !.pattern = pattern]
                                           ELSE nodes[i]]
    BY <1>1, <1>2, <1>3, <1>7, <1>10, <1>11, <1>14, ZenonT(30) DEF insert
  <2> QED
    BY <1>15, <1>16, <2>1
<1>18. ASSUME NEW i \in 1..(n + d)
       PROVE  /\ new[i] \in Node /\ new[i].parts = nodes[i].parts
              /\ new[i].pattern = IF nodes[i].parts = here[m] THEN pattern ELSE nodes[i].pattern
  <2>1. PICK x : x = nodes[i]
    OBVIOUS
  <2>2. x \in Node
    BY <1>15, <2>1
  <2>3. new[i] = IF x.parts = here[m] THEN [x EXCEPT !.pattern = pattern] ELSE x
    BY <1>16, <2>1
  <2> QED
    BY <2>1, <2>2, <2>3 DEF Node
<1>19. new \in Seq(Node) /\ Len(new) = n + d
  <2>1. PICK l \in Nat : l = n + d
    OBVIOUS
  <2>2. new \in [1..l -> Node]
    BY <1>16, <1>18, <2>1
  <2>3. new \in Seq(Node) /\ Len(new) = l
    BY <2>2, SMTT(30)
  <2> QED
    BY <2>1, <2>3
<1>20. ASSUME NEW i \in 1..n
       PROVE  /\ new[i].parts = root[i].parts
              /\ new[i].pattern = IF root[i].parts = here[m] THEN pattern ELSE root[i].pattern
  <2>1. i \in 1..(n + d) /\ nodes[i] = root[i]
    BY <1>15, SMTT(30)
  <2> QED
    BY <1>18, <2>1
<1>21. ASSUME NEW k \in 1..d
       PROVE  /\ new[n + k].parts = here[known + k]
              /\ new[n + k].pattern = IF known + k = m THEN pattern ELSE NoPattern
  <2>1. n + k \in 1..(n + d) /\ nodes[n + k] = node(here[known + k])
    BY <1>15
  <2>2. nodes[n + k].parts = here[known + k] /\ nodes[n + k].pattern = NoPattern
    BY <2>1 DEF node
  <2>3. here[known + k] = here[m] <=> known + k = m
    BY <1>6, <1>12
  <2> QED
    BY <1>18, <2>1, <2>2, <2>3
<1>22. \E i \in 1..n : root[i].parts = here[known]
  BY <1>4, <1>9
<1>23. ASSUME NEW h \in (known + 1)..m, NEW i \in 1..n PROVE root[i].parts # here[h]
  <2>1. h \in 0..m /\ ~ (h <= known)
    BY <1>10
  <2>2. h \notin H
    BY <1>9, <2>1
  <2> QED
    BY <1>4, <2>1, <2>2
<1> HIDE DEF H
<1>24. Inserted(pattern, known, new)
  BY <1>1, <1>2, <1>3, <1>4, <1>10, <1>19, <1>20, <1>21, <1>22, <1>23 DEF Inserted
<1> QED
  BY <1>10, <1>17, <1>24
----------------------------------------------------------------------------
(* Adding a route *)

\* The parts of a route.
routeParts(r) == parsePattern(routes[r])

\* They are parts, of which only the last one may be a star.
LEMMA RoutePartsType ==
  ASSUME routes \in Seq(Seq(Part) \ {NoPattern}), NEW r \in 1..Len(routes)
  PROVE  /\ routes[r] \in Seq(Part) /\ routes[r] # NoPattern
         /\ routeParts(r) \in Seq(Part) /\ StarLast(routeParts(r))
<1>1. routes[r] \in Seq(Part) /\ routes[r] # NoPattern
  OBVIOUS
<1> QED
  BY <1>1, ParseType DEF routeParts

\* addRoute leaves the routes before as they are.
LEMMA RouteAdded ==
  ASSUME routes \in Seq(Seq(Part) \ {NoPattern}),
         NEW pattern \in Seq(Part) \ {NoPattern}, addRoute(pattern)
  PROVE  /\ routes' \in Seq(Seq(Part) \ {NoPattern}) /\ Len(routes') = Len(routes) + 1
         /\ Len(routes) \in Nat
         /\ routes'[Len(routes) + 1] = pattern
         /\ \A r \in 1..Len(routes) : routes'[r] = routes[r] /\ routeParts(r)' = routeParts(r)
         /\ root' = insert(pattern)
<1>1. routes' = Append(routes, pattern) /\ root' = insert(pattern)
  BY DEF addRoute
<1>2. /\ routes' \in Seq(Seq(Part) \ {NoPattern}) /\ Len(routes') = Len(routes) + 1
      /\ Len(routes) \in Nat /\ routes'[Len(routes) + 1] = pattern
      /\ \A r \in 1..Len(routes) : routes'[r] = routes[r]
  BY <1>1
<1> QED
  BY <1>1, <1>2 DEF routeParts

\* It keeps the shape of the trie.
LEMMA ShapeKept ==
  ASSUME TrieShape, NEW pattern \in Seq(Part) \ {NoPattern}, addRoute(pattern)
  PROVE  TrieShape'
<1>1. /\ root \in Seq(Node) /\ root # <<>> /\ root[1].parts = <<>>
      /\ routes \in Seq(Seq(Part) \ {NoPattern})
      /\ \A i \in 1..Len(root) : root[i].pattern # NoPattern =>
           /\ \E r \in 1..Len(routes) : routes[r] = root[i].pattern
           /\ Len(parsePattern(root[i].pattern)) = Len(root[i].parts)
  BY SMTT(30) DEF TrieShape
<1>2. /\ routes' \in Seq(Seq(Part) \ {NoPattern}) /\ Len(routes') = Len(routes) + 1
      /\ Len(routes) \in Nat /\ routes'[Len(routes) + 1] = pattern
      /\ \A r \in 1..Len(routes) : routes'[r] = routes[r]
      /\ root' = insert(pattern)
  BY <1>1, RouteAdded
<1>3. PICK known \in Nat : Inserted(pattern, known, root')
  BY <1>1, <1>2, InsertDef
<1>4. PICK parts \in Seq(Part) : parts = parsePattern(pattern)
  BY ParseType
<1>5. PICK here : here = way(parts)
  OBVIOUS
<1>6. PICK m \in Nat : m = Len(parts)
  OBVIOUS
<1>7. \A h \in 0..m : Len(here[h]) = h
  BY <1>1, <1>4, <1>5, <1>6, WayLength
<1>8. PICK n \in Nat : n = Len(root) /\ 1 <= n
  <2>1. root \in Seq(Node) /\ root # <<>>
    BY <1>1
  <2>2. Len(root) \in Nat /\ 1 <= Len(root)
    BY <2>1
  <2> QED
    BY <2>2
<1>9. /\ known \in 0..m /\ root' \in Seq(Node) /\ Len(root') = n + (m - known)
      /\ \A i \in 1..n : /\ root'[i].parts = root[i].parts
                         /\ root'[i].pattern = IF root[i].parts = here[m] THEN pattern
                                               ELSE root[i].pattern
      /\ \A k \in 1..(m - known) :
           /\ root'[n + k].parts = here[known + k]
           /\ root'[n + k].pattern = IF known + k = m THEN pattern ELSE NoPattern
  BY <1>3, <1>4, <1>5, <1>6, <1>8 DEF Inserted
<1>10. ASSUME NEW i \in 1..Len(root'), root'[i].pattern # NoPattern
       PROVE  /\ \E r \in 1..Len(routes') : routes'[r] = root'[i].pattern
              /\ Len(parsePattern(root'[i].pattern)) = Len(root'[i].parts)
  <2>1. Len(routes) + 1 \in 1..Len(routes')
    BY <1>2
  <2>2. CASE root'[i].pattern = pattern /\ Len(root'[i].parts) = m
    BY <1>2, <1>4, <1>6, <2>1, <2>2
  <2>3. CASE i \in 1..n
    <3>1. CASE root[i].parts = here[m]
      BY <1>6, <1>7, <1>9, <2>2, <2>3, <3>1
    <3>2. CASE root[i].parts # here[m]
      <4>1. root'[i].pattern = root[i].pattern /\ root'[i].parts = root[i].parts
        BY <1>9, <2>3, <3>2
      <4>2. PICK r \in 1..Len(routes) : routes[r] = root[i].pattern
        BY <1>1, <1>8, <1>10, <2>3, <4>1
      <4>3. r \in 1..Len(routes') /\ routes'[r] = routes[r]
        BY <1>2
      <4>4. Len(parsePattern(root[i].pattern)) = Len(root[i].parts)
        BY <1>1, <1>8, <1>10, <2>3, <4>1
      <4> QED
        BY <4>1, <4>2, <4>3, <4>4
    <3> QED
      BY <3>1, <3>2
  <2>4. CASE i \notin 1..n
    <3>1. PICK k \in 1..(m - known) : i = n + k
      <4>1. i - n \in 1..(m - known) /\ i = n + (i - n)
        BY <1>9, <2>4
      <4> QED
        BY <4>1
    <3>2. known + k = m
      BY <1>9, <1>10, <3>1
    <3>3. root'[i].pattern = pattern /\ root'[i].parts = here[m] /\ m \in 0..m
      <4>1. root'[n + k].parts = here[known + k]
        BY <1>9, <3>1
      <4>2. root'[n + k].pattern = IF known + k = m THEN pattern ELSE NoPattern
        BY <1>9, <3>1
      <4> QED
        BY <3>1, <3>2, <4>1, <4>2
    <3> QED
      BY <1>7, <2>2, <3>3
  <2> QED
    BY <2>3, <2>4
<1>11. root'[1].parts = <<>> /\ root' # <<>>
  BY <1>1, <1>8, <1>9
<1>12. DOMAIN root' = 1..Len(root') /\ DOMAIN routes' = 1..Len(routes')
  BY <1>2, <1>9
<1>13. \A i \in DOMAIN root' : root'[i].pattern # NoPattern =>
         /\ \E r \in DOMAIN routes' : routes'[r] = root'[i].pattern
         /\ Len(parsePattern(root'[i].pattern)) = Len(root'[i].parts)
  BY <1>10, <1>12, Zenon
<1> QED
  BY <1>2, <1>9, <1>11, <1>13, Zenon DEF TrieShape

\* Where two sequences first differ.
LEMMA DifferDef ==
  ASSUME NEW p \in Seq(Part), NEW q \in Seq(Part)
  PROVE  \/ /\ differAt(p, q) = 0
            /\ \A k \in 1..Len(p) : k <= Len(q) => p[k] = q[k]
         \/ /\ differAt(p, q) \in 1..Len(p) /\ differAt(p, q) \in 1..Len(q)
            /\ p[differAt(p, q)] # q[differAt(p, q)]
            /\ \A k \in 1..(differAt(p, q) - 1) : p[k] = q[k]
<1> DEFINE here == {i \in DOMAIN p \cap DOMAIN q : p[i] # q[i]}
<1>1. differAt(p, q) = IF here = {} THEN 0 ELSE Min(here)
  BY Zenon DEF differAt
<1>2. DOMAIN p = 1..Len(p) /\ DOMAIN q = 1..Len(q) /\ Len(p) \in Nat /\ Len(q) \in Nat
  OBVIOUS
<1>3. CASE here = {}
  <2>1. ASSUME NEW k \in 1..Len(p), k <= Len(q) PROVE p[k] = q[k]
    <3>1. k \in DOMAIN p \cap DOMAIN q
      BY <1>2, <2>1
    <3> QED
      BY <1>3, <3>1
  <2> QED
    BY <1>1, <1>3, <2>1
<1>4. CASE here # {}
  <2>1. PICK m : m = Min(here)
    OBVIOUS
  <2>2. here \in SUBSET Nat
    BY <1>2
  <2>3. m \in here /\ \A y \in here : m <= y
    <3> HIDE DEF here
    <3> QED
      BY <1>4, <2>1, <2>2, MinIsSmallest
  <2>4. m \in 1..Len(p) /\ m \in 1..Len(q) /\ p[m] # q[m]
    BY <1>2, <2>3
  <2>5. ASSUME NEW k \in 1..(m - 1) PROVE p[k] = q[k]
    <3>1. k \in DOMAIN p \cap DOMAIN q /\ ~ (m <= k)
      BY <1>2, <2>4
    <3>2. k \notin here
      BY <2>3, <3>1
    <3> QED
      BY <3>1, <3>2
  <2> QED
    BY <1>1, <1>4, <2>1, <2>4, <2>5
<1> QED
  BY <1>3, <1>4

\* Two routes with the same parts before a height and different ones there.
LEMMA DifferHere ==
  ASSUME NEW p \in Seq(Part), NEW q \in Seq(Part), NEW h \in 1..Len(p), h <= Len(q),
         p[h] # q[h], \A k \in 1..(h - 1) : p[k] = q[k]
  PROVE  differAt(p, q) = h
<1>1. PICK d : d = differAt(p, q)
  OBVIOUS
<1>2. PICK m \in Nat : m = Len(p)
  OBVIOUS
<1>3. d \in 1..m /\ p[d] # q[d] /\ \A k \in 1..(d - 1) : p[k] = q[k]
  BY <1>1, <1>2, DifferDef
<1>4. ~ (d < h)
  BY <1>2, <1>3
<1>5. ~ (h < d)
  BY <1>2, <1>3
<1> QED
  BY <1>1, <1>2, <1>3, <1>4, <1>5

\* No route before these parts is open where they have another part.
Apart(parts) ==
    \A r \in 1..Len(routes) : LET k == differAt(routeParts(r), parts)
                              IN k = 0 \/ ~isWild(routeParts(r)[k])

\* A route that is not merged was added to routes that were not.
LEMMA NotMerged ==
  ASSUME routes \in Seq(Seq(Part) \ {NoPattern}),
         NEW pattern \in Seq(Part) \ {NoPattern}, addRoute(pattern), ~merged'
  PROVE  ~merged /\ Apart(parsePattern(pattern))
<1>1. /\ routes' \in Seq(Seq(Part) \ {NoPattern}) /\ Len(routes') = Len(routes) + 1
      /\ Len(routes) \in Nat
      /\ parsePattern(routes'[Len(routes) + 1]) = parsePattern(pattern)
      /\ \A r \in 1..Len(routes) : routeParts(r)' = routeParts(r)
  BY RouteAdded
<1>2. DOMAIN routes = 1..Len(routes) /\ DOMAIN routes' = 1..(Len(routes) + 1)
  BY <1>1
<1>3. \A i, j \in DOMAIN routes' :
        ~ (/\ i < j /\ differAt(parsePattern(routes'[i]), parsePattern(routes'[j])) # 0
           /\ isWild(parsePattern(routes'[i])
                       [differAt(parsePattern(routes'[i]), parsePattern(routes'[j]))]))
  BY Zenon DEF merged
<1>4. \A i, j \in 1..(Len(routes) + 1) :
        i < j => LET k == differAt(parsePattern(routes'[i]), parsePattern(routes'[j]))
                 IN k = 0 \/ ~isWild(parsePattern(routes'[i])[k])
  BY <1>2, <1>3
<1>5. \A r \in 1..Len(routes) : parsePattern(routes'[r]) = routeParts(r)
  BY <1>1 DEF routeParts
<1>6. \A r \in 1..Len(routes) : r \in 1..(Len(routes) + 1) /\ r < Len(routes) + 1
                               /\ Len(routes) + 1 \in 1..(Len(routes) + 1)
  BY <1>1
<1>7. Apart(parsePattern(pattern))
  <2>1. ASSUME NEW r \in 1..Len(routes)
        PROVE  LET k == differAt(routeParts(r), parsePattern(pattern))
               IN k = 0 \/ ~isWild(routeParts(r)[k])
    BY <1>1, <1>4, <1>5, <1>6
  <2> QED
    BY <2>1 DEF Apart
<1>8. \A i, j \in 1..Len(routes) :
        i < j => LET k == differAt(routeParts(i), routeParts(j))
                 IN k = 0 \/ ~isWild(routeParts(i)[k])
  BY <1>1, <1>4, <1>5, <1>6
<1>9. ~merged
  BY <1>2, <1>8 DEF merged, routeParts
<1> QED
  BY <1>7, <1>9
----------------------------------------------------------------------------
(* The trie of routes none of which is merged *)

\* A sequence is the beginning of another one.
leads(s, t) == Len(s) <= Len(t) /\ \A k \in 1..Len(s) : s[k] = t[k]

\* Two sequences differ at most in the last part.
siblings(s, t) == Len(s) = Len(t) /\ Len(s) # 0 /\ \A k \in 1..(Len(s) - 1) : s[k] = t[k]

\* No two nodes have the same parts.
NodesDiffer == \A i, j \in 1..Len(root) : root[i].parts = root[j].parts => i = j

\* Every node below the root is on the way of a route.
NodesLead ==
    \A i \in 1..Len(root) :
        Len(root[i].parts) # 0 => \E r \in 1..Len(routes) : leads(root[i].parts, routeParts(r))

\* A route has a node at every height.
RoutesHaveNodes ==
    \A r \in 1..Len(routes) : \A k \in 0..Len(routeParts(r)) :
        \E i \in 1..Len(root) : Len(root[i].parts) = k /\ leads(root[i].parts, routeParts(r))

\* A wild child is the last one of its node.
WildComesLast ==
    \A i, j \in 1..Len(root) : (i < j /\ siblings(root[i].parts, root[j].parts)) =>
        ~isWild(root[i].parts[Len(root[i].parts)])

\* A node has the pattern of the last route with its parts.
PatternsLast ==
    \A i \in 1..Len(root) :
        \/ /\ root[i].pattern = NoPattern
           /\ \A r \in 1..Len(routes) : routeParts(r) # root[i].parts
        \/ \E r \in 1..Len(routes) :
             /\ routeParts(r) = root[i].parts /\ root[i].pattern = routes[r]
             /\ \A s \in 1..Len(routes) : routeParts(s) = root[i].parts => s <= r

\* The trie is the one of the routes, and nothing else.
TrieExact == NodesDiffer /\ NodesLead /\ RoutesHaveNodes /\ WildComesLast /\ PatternsLast

\* The inductive invariant of the router.
RouterInv == TrieShape /\ (~merged => TrieExact)

\* A sequence has one beginning of each length.
LEMMA LeadsEqual ==
  ASSUME NEW s \in Seq(Part), NEW t \in Seq(Part), NEW u \in Seq(Part), Len(s) = Len(t),
         leads(s, u), leads(t, u)
  PROVE  s = t
<1>1. \A k \in 1..Len(s) : s[k] = t[k]
  BY DEF leads
<1> QED
  BY <1>1, SameElements

\* The types of a node.
LEMMA NodeParts ==
  ASSUME root \in Seq(Node), NEW i \in 1..Len(root)
  PROVE  root[i] \in Node /\ root[i].parts \in Seq(Part) /\ Len(root[i].parts) \in Nat
<1>1. root[i] \in Node
  OBVIOUS
<1>2. root[i].parts \in Seq(Part)
  BY <1>1 DEF Node
<1> QED
  BY <1>1, <1>2

\* Of parts that no route before leaves open, the way is the way of these parts.
LEMMA WayIsOwn ==
  ASSUME TrieShape, NodesLead, NEW q \in Seq(Part), Apart(q), NEW h \in Nat, h <= Len(q)
  PROVE  leads(way(q)[h], q)
<1> DEFINE w == way(q)
           M == { i \in Nat : i <= Len(q) => leads(w[i], q) }
<1>1. /\ root \in Seq(Node) /\ routes \in Seq(Seq(Part) \ {NoPattern})
      /\ Len(routes) \in Nat
  BY DEF TrieShape
<1>2. /\ w \in [0..Len(q) -> Seq(Part)] /\ w[0] = <<>> /\ Len(q) \in Nat
      /\ \A i \in 1..Len(q) : w[i] = goes(w[i - 1], q[i]) /\ q[i] \in Part
  BY <1>1, WayDef
<1>3. ASSUME NEW i \in Nat, i <= Len(q) PROVE Len(w[i]) = i
  BY <1>1, <1>3, WayLength
<1> HIDE DEF w
<1>4. 0 \in M
  BY <1>2 DEF leads
<1>5. ASSUME NEW i \in Nat, i \in M PROVE i + 1 \in M
  <2> SUFFICES ASSUME i + 1 <= Len(q) PROVE leads(w[i + 1], q)
    OBVIOUS
  <2>1. i \in 0..Len(q) /\ i + 1 \in 1..Len(q) /\ (i + 1) - 1 = i /\ i <= Len(q)
    BY <1>2
  <2>2. PICK here \in Seq(Part) : here = w[i]
    BY <1>2, <2>1
  <2>3. w[i + 1] = goes(here, q[i + 1]) /\ q[i + 1] \in Part
    BY <1>2, <2>1, <2>2
  <2>4. Len(here) = i /\ \A k \in 1..i : here[k] = q[k]
    BY <1>3, <1>5, <2>1, <2>2 DEF leads
  <2>5. PICK e \in Part : goes(here, q[i + 1]) = Append(here, e) /\ e = q[i + 1]
    <3>1. CASE matchChildren(here, q[i + 1]) = {}
      BY <2>3, <3>1 DEF goes
    <3>2. CASE matchChildren(here, q[i + 1]) # {}
      <4>1. PICK c : c = Min(matchChildren(here, q[i + 1]))
        OBVIOUS
      <4>2. c \in matchChildren(here, q[i + 1])
        BY <1>1, <3>2, <4>1, ChildrenType, MinIsSmallest
      <4>3. PICK e : e = Last(root[c].parts)
        OBVIOUS
      <4>4. PICK t : t = root[c].parts
        OBVIOUS
      <4>5. /\ c \in 1..Len(root) /\ e \in Part /\ t = Append(here, e)
            /\ e = q[i + 1] \/ isWild(e)
        BY <1>1, <4>2, <4>3, <4>4, ChildrenType
      <4>6. Len(t) = i + 1 /\ t[i + 1] = e /\ \A k \in 1..i : t[k] = q[k]
        BY <2>4, <4>5
      <4>7. PICK r \in 1..Len(routes) : leads(t, routeParts(r))
        <5>1. Len(t) # 0
          BY <4>6
        <5> QED
          BY <4>4, <4>5, <5>1 DEF NodesLead
      <4>8. PICK p \in Seq(Part) : p = routeParts(r)
        BY <1>1, RoutePartsType
      <4>9. i + 1 \in 1..Len(p) /\ p[i + 1] = e /\ \A k \in 1..i : p[k] = q[k]
        <5>1. i + 1 <= Len(p) /\ \A k \in 1..(i + 1) : t[k] = p[k]
          BY <4>6, <4>7, <4>8 DEF leads
        <5>2. \A k \in 1..i : k \in 1..(i + 1)
          OBVIOUS
        <5>3. i + 1 \in 1..(i + 1) /\ Len(p) \in Nat
          OBVIOUS
        <5> QED
          BY <4>6, <5>1, <5>2, <5>3
      <4>10. e = q[i + 1]
        <5> SUFFICES ASSUME e # q[i + 1] PROVE FALSE
          OBVIOUS
        <5>1. (i + 1) - 1 = i
          OBVIOUS
        <5>2. differAt(p, q) = i + 1
          BY <4>9, <5>1, DifferHere
        <5>3. differAt(p, q) = 0 \/ ~isWild(p[differAt(p, q)])
          BY <4>8 DEF Apart
        <5> QED
          BY <4>5, <4>9, <5>2, <5>3
      <4>11. goes(here, q[i + 1]) = Append(here, e)
        BY <3>2, <4>1, <4>3 DEF goes
      <4> QED
        BY <4>5, <4>10, <4>11
    <3> QED
      BY <3>1, <3>2
  <2>6. PICK s : s = w[i + 1]
    OBVIOUS
  <2>7. Len(s) = i + 1 /\ s[i + 1] = q[i + 1] /\ \A k \in 1..i : s[k] = q[k]
    <3>1. s = Append(here, e)
      BY <2>3, <2>5, <2>6
    <3>2. Len(s) = Len(here) + 1 /\ s[Len(here) + 1] = e /\ \A k \in 1..Len(here) : s[k] = here[k]
      BY <3>1
    <3> QED
      BY <2>4, <2>5, <3>2
  <2>8. \A k \in 1..(i + 1) : k \in 1..i \/ k = i + 1
    OBVIOUS
  <2>9. \A k \in 1..(i + 1) : s[k] = q[k]
    BY <2>7, <2>8
  <2> QED
    BY <2>6, <2>7, <2>9 DEF leads
<1>6. Nat \subseteq M
  <2> HIDE DEF M
  <2> QED
    BY <1>4, <1>5, NatSetInduction
<1>7. h \in M
  BY <1>6
<1> QED
  BY <1>7 DEF w

\* What insert does when the way is the one of the parts: q are the parts of the
\* pattern, the nodes with the first known of them were there, the longer ones are new.
InsertedExactly(q, pattern, known) ==
    LET n == Len(root)
    IN /\ known \in 0..Len(q)
       /\ \A i \in 1..n : /\ root'[i].parts = root[i].parts
                          /\ root'[i].pattern = IF root[i].parts = q THEN pattern
                                                ELSE root[i].pattern
       /\ Len(root') = n + (Len(q) - known)
       /\ \A h \in 0..known : \E i \in 1..n : Len(root[i].parts) = h /\ leads(root[i].parts, q)
       /\ \A i \in 1..n : leads(root[i].parts, q) => Len(root[i].parts) <= known
       /\ \A k \in 1..(Len(q) - known) :
            /\ Len(root'[n + k].parts) = known + k /\ leads(root'[n + k].parts, q)
            /\ root'[n + k].pattern = IF known + k = Len(q) THEN pattern ELSE NoPattern

\* A route that is not merged is inserted so.
LEMMA InsertExact ==
  ASSUME TrieShape, TrieExact, NEW pattern \in Seq(Part) \ {NoPattern}, addRoute(pattern),
         Apart(parsePattern(pattern))
  PROVE  \E known \in Nat : InsertedExactly(parsePattern(pattern), pattern, known)
<1>1. /\ root \in Seq(Node) /\ root # <<>> /\ root[1].parts = <<>>
      /\ routes \in Seq(Seq(Part) \ {NoPattern}) /\ NodesLead /\ RoutesHaveNodes
  BY DEF TrieShape, TrieExact
<1>2. root' = insert(pattern)
  BY <1>1, RouteAdded
<1>3. PICK known \in Nat : Inserted(pattern, known, root')
  BY <1>1, <1>2, InsertDef
<1>4. PICK q \in Seq(Part) : q = parsePattern(pattern)
  BY ParseType
<1>5. PICK here : here = way(q)
  OBVIOUS
<1>6. PICK m \in Nat : m = Len(q)
  OBVIOUS
<1>7. PICK n \in Nat : n = Len(root) /\ 1 <= n
  <2>1. root \in Seq(Node) /\ root # <<>>
    BY <1>1
  <2>2. Len(root) \in Nat /\ 1 <= Len(root)
    BY <2>1
  <2> QED
    BY <2>2
<1>8. here \in [0..m -> Seq(Part)]
  BY <1>1, <1>5, <1>6, WayDef
<1>9. ASSUME NEW h \in 0..m PROVE here[h] \in Seq(Part) /\ Len(here[h]) = h /\ leads(here[h], q)
  <2>1. h \in Nat /\ h <= Len(q)
    BY <1>6
  <2>2. Len(here[h]) = h
    BY <1>1, <1>5, <2>1, WayLength
  <2>3. leads(here[h], q)
    BY <1>1, <1>4, <1>5, <2>1, WayIsOwn
  <2> QED
    BY <1>8, <2>2, <2>3
<1>10. /\ known \in 0..m /\ root' \in Seq(Node) /\ Len(root') = n + (m - known)
       /\ \E i \in 1..n : root[i].parts = here[known]
       /\ \A h \in (known + 1)..m, i \in 1..n : root[i].parts # here[h]
       /\ \A i \in 1..n : /\ root'[i].parts = root[i].parts
                          /\ root'[i].pattern = IF root[i].parts = here[m] THEN pattern
                                                ELSE root[i].pattern
       /\ \A k \in 1..(m - known) :
            /\ root'[n + k].parts = here[known + k]
            /\ root'[n + k].pattern = IF known + k = m THEN pattern ELSE NoPattern
  BY <1>3, <1>4, <1>5, <1>6, <1>7 DEF Inserted
<1>11. here[m] = q
  <2>1. here[m] \in Seq(Part) /\ Len(here[m]) = m /\ leads(here[m], q)
    BY <1>6, <1>9
  <2>2. leads(q, q)
    BY DEF leads
  <2> QED
    BY <1>6, <2>1, <2>2, LeadsEqual
<1>12. ASSUME NEW h \in 0..known
       PROVE  \E i \in 1..n : Len(root[i].parts) = h /\ leads(root[i].parts, q)
  <2>1. PICK i \in 1..n : root[i].parts = here[known]
    BY <1>10
  <2>2. PICK t \in Seq(Part) : t = here[known] /\ Len(t) = known /\ leads(t, q)
    BY <1>9, <1>10
  <2>3. CASE known = 0
    <3>1. Len(root[i].parts) = h /\ leads(root[i].parts, q)
      BY <2>1, <2>2, <2>3
    <3> QED
      BY <3>1
  <2>4. CASE known # 0
    <3>1. PICK r \in 1..Len(routes) : leads(t, routeParts(r))
      BY <1>1, <1>7, <2>1, <2>2, <2>4 DEF NodesLead
    <3>2. PICK p \in Seq(Part) : p = routeParts(r)
      BY <1>1, RoutePartsType
    <3>3. h \in 0..Len(p) /\ \A k \in 1..known : p[k] = q[k]
      <4>1. Len(p) \in Nat /\ known <= Len(p)
        BY <2>2, <3>1, <3>2 DEF leads
      <4>2. \A k \in 1..known : t[k] = p[k] /\ t[k] = q[k]
        BY <2>2, <3>1, <3>2 DEF leads
      <4> QED
        BY <4>1, <4>2
    <3>4. PICK j \in 1..n : Len(root[j].parts) = h /\ leads(root[j].parts, p)
      BY <1>1, <1>7, <3>2, <3>3 DEF RoutesHaveNodes
    <3>5. h <= Len(q) /\ \A k \in 1..h : root[j].parts[k] = q[k]
      <4>1. \A k \in 1..h : k \in 1..known
        OBVIOUS
      <4>2. known <= Len(q)
        BY <1>6, <1>10
      <4> QED
        BY <1>6, <3>3, <3>4, <4>1, <4>2 DEF leads
    <3>6. leads(root[j].parts, q)
      BY <3>4, <3>5 DEF leads
    <3> QED
      BY <3>4, <3>6
  <2> QED
    BY <2>3, <2>4
<1>13. ASSUME NEW i \in 1..n, leads(root[i].parts, q) PROVE Len(root[i].parts) <= known
  <2>1. PICK t \in Seq(Part) : t = root[i].parts
    BY <1>1, <1>7, NodeParts
  <2>2. PICK h \in Nat : h = Len(t)
    OBVIOUS
  <2>3. h <= m
    BY <1>6, <1>13, <2>1, <2>2 DEF leads
  <2>4. t = here[h]
    BY <1>9, <1>13, <2>1, <2>2, <2>3, LeadsEqual
  <2>5. ~ (h > known)
    <3> SUFFICES ASSUME h > known PROVE FALSE
      OBVIOUS
    <3>1. h \in (known + 1)..m
      BY <2>3
    <3>2. root[i].parts # here[h]
      BY <1>10, <3>1
    <3> QED
      BY <2>1, <2>4, <3>2
  <2> QED
    BY <2>1, <2>2, <2>5
<1>14. ASSUME NEW k \in 1..(m - known)
       PROVE  Len(root'[n + k].parts) = known + k /\ leads(root'[n + k].parts, q)
  <2>1. known + k \in 0..m
    BY <1>10
  <2>2. root'[n + k].parts = here[known + k]
    BY <1>10
  <2> QED
    BY <1>9, <2>1, <2>2
<1>15. InsertedExactly(q, pattern, known)
  <2>1. \A i \in 1..n : /\ root'[i].parts = root[i].parts
                        /\ root'[i].pattern = IF root[i].parts = q THEN pattern
                                              ELSE root[i].pattern
    BY <1>10, <1>11
  <2>2. \A k \in 1..(m - known) :
          /\ Len(root'[n + k].parts) = known + k /\ leads(root'[n + k].parts, q)
          /\ root'[n + k].pattern = IF known + k = m THEN pattern ELSE NoPattern
    BY <1>10, <1>14
  <2> QED
    BY <1>6, <1>7, <1>10, <1>12, <1>13, <2>1, <2>2 DEF InsertedExactly
<1> QED
  BY <1>4, <1>15

\* Adding one keeps the trie exact: its new nodes are its own, and behind their siblings.
LEMMA ExactKept ==
  ASSUME TrieShape, TrieExact, NEW pattern \in Seq(Part) \ {NoPattern}, addRoute(pattern),
         Apart(parsePattern(pattern))
  PROVE  TrieExact'
<1>1. /\ root \in Seq(Node) /\ routes \in Seq(Seq(Part) \ {NoPattern})
      /\ NodesDiffer /\ NodesLead /\ RoutesHaveNodes /\ WildComesLast /\ PatternsLast
  BY DEF TrieShape, TrieExact
<1>2. root' \in Seq(Node) /\ routes' \in Seq(Seq(Part) \ {NoPattern})
  BY ShapeKept DEF TrieShape
<1>3. PICK q \in Seq(Part) : q = parsePattern(pattern)
  BY ParseType
<1>4. PICK m \in Nat : m = Len(q)
  OBVIOUS
<1>5. PICK n \in Nat : n = Len(root)
  BY <1>1
<1>6. PICK z \in Nat : z = Len(routes)
  BY <1>1
<1>7. /\ Len(routes') = z + 1 /\ routes'[z + 1] = pattern
      /\ parsePattern(routes'[z + 1]) = q
      /\ \A r \in 1..z : /\ routes'[r] = routes[r]
                         /\ parsePattern(routes'[r]) = routeParts(r)
  BY <1>1, <1>3, <1>6, RouteAdded DEF routeParts
<1>8. PICK known \in Nat : InsertedExactly(q, pattern, known)
  BY <1>3, InsertExact
<1>9. /\ known \in 0..m /\ Len(root') = n + (m - known)
      /\ \A h \in 0..known : \E i \in 1..n : Len(root[i].parts) = h /\ leads(root[i].parts, q)
  BY <1>4, <1>5, <1>8 DEF InsertedExactly
<1>10. ASSUME NEW i \in 1..n
       PROVE  /\ root'[i].parts = root[i].parts
              /\ root'[i].pattern = IF root[i].parts = q THEN pattern ELSE root[i].pattern
              /\ leads(root[i].parts, q) => Len(root[i].parts) <= known
              /\ root[i].parts \in Seq(Part) /\ Len(root[i].parts) \in Nat
  BY <1>1, <1>5, <1>8, NodeParts DEF InsertedExactly
<1>11. ASSUME NEW i \in 1..(n + (m - known)), i \notin 1..n
       PROVE  /\ i - n \in 1..(m - known) /\ known + (i - n) \in 1..m
              /\ Len(root'[i].parts) = known + (i - n) /\ leads(root'[i].parts, q)
              /\ root'[i].pattern = IF known + (i - n) = m THEN pattern ELSE NoPattern
              /\ root'[i].parts \in Seq(Part)
  <2>1. PICK k \in 1..(m - known) : i = n + k /\ k = i - n /\ known + k \in 1..m
    <3>1. i - n \in 1..(m - known) /\ i = n + (i - n) /\ known + (i - n) \in 1..m
      BY <1>9, <1>11
    <3> QED
      BY <3>1
  <2>2. /\ Len(root'[n + k].parts) = known + k /\ leads(root'[n + k].parts, q)
        /\ root'[n + k].pattern = IF known + k = m THEN pattern ELSE NoPattern
    BY <1>4, <1>5, <1>8 DEF InsertedExactly
  <2>3. root'[i].parts \in Seq(Part)
    <3>1. root'[i] \in Node
      BY <1>2, <1>9
    <3> QED
      BY <3>1 DEF Node
  <2> QED
    BY <2>1, <2>2, <2>3
<1>12. \A r \in 1..(z + 1) : r \in 1..z \/ r = z + 1
  OBVIOUS
<1>13. NodesDiffer'
  <2> SUFFICES ASSUME NEW i \in 1..Len(root'), NEW j \in 1..Len(root'),
                      root'[i].parts = root'[j].parts
               PROVE  i = j
    BY DEF NodesDiffer
  <2>1. i \in 1..(n + (m - known)) /\ j \in 1..(n + (m - known))
    BY <1>9
  <2>2. CASE i \in 1..n /\ j \in 1..n
    BY <1>1, <1>5, <1>10, <2>2 DEF NodesDiffer
  <2>3. CASE i \in 1..n /\ j \notin 1..n
    <3>1. Len(root'[j].parts) > known /\ leads(root'[j].parts, q)
      BY <1>9, <1>11, <2>1, <2>3
    <3>2. leads(root[i].parts, q) /\ Len(root[i].parts) > known
      BY <1>10, <2>3, <3>1
    <3> QED
      BY <1>10, <2>3, <3>2
  <2>4. CASE i \notin 1..n /\ j \in 1..n
    <3>1. Len(root'[i].parts) > known /\ leads(root'[i].parts, q)
      BY <1>9, <1>11, <2>1, <2>4, SMTT(30)
    <3>2. leads(root[j].parts, q) /\ Len(root[j].parts) > known
      BY <1>10, <2>4, <3>1
    <3> QED
      BY <1>10, <2>4, <3>2
  <2>5. CASE i \notin 1..n /\ j \notin 1..n
    <3>1. Len(root'[i].parts) = known + (i - n) /\ Len(root'[j].parts) = known + (j - n)
      BY <1>11, <2>1, <2>5
    <3>2. known + (i - n) = known + (j - n)
      BY <3>1
    <3> QED
      BY <2>1, <3>2
  <2> QED
    BY <2>2, <2>3, <2>4, <2>5
<1>14. NodesLead'
  <2> SUFFICES ASSUME NEW i \in 1..Len(root'), Len(root'[i].parts) # 0
               PROVE  \E r \in 1..Len(routes') : leads(root'[i].parts, parsePattern(routes'[r]))
    BY DEF NodesLead, routeParts
  <2>1. i \in 1..(n + (m - known))
    BY <1>9
  <2>2. CASE i \in 1..n
    <3>1. PICK r \in 1..z : leads(root[i].parts, routeParts(r))
      BY <1>1, <1>5, <1>6, <1>10, <2>2 DEF NodesLead
    <3>2. r \in 1..Len(routes') /\ leads(root'[i].parts, parsePattern(routes'[r]))
      BY <1>7, <1>10, <2>2, <3>1
    <3> QED
      BY <3>2
  <2>3. CASE i \notin 1..n
    <3>1. z + 1 \in 1..Len(routes') /\ leads(root'[i].parts, parsePattern(routes'[z + 1]))
      BY <1>7, <1>11, <2>1, <2>3
    <3> QED
      BY <3>1
  <2> QED
    BY <2>2, <2>3
<1>15. RoutesHaveNodes'
  <2> SUFFICES ASSUME NEW r \in 1..Len(routes'), NEW k \in 0..Len(parsePattern(routes'[r]))
               PROVE  \E i \in 1..Len(root') : Len(root'[i].parts) = k
                                               /\ leads(root'[i].parts, parsePattern(routes'[r]))
    BY DEF RoutesHaveNodes, routeParts
  <2>1. \A i \in 1..n : i \in 1..Len(root')
    BY <1>9
  <2>2. CASE r \in 1..z
    <3>1. PICK i \in 1..n : Len(root[i].parts) = k /\ leads(root[i].parts, routeParts(r))
      BY <1>1, <1>5, <1>6, <1>7, <2>2 DEF RoutesHaveNodes
    <3>2. Len(root'[i].parts) = k /\ leads(root'[i].parts, parsePattern(routes'[r]))
      BY <1>7, <1>10, <2>2, <3>1
    <3> QED
      BY <2>1, <3>2
  <2>3. CASE r = z + 1
    <3>1. k \in 0..m
      BY <1>4, <1>7, <2>3
    <3>2. CASE k <= known
      <4>1. PICK i \in 1..n : Len(root[i].parts) = k /\ leads(root[i].parts, q)
        BY <1>9, <3>1, <3>2
      <4>2. Len(root'[i].parts) = k /\ leads(root'[i].parts, q)
        BY <1>10, <4>1
      <4> QED
        BY <1>7, <2>1, <2>3, <4>2
    <3>3. CASE ~ (k <= known)
      <4>1. PICK i \in 1..(n + (m - known)) : i = n + (k - known) /\ i \notin 1..n
        <5>1. n + (k - known) \in 1..(n + (m - known)) /\ n + (k - known) \notin 1..n
          BY <1>9, <3>1, <3>3
        <5> QED
          BY <5>1
      <4>2. Len(root'[i].parts) = known + (i - n) /\ leads(root'[i].parts, q)
        BY <1>11, <4>1
      <4>3. known + (i - n) = k
        BY <3>1, <4>1
      <4> QED
        BY <1>7, <1>9, <2>3, <4>1, <4>2, <4>3
    <3> QED
      BY <3>2, <3>3
  <2> QED
    BY <1>7, <1>12, <2>2, <2>3
<1>16. WildComesLast'
  <2> SUFFICES ASSUME NEW i \in 1..Len(root'), NEW j \in 1..Len(root'), i < j,
                      siblings(root'[i].parts, root'[j].parts)
               PROVE  ~isWild(root'[i].parts[Len(root'[i].parts)])
    BY DEF WildComesLast
  <2>1. i \in 1..(n + (m - known)) /\ j \in 1..(n + (m - known))
    BY <1>9
  <2>2. CASE i \in 1..n /\ j \in 1..n
    <3>1. siblings(root[i].parts, root[j].parts)
      BY <1>10, <2>2
    <3>2. ~isWild(root[i].parts[Len(root[i].parts)])
      BY <1>1, <1>5, <2>2, <3>1 DEF WildComesLast
    <3> QED
      BY <1>10, <2>2, <3>2
  <2>3. CASE i \in 1..n /\ j \notin 1..n
    <3>1. PICK s \in Seq(Part) : s = root[i].parts /\ s = root'[i].parts
      BY <1>10, <2>3
    <3>2. PICK t \in Seq(Part) : t = root'[j].parts
      BY <1>11, <2>1, <2>3
    <3>3. PICK h \in Nat : h = Len(t) /\ h > known /\ h <= m
      BY <1>9, <1>11, <2>1, <2>3, <3>2, SMTT(30)
    <3>4. leads(t, q) /\ Len(s) = h /\ h # 0 /\ \A k \in 1..(h - 1) : s[k] = t[k]
      BY <1>11, <2>1, <2>3, <3>1, <3>2, <3>3 DEF siblings
    <3>5. \A k \in 1..h : t[k] = q[k]
      BY <3>3, <3>4 DEF leads
    <3>6. s[h] # q[h] /\ \A k \in 1..(h - 1) : s[k] = q[k]
      <4>1. \A k \in 1..(h - 1) : s[k] = q[k]
        BY <3>4, <3>5
      <4>2. ASSUME s[h] = q[h] PROVE FALSE
        <5>1. \A k \in 1..h : k = h \/ k \in 1..(h - 1)
          OBVIOUS
        <5>2. \A k \in 1..h : s[k] = q[k]
          BY <4>1, <4>2, <5>1
        <5>3. leads(s, q)
          BY <1>4, <3>3, <3>4, <5>2 DEF leads
        <5> QED
          BY <1>10, <2>3, <3>1, <3>3, <3>4, <5>3, SMTT(30)
      <4> QED
        BY <4>1, <4>2
    <3>7. PICK r \in 1..z : leads(s, routeParts(r))
      BY <1>1, <1>5, <1>6, <2>3, <3>1, <3>4 DEF NodesLead
    <3>8. PICK p \in Seq(Part) : p = routeParts(r)
      BY <1>1, <1>6, RoutePartsType
    <3>9. h \in 1..Len(p) /\ \A k \in 1..h : s[k] = p[k]
      BY <3>4, <3>7, <3>8 DEF leads
    <3>10. p[h] # q[h] /\ \A k \in 1..(h - 1) : p[k] = q[k]
      <4>1. h \in 1..h /\ \A k \in 1..(h - 1) : k \in 1..h
        BY <3>4
      <4> QED
        BY <3>6, <3>9, <4>1
    <3>11. differAt(p, q) = h
      BY <1>4, <3>3, <3>9, <3>10, DifferHere
    <3>12. differAt(p, q) = 0 \/ ~isWild(p[differAt(p, q)])
      BY <1>3, <1>6, <3>8 DEF Apart
    <3>13. ~isWild(p[h]) /\ p[h] = s[h]
      BY <3>4, <3>9, <3>11, <3>12
    <3> QED
      BY <3>1, <3>4, <3>13
  <2>4. CASE i \notin 1..n /\ j \notin 1..n
    <3>1. Len(root'[i].parts) = known + (i - n) /\ Len(root'[j].parts) = known + (j - n)
      BY <1>11, <2>1, <2>4
    <3>2. known + (i - n) = known + (j - n)
      BY <3>1 DEF siblings
    <3> QED
      BY <2>1, <3>2
  <2>5. ~ (i \notin 1..n /\ j \in 1..n)
    BY <2>1
  <2> QED
    BY <2>2, <2>3, <2>4, <2>5
<1>17. PatternsLast'
  <2> SUFFICES ASSUME NEW i \in 1..Len(root')
               PROVE  \/ /\ root'[i].pattern = NoPattern
                         /\ \A r \in 1..Len(routes') : parsePattern(routes'[r]) # root'[i].parts
                      \/ \E r \in 1..Len(routes') :
                           /\ parsePattern(routes'[r]) = root'[i].parts
                           /\ root'[i].pattern = routes'[r]
                           /\ \A s \in 1..Len(routes') :
                                parsePattern(routes'[s]) = root'[i].parts => s <= r
    BY DEF PatternsLast, routeParts
  <2>1. i \in 1..(n + (m - known))
    BY <1>9
  <2>2. CASE root'[i].parts = q /\ root'[i].pattern = pattern
    <3>1. z + 1 \in 1..Len(routes') /\ \A s \in 1..Len(routes') : s <= z + 1
      BY <1>7
    <3> QED
      BY <1>7, <2>2, <3>1
  <2>3. CASE i \in 1..n /\ root[i].parts # q
    <3>1. root'[i].parts = root[i].parts /\ root'[i].pattern = root[i].pattern
      BY <1>10, <2>3
    <3>2. CASE /\ root[i].pattern = NoPattern
               /\ \A r \in 1..z : routeParts(r) # root[i].parts
      <4>1. \A r \in 1..Len(routes') : parsePattern(routes'[r]) # root[i].parts
        BY <1>7, <1>12, <2>3, <3>2
      <4> QED
        BY <3>1, <3>2, <4>1
    <3>3. CASE \E r \in 1..z : /\ routeParts(r) = root[i].parts /\ root[i].pattern = routes[r]
                               /\ \A s \in 1..z : routeParts(s) = root[i].parts => s <= r
      <4>1. PICK r \in 1..z : /\ routeParts(r) = root[i].parts /\ root[i].pattern = routes[r]
                              /\ \A s \in 1..z : routeParts(s) = root[i].parts => s <= r
        BY <3>3
      <4>2. /\ r \in 1..Len(routes') /\ parsePattern(routes'[r]) = root'[i].parts
            /\ root'[i].pattern = routes'[r]
        BY <1>7, <3>1, <4>1
      <4>3. ASSUME NEW s \in 1..Len(routes'), parsePattern(routes'[s]) = root'[i].parts
            PROVE  s <= r
        <5>1. s \in 1..z
          BY <1>7, <1>12, <2>3, <3>1, <4>3
        <5> QED
          BY <1>7, <3>1, <4>1, <4>3, <5>1
      <4> QED
        BY <4>2, <4>3
    <3> QED
      BY <1>1, <1>5, <1>6, <2>3, <3>2, <3>3 DEF PatternsLast
  <2>4. CASE i \in 1..n /\ root[i].parts = q
    BY <1>10, <2>2, <2>4
  <2>5. CASE i \notin 1..n
    <3>1. PICK t \in Seq(Part) : t = root'[i].parts /\ leads(t, q)
      BY <1>11, <2>1, <2>5
    <3>2. PICK h \in 1..m : h = known + (i - n)
      BY <1>11, <2>1, <2>5
    <3>3. Len(t) = h /\ h > known /\ root'[i].pattern = IF h = m THEN pattern ELSE NoPattern
      <4>1. i - n \in 1..(m - known)
        BY <1>11, <2>1, <2>5
      <4> QED
        BY <1>11, <2>1, <2>5, <3>1, <3>2, <4>1
    <3>4. CASE h = m
      <4>1. leads(q, q)
        BY DEF leads
      <4>2. t = q
        BY <1>4, <3>1, <3>3, <3>4, <4>1, LeadsEqual
      <4> QED
        BY <2>2, <3>1, <3>3, <3>4, <4>2
    <3>5. CASE h # m
      <4>1. ASSUME NEW r \in 1..z, routeParts(r) = t PROVE FALSE
        <5>1. h \in 0..Len(routeParts(r))
          BY <3>3, <4>1
        <5>2. PICK j \in 1..n : Len(root[j].parts) = h /\ leads(root[j].parts, t)
          BY <1>1, <1>5, <1>6, <4>1, <5>1 DEF RoutesHaveNodes
        <5>3. leads(t, t)
          BY DEF leads
        <5>4. root[j].parts = t
          BY <1>10, <3>3, <5>2, <5>3, LeadsEqual
        <5> QED
          BY <1>10, <3>1, <3>3, <5>4, SMTT(30)
      <4>2. q # t
        BY <1>4, <3>3, <3>5
      <4>3. \A r \in 1..Len(routes') : parsePattern(routes'[r]) # root'[i].parts
        BY <1>7, <1>12, <3>1, <4>1, <4>2
      <4> QED
        BY <3>3, <3>5, <4>3
    <3> QED
      BY <3>4, <3>5
  <2> QED
    BY <2>3, <2>4, <2>5
<1> QED
  BY <1>13, <1>14, <1>15, <1>16, <1>17 DEF TrieExact

\* The invariant holds of the trie with only its root.
LEMMA RouterStarts ==
  ASSUME RouterInit PROVE RouterInv
<1>1. root = <<node(<<>>)>> /\ routes = <<>> /\ node(<<>>) \in Node
  <2>1. <<>> \in Seq(Part)
    OBVIOUS
  <2> QED
    BY <2>1 DEF RouterInit, node, Node, NoPattern
<1>2. /\ root \in Seq(Node) /\ Len(root) = 1 /\ root # <<>> /\ Len(routes) = 0
      /\ routes \in Seq(Seq(Part) \ {NoPattern})
      /\ root[1].parts = <<>> /\ root[1].pattern = NoPattern /\ root[1] = node(<<>>)
  <2>1. root[1].parts = <<>> /\ root[1].pattern = NoPattern
    BY <1>1 DEF node
  <2> QED
    BY <1>1, <2>1
<1>3. DOMAIN root = {1} /\ 1..Len(root) = {1} /\ 1..Len(routes) = {} /\ DOMAIN routes = {}
  BY <1>2
<1>4. TrieShape
  BY <1>2, <1>3 DEF TrieShape
<1>5. NodesDiffer /\ NodesLead /\ RoutesHaveNodes /\ PatternsLast
  BY <1>2, <1>3 DEF NodesDiffer, NodesLead, RoutesHaveNodes, PatternsLast
<1>6. WildComesLast
  BY <1>3 DEF WildComesLast
<1> QED
  BY <1>4, <1>5, <1>6 DEF RouterInv, TrieExact

\* Adding any route keeps the invariant.
LEMMA RouterKept ==
  ASSUME RouterInv, NEW pattern \in Seq(Part) \ {NoPattern}, addRoute(pattern)
  PROVE  RouterInv'
<1>1. TrieShape /\ (~merged => TrieExact) /\ routes \in Seq(Seq(Part) \ {NoPattern})
  BY DEF RouterInv, TrieShape
<1>2. TrieShape'
  BY <1>1, ShapeKept
<1>3. ASSUME ~merged' PROVE TrieExact'
  <2>1. ~merged /\ Apart(parsePattern(pattern))
    BY <1>1, <1>3, NotMerged
  <2> QED
    BY <1>1, <2>1, ExactKept
<1> QED
  BY <1>2, <1>3 DEF RouterInv
----------------------------------------------------------------------------
(* Searching *)

\* The patterns found below each node.
results(parts) ==
    CHOOSE fn : fn = [i \in within(parts) |->
            LET n == root[i]
                children == matchChildren(n.parts, parts[Len(n.parts) + 1])
                found == {c \in children : fn[c] # NoPattern}
            IN IF arrived(n, parts) THEN n.pattern
               ELSE IF found = {} THEN NoPattern ELSE fn[Min(found)]]

\* The children that fit the next part, those of them below which a pattern was
\* found, and what the search finds at a node.
below(i, parts) == matchChildren(root[i].parts, parts[Len(root[i].parts) + 1])

answered(fn, i, parts) == {c \in below(i, parts) : fn[c] # NoPattern}

looks(fn, i, parts) == IF arrived(root[i], parts) THEN root[i].pattern
                      ELSE IF answered(fn, i, parts) = {} THEN NoPattern
                      ELSE fn[Min(answered(fn, i, parts))]

\* A search goes on to nodes with one more part.
LEMMA BelowWithin ==
  ASSUME root \in Seq(Node), NEW parts \in Seq(Part), NEW i \in within(parts)
  PROVE  /\ i \in 1..Len(root) /\ root[i].parts \in Seq(Part) /\ Len(root[i].parts) \in Nat
         /\ Len(root[i].parts) <= Len(parts)
         /\ below(i, parts) \in SUBSET Nat
         /\ ~arrived(root[i], parts) =>
              /\ Len(root[i].parts) + 1 <= Len(parts) /\ ~endsInStar(root[i].parts)
              /\ \A c \in below(i, parts) :
                   c \in within(parts) /\ Len(root[c].parts) = Len(root[i].parts) + 1
<1>1. i \in 1..Len(root) /\ Len(root[i].parts) <= Len(parts)
  BY DEF within
<1>2. root[i].parts \in Seq(Part) /\ Len(root[i].parts) \in Nat
  BY <1>1, NodeParts
<1>3. below(i, parts) \in SUBSET Nat
  BY <1>2, ChildrenType DEF below
<1>4. ASSUME ~arrived(root[i], parts)
      PROVE  Len(root[i].parts) + 1 <= Len(parts) /\ ~endsInStar(root[i].parts)
  BY <1>1, <1>2, <1>4 DEF arrived
<1>5. ASSUME ~arrived(root[i], parts), NEW c \in below(i, parts)
      PROVE  c \in within(parts) /\ Len(root[c].parts) = Len(root[i].parts) + 1
  <2>1. PICK here \in Seq(Part) : here = root[i].parts
    BY <1>2
  <2>2. c \in 1..Len(root) /\ root[c].parts = Append(here, Last(root[c].parts))
        /\ Last(root[c].parts) \in Part
    BY <1>5, <2>1, ChildrenType, SMTT(30) DEF below
  <2>3. Len(root[c].parts) = Len(here) + 1
    BY <2>2
  <2> QED
    BY <1>4, <1>5, <2>1, <2>2, <2>3 DEF within
<1> QED
  BY <1>1, <1>2, <1>3, <1>4, <1>5

\* search is what it finds at the root, and this follows at each node from the children.
LEMMA SearchDef ==
  ASSUME root \in Seq(Node), root # <<>>, root[1].parts = <<>>, NEW parts \in Seq(Part)
  PROVE  /\ search(parts) = results(parts)[1] /\ 1 \in within(parts)
         /\ \A i \in within(parts) : results(parts)[i] = looks(results(parts), i, parts)
<1> DEFINE W == within(parts)
           eq(fn) == fn = [i \in W |->
                LET n == root[i]
                    children == matchChildren(n.parts, parts[Len(n.parts) + 1])
                    found == {c \in children : fn[c] # NoPattern}
                IN IF arrived(n, parts) THEN n.pattern
                   ELSE IF found = {} THEN NoPattern ELSE fn[Min(found)]]
           s == CHOOSE fn : eq(fn)
<1>1. search(parts) = s[1] /\ results(parts) = s
  BY Zenon DEF search, results
<1>2. PICK m \in Nat : m = Len(parts)
  OBVIOUS
<1> DEFINE size(i) == m - Len(root[i].parts)
           Solves(fn, k) == \A i \in W : size(i) < k => fn[i] = looks(fn, i, parts)
           K == { k \in Nat : \E fn \in [W -> Seq(Part)] : Solves(fn, k) }
<1>3. \A i \in W : size(i) \in 0..m
  BY <1>2, BelowWithin
<1>4. 0 \in K
  <2>1. <<>> \in Seq(Part)
    OBVIOUS
  <2>2. [i \in W |-> <<>>] \in [W -> Seq(Part)]
    BY <2>1
  <2>3. \A i \in W : ~ (size(i) < 0)
    BY <1>3
  <2> QED
    BY <2>2, <2>3
<1>5. ASSUME NEW k \in Nat, k \in K PROVE k + 1 \in K
  <2>1. PICK fn \in [W -> Seq(Part)] : Solves(fn, k)
    BY <1>5
  <2>2. ASSUME NEW i \in W PROVE looks(fn, i, parts) \in Seq(Part)
    <3>1. CASE arrived(root[i], parts)
      <4>1. root[i] \in Node
        BY BelowWithin, NodeParts
      <4> QED
        BY <3>1, <4>1 DEF looks, Node
    <3>2. CASE ~arrived(root[i], parts) /\ answered(fn, i, parts) = {}
      <4>1. <<>> \in Seq(Part)
        OBVIOUS
      <4> QED
        BY <3>2, <4>1 DEF looks, NoPattern
    <3>3. CASE ~arrived(root[i], parts) /\ answered(fn, i, parts) # {}
      <4>1. PICK c : c = Min(answered(fn, i, parts))
        OBVIOUS
      <4>2. answered(fn, i, parts) \in SUBSET Nat
        BY BelowWithin DEF answered
      <4>3. c \in answered(fn, i, parts)
        BY <3>3, <4>1, <4>2, MinIsSmallest
      <4>4. c \in W
        BY <3>3, <4>3, BelowWithin DEF answered
      <4> QED
        BY <3>3, <4>1, <4>4 DEF looks
    <3> QED
      BY <3>1, <3>2, <3>3
  <2>3. PICK h : h = [i \in W |-> IF size(i) = k THEN looks(fn, i, parts) ELSE fn[i]]
    OBVIOUS
  <2>4. h \in [W -> Seq(Part)]
    <3> HIDE DEF W, size
    <3> QED
      BY <2>2, <2>3
  <2>5. ASSUME NEW i \in W, size(i) < k + 1 PROVE looks(h, i, parts) = looks(fn, i, parts)
    <3>1. CASE arrived(root[i], parts)
      BY <3>1 DEF looks
    <3>2. CASE ~arrived(root[i], parts)
      <4>1. ASSUME NEW c \in below(i, parts) PROVE c \in W /\ h[c] = fn[c]
        <5>1. c \in W /\ Len(root[c].parts) = Len(root[i].parts) + 1
          BY <3>2, BelowWithin
        <5>2. size(c) # k
          BY <1>3, <2>5, <5>1, BelowWithin, SMTT(30)
        <5> QED
          BY <2>3, <5>1, <5>2
      <4>2. answered(h, i, parts) = answered(fn, i, parts)
        BY <4>1 DEF answered
      <4>3. CASE answered(fn, i, parts) = {}
        BY <3>2, <4>2, <4>3 DEF looks
      <4>4. CASE answered(fn, i, parts) # {}
        <5>1. PICK c : c = Min(answered(fn, i, parts))
          OBVIOUS
        <5>2. answered(fn, i, parts) \in SUBSET Nat
          BY BelowWithin DEF answered
        <5>3. c \in below(i, parts)
          BY <4>4, <5>1, <5>2, MinIsSmallest DEF answered
        <5>4. h[c] = fn[c]
          BY <4>1, <5>3
        <5> QED
          BY <3>2, <4>2, <4>4, <5>1, <5>4 DEF looks
      <4> QED
        BY <4>3, <4>4
    <3> QED
      BY <3>1, <3>2
  <2>6. ASSUME NEW i \in W, size(i) < k + 1 PROVE h[i] = looks(h, i, parts)
    <3>1. CASE size(i) = k
      BY <2>3, <2>5, <2>6, <3>1
    <3>2. CASE size(i) # k
      <4>1. size(i) < k
        <5>1. PICK d \in 0..m : d = size(i)
          BY <1>3
        <5>2. d < k + 1 /\ d # k
          BY <2>6, <3>2, <5>1
        <5>3. d < k
          BY <5>2
        <5> QED
          BY <5>1, <5>3
      <4>2. fn[i] = looks(fn, i, parts)
        BY <2>1, <4>1
      <4> QED
        BY <2>3, <2>5, <2>6, <3>2, <4>2
    <3> QED
      BY <3>1, <3>2
  <2> QED
    BY <2>4, <2>6
<1>6. m + 1 \in K
  <2> HIDE DEF K
  <2>1. Nat \subseteq K
    BY <1>4, <1>5, NatSetInduction
  <2> QED
    BY <2>1
<1>7. PICK fn \in [W -> Seq(Part)] : Solves(fn, m + 1)
  BY <1>6
<1>8. ASSUME NEW i \in W PROVE fn[i] = looks(fn, i, parts)
  BY <1>3, <1>7
<1>9. eq(fn)
  <2>1. fn = [i \in W |-> looks(fn, i, parts)]
    <3> HIDE DEF W
    <3> QED
      BY <1>7, <1>8
  <2> QED
    BY <2>1, Zenon DEF looks, answered, below
<1>10. eq(s)
  <2> HIDE DEF eq
  <2> QED
    BY <1>9
<1> HIDE DEF s
<1>11. ASSUME NEW i \in W PROVE s[i] = looks(s, i, parts)
  BY <1>10, Zenon DEF looks, answered, below
<1>12. 1 \in W
  BY DEF within
<1> QED
  BY <1>1, <1>11, <1>12

\* A search finds the pattern of a node that is not longer than the path.
LEMMA SearchFindsNode ==
  ASSUME root \in Seq(Node), root # <<>>, root[1].parts = <<>>, NEW parts \in Seq(Part),
         search(parts) # NoPattern
  PROVE  \E j \in within(parts) : search(parts) = root[j].pattern
<1> DEFINE W == within(parts)
           fn == results(parts)
           Found(i) == fn[i] # NoPattern => \E j \in W : fn[i] = root[j].pattern
           M == { k \in Nat : \A i \in W : Len(parts) - Len(root[i].parts) <= k => Found(i) }
<1>1. /\ search(parts) = fn[1] /\ 1 \in W
      /\ \A i \in W : fn[i] = looks(fn, i, parts)
  BY SearchDef
<1>2. PICK m \in Nat : m = Len(parts)
  OBVIOUS
<1> HIDE DEF fn
<1>3. \A i \in W : Len(root[i].parts) \in 0..m
  BY <1>2, BelowWithin
<1>4. ASSUME NEW i \in W, arrived(root[i], parts) PROVE Found(i)
  BY <1>1, <1>4 DEF looks
<1>5. 0 \in M
  <2>1. ASSUME NEW i \in W, Len(parts) - Len(root[i].parts) <= 0 PROVE Found(i)
    <3>1. Len(root[i].parts) = Len(parts)
      BY <1>2, <1>3, <2>1
    <3> QED
      BY <1>4, <3>1 DEF arrived
  <2> QED
    BY <2>1
<1>6. ASSUME NEW k \in Nat, k \in M PROVE k + 1 \in M
  <2>0. PICK n \in Nat : n = k + 1
    OBVIOUS
  <2>1. ASSUME NEW i \in W, Len(parts) - Len(root[i].parts) <= n PROVE Found(i)
    <3>1. CASE ~arrived(root[i], parts) /\ answered(fn, i, parts) = {}
      BY <1>1, <3>1 DEF looks
    <3>2. CASE ~arrived(root[i], parts) /\ answered(fn, i, parts) # {}
      <4>1. PICK c : c = Min(answered(fn, i, parts))
        OBVIOUS
      <4>2. answered(fn, i, parts) \in SUBSET Nat
        BY BelowWithin DEF answered
      <4>3. c \in below(i, parts)
        BY <3>2, <4>1, <4>2, MinIsSmallest DEF answered
      <4>4. c \in W /\ Len(root[c].parts) = Len(root[i].parts) + 1
        BY <3>2, <4>3, BelowWithin
      <4>5. PICK a \in 0..m : a = Len(root[i].parts)
        BY <1>3
      <4>6. m - a <= k + 1
        BY <1>2, <2>0, <2>1, <4>5
      <4>7. Len(parts) - Len(root[c].parts) <= k
        <5>1. m - (a + 1) <= k
          BY <4>6
        <5> QED
          BY <1>2, <4>4, <4>5, <5>1
      <4>8. Found(c)
        BY <1>6, <4>4, <4>7
      <4>9. fn[i] = fn[c]
        BY <1>1, <3>2, <4>1 DEF looks
      <4> QED
        BY <4>8, <4>9
    <3> QED
      BY <1>4, <3>1, <3>2
  <2>2. n \in M
    <3> HIDE DEF Found
    <3> QED
      BY <2>1
  <2> QED
    BY <2>0, <2>2
<1>7. Nat \subseteq M
  <2> HIDE DEF M
  <2> QED
    BY <1>5, <1>6, NatSetInduction
<1>8. m \in M
  BY <1>7
<1>9. Found(1)
  <2>1. Len(parts) - Len(root[1].parts) <= m
    BY <1>1, <1>2, <1>3
  <2> QED
    BY <1>1, <1>8, <2>1
<1> QED
  BY <1>1, <1>9

\* The parts of a node fit a path.
fits(s, path) == \A k \in 1..Len(s) : s[k] = path[k] \/ isWild(s[k])

\* The routes below some parts that match a path, and which of them is the better one.
foundBelow(s, path) ==
    {r \in 1..Len(routes) : leads(s, routeParts(r)) /\ matches(routeParts(r), path)}

\* A route comes before another one.
isBetter(h, j) == LET k == differAt(routeParts(h), routeParts(j))
                  IN IF k = 0 THEN j <= h ELSE ~isWild(routeParts(h)[k])

\* A pattern is the one of the best route below these parts, or there is none.
isBest(v, s, path) ==
    \/ v = NoPattern /\ foundBelow(s, path) = {}
    \/ \E h \in foundBelow(s, path) : v = routes[h] /\ \A j \in foundBelow(s, path) : isBetter(h, j)

\* A route that matches is not longer than the path.
LEMMA MatchLength ==
  ASSUME NEW p \in Seq(Part), NEW path \in Seq(Part), matches(p, path)
  PROVE  /\ Len(p) <= Len(path) /\ fits(p, path)
         /\ Len(p) = Len(path) \/ \E i \in 1..Len(p) : p[i] \in Star
<1>1. DOMAIN p = 1..Len(p) /\ Len(p) \in Nat /\ Len(path) \in Nat
  OBVIOUS
<1>2. /\ \A i \in 1..Len(p) : i <= Len(path) /\ (p[i] = path[i] \/ isWild(p[i]))
      /\ Len(p) = Len(path) \/ \E i \in 1..Len(p) : p[i] \in Star
  BY <1>1 DEF matches
<1>3. Len(p) <= Len(path)
  <2>1. CASE Len(p) = 0
    BY <1>1, <2>1
  <2>2. CASE Len(p) # 0
    <3>1. Len(p) \in 1..Len(p)
      BY <1>1, <2>2
    <3> QED
      BY <1>2, <3>1
  <2> QED
    BY <2>1, <2>2
<1> QED
  BY <1>2, <1>3 DEF fits

\* A node at which a search has arrived has the best of the routes below it.
LEMMA BestWhereArrived ==
  ASSUME TrieShape, TrieExact, NEW path \in Seq(Part), NEW i \in within(path),
         fits(root[i].parts, path), arrived(root[i], path)
  PROVE  isBest(root[i].pattern, root[i].parts, path)
<1>1. /\ root \in Seq(Node) /\ routes \in Seq(Seq(Part) \ {NoPattern}) /\ PatternsLast
  BY DEF TrieShape, TrieExact
<1>2. PICK s \in Seq(Part) : s = root[i].parts /\ i \in 1..Len(root) /\ Len(s) <= Len(path)
  BY <1>1, BelowWithin
<1>3. Len(s) \in Nat /\ Len(path) \in Nat /\ DOMAIN s = 1..Len(s)
  OBVIOUS
<1>4. ASSUME NEW r \in foundBelow(s, path) PROVE routeParts(r) = s
  <2>1. r \in 1..Len(routes) /\ leads(s, routeParts(r)) /\ matches(routeParts(r), path)
    BY DEF foundBelow
  <2>2. PICK p \in Seq(Part) : p = routeParts(r) /\ StarLast(p)
    BY <1>1, <2>1, RoutePartsType
  <2>3. Len(s) <= Len(p) /\ Len(p) <= Len(path) /\ Len(p) \in Nat
        /\ \A k \in 1..Len(s) : s[k] = p[k]
    BY <2>1, <2>2, MatchLength DEF leads
  <2>4. Len(s) = Len(p)
    <3>1. CASE Len(s) = Len(path)
      BY <1>3, <2>3, <3>1
    <3>2. CASE endsInStar(s)
      <4>1. Len(s) \in 1..Len(s) /\ s[Len(s)] \in Star
        BY <1>3, <3>2 DEF endsInStar, Last
      <4>2. p[Len(s)] \in Star /\ Len(s) \in 1..Len(p)
        BY <1>3, <2>3, <4>1
      <4> QED
        BY <2>2, <4>2 DEF StarLast
    <3> QED
      BY <1>2, <3>1, <3>2 DEF arrived
  <2> QED
    BY <2>2, <2>3, <2>4, SameElements
<1>5. ASSUME NEW r \in 1..Len(routes), routeParts(r) = s PROVE r \in foundBelow(s, path)
  <2>1. leads(s, s)
    BY <1>3 DEF leads
  <2>2. \A k \in DOMAIN s : k <= Len(path) /\ (s[k] = path[k] \/ isWild(s[k]))
    BY <1>2, <1>3 DEF fits
  <2>3. Len(s) = Len(path) \/ \E k \in DOMAIN s : s[k] \in Star
    <3>1. ASSUME endsInStar(s) PROVE \E k \in DOMAIN s : s[k] \in Star
      <4>1. Len(s) \in DOMAIN s /\ s[Len(s)] \in Star
        BY <1>3, <3>1 DEF endsInStar, Last
      <4> QED
        BY <4>1
    <3> QED
      BY <1>2, <3>1 DEF arrived
  <2>4. matches(s, path)
    BY <2>2, <2>3 DEF matches
  <2> QED
    BY <1>5, <2>1, <2>4 DEF foundBelow
<1>6. CASE /\ root[i].pattern = NoPattern /\ \A r \in 1..Len(routes) : routeParts(r) # s
  <2>1. foundBelow(s, path) = {}
    BY <1>4, <1>6 DEF foundBelow
  <2> QED
    BY <1>2, <1>6, <2>1 DEF isBest
<1>7. CASE \E r \in 1..Len(routes) :
             /\ routeParts(r) = s /\ root[i].pattern = routes[r]
             /\ \A q \in 1..Len(routes) : routeParts(q) = s => q <= r
  <2>1. PICK r \in 1..Len(routes) :
             /\ routeParts(r) = s /\ root[i].pattern = routes[r]
             /\ \A q \in 1..Len(routes) : routeParts(q) = s => q <= r
    BY <1>7
  <2>2. r \in foundBelow(s, path)
    BY <1>5, <2>1
  <2>3. differAt(s, s) = 0
    BY DifferDef
  <2>4. ASSUME NEW j \in foundBelow(s, path) PROVE isBetter(r, j)
    <3>1. routeParts(j) = s /\ j \in 1..Len(routes)
      BY <1>4 DEF foundBelow
    <3>2. j <= r
      BY <2>1, <3>1
    <3> QED
      BY <2>1, <2>3, <3>1, <3>2 DEF isBetter
  <2> QED
    BY <1>2, <2>1, <2>2, <2>4 DEF isBest
<1> QED
  BY <1>1, <1>2, <1>6, <1>7 DEF PatternsLast

\* A search that goes on from a node has the best of the routes below it, when it has
\* the best of those below each child that fits.
LEMMA BestWhereGoing ==
  ASSUME TrieShape, TrieExact, NEW path \in Seq(Part), NEW fn, NEW i \in within(path),
         fits(root[i].parts, path), ~arrived(root[i], path),
         \A c \in below(i, path) : fits(root[c].parts, path) => isBest(fn[c], root[c].parts, path)
  PROVE  isBest(looks(fn, i, path), root[i].parts, path)
<1>1. /\ root \in Seq(Node) /\ routes \in Seq(Seq(Part) \ {NoPattern})
      /\ NodesDiffer /\ RoutesHaveNodes /\ WildComesLast
  BY DEF TrieShape, TrieExact
<1>2. PICK s \in Seq(Part) : s = root[i].parts
  BY <1>1, BelowWithin
<1>3. PICK l \in Nat : l = Len(s) /\ l + 1 <= Len(path) /\ ~endsInStar(s) /\ i \in 1..Len(root)
  BY <1>1, <1>2, BelowWithin
<1>4. below(i, path) = matchChildren(s, path[l + 1]) /\ below(i, path) \in SUBSET Nat
  BY <1>1, <1>2, <1>3, BelowWithin DEF below
<1>5. Len(path) \in Nat
  OBVIOUS
<1>6. ASSUME NEW c \in below(i, path)
      PROVE  /\ c \in 1..Len(root) /\ root[c].parts \in Seq(Part) /\ Len(root[c].parts) = l + 1
             /\ \A k \in 1..l : root[c].parts[k] = s[k]
             /\ isBest(fn[c], root[c].parts, path)
  <2>1. PICK t : t = root[c].parts
    OBVIOUS
  <2>2. PICK e : e = Last(t)
    OBVIOUS
  <2>3. /\ c \in 1..Len(root) /\ t \in Seq(Part) /\ e \in Part /\ t = Append(s, e)
        /\ e = path[l + 1] \/ isWild(e)
    BY <1>1, <1>4, <2>1, <2>2, ChildrenType
  <2>4. Len(t) = l + 1 /\ t[l + 1] = e /\ \A k \in 1..l : t[k] = s[k]
    BY <1>3, <2>3
  <2>5. fits(t, path)
    <3>1. \A k \in 1..(l + 1) : k \in 1..l \/ k = l + 1
      OBVIOUS
    <3>2. \A k \in 1..l : s[k] = path[k] \/ isWild(s[k])
      BY <1>2, <1>3 DEF fits
    <3>3. \A k \in 1..(l + 1) : t[k] = path[k] \/ isWild(t[k])
      BY <2>3, <2>4, <3>1, <3>2
    <3> QED
      BY <2>4, <3>3 DEF fits
  <2> QED
    BY <2>1, <2>3, <2>4, <2>5
\* A matching route goes on through a child that fits.
<1>7. ASSUME NEW r \in foundBelow(s, path)
      PROVE  \E c \in below(i, path) : r \in foundBelow(root[c].parts, path)
  <2>1. r \in 1..Len(routes) /\ leads(s, routeParts(r)) /\ matches(routeParts(r), path)
    BY DEF foundBelow
  <2>2. PICK p \in Seq(Part) : p = routeParts(r) /\ StarLast(p)
    BY <1>1, <2>1, RoutePartsType
  <2>3. /\ Len(p) \in Nat /\ l <= Len(p) /\ \A k \in 1..l : s[k] = p[k]
        /\ fits(p, path)
        /\ Len(p) = Len(path) \/ \E k \in 1..Len(p) : p[k] \in Star
    <3>1. Len(p) \in Nat /\ l <= Len(p) /\ \A k \in 1..l : s[k] = p[k]
      BY <1>3, <2>1, <2>2 DEF leads
    <3>2. /\ fits(p, path)
          /\ Len(p) = Len(path) \/ \E k \in 1..Len(p) : p[k] \in Star
      BY <2>1, <2>2, MatchLength
    <3> QED
      BY <3>1, <3>2
  <2>4. l + 1 <= Len(p)
    <3> SUFFICES ASSUME Len(p) = l PROVE FALSE
      BY <2>3
    <3>1. PICK k \in 1..l : p[k] \in Star
      BY <1>3, <1>5, <2>3
    <3>2. k = l
      BY <2>2, <3>1 DEF StarLast
    <3>3. s[l] \in Star /\ s # <<>>
      BY <1>3, <2>3, <3>1, <3>2
    <3> QED
      BY <1>3, <3>3 DEF endsInStar, Last
  <2>5. PICK c \in 1..Len(root) : Len(root[c].parts) = l + 1 /\ leads(root[c].parts, p)
    <3>1. l + 1 \in 0..Len(routeParts(r))
      BY <2>2, <2>3, <2>4
    <3> QED
      BY <1>1, <2>1, <2>2, <3>1 DEF RoutesHaveNodes
  <2>6. PICK t \in Seq(Part) : t = root[c].parts
    BY <1>1, NodeParts
  <2>7. Len(t) = l + 1 /\ \A k \in 1..(l + 1) : t[k] = p[k]
    BY <2>5, <2>6 DEF leads
  <2>8. t # <<>> /\ Last(t) = t[l + 1] /\ Front(t) = s
    <3>1. t # <<>>
      BY <2>7
    <3>2. /\ Last(t) = t[Len(t)] /\ Front(t) \in Seq(Part) /\ Len(Front(t)) = Len(t) - 1
          /\ \A k \in 1..(Len(t) - 1) : Front(t)[k] = t[k]
      BY <3>1, FrontLast
    <3>3. PICK u \in Seq(Part) : u = Front(t)
      BY <3>2
    <3>4. Len(t) - 1 = l
      BY <2>7
    <3>5. Len(u) = l /\ \A k \in 1..l : u[k] = t[k]
      BY <3>2, <3>3, <3>4
    <3>6. \A k \in 1..l : u[k] = s[k]
      <4>1. \A k \in 1..l : k \in 1..(l + 1)
        OBVIOUS
      <4> QED
        BY <2>3, <2>7, <3>5, <4>1
    <3>7. u = s
      BY <1>3, <3>5, <3>6, SameElements
    <3> QED
      BY <2>7, <3>1, <3>2, <3>3, <3>7
  <2>9. t[l + 1] = path[l + 1] \/ isWild(t[l + 1])
    <3>1. l + 1 \in 1..(l + 1) /\ l + 1 \in 1..Len(p)
      BY <2>3, <2>4
    <3> QED
      BY <2>3, <2>7, <3>1 DEF fits
  <2>10. c \in matchChildren(s, path[l + 1])
    <3>1. c \in DOMAIN root
      BY <1>1
    <3> QED
      BY <2>6, <2>8, <2>9, <3>1 DEF matchChildren
  <2>11. r \in foundBelow(root[c].parts, path)
    BY <2>1, <2>2, <2>5 DEF foundBelow
  <2> QED
    BY <1>4, <2>10, <2>11
<1>8. ASSUME NEW c \in below(i, path), NEW r \in foundBelow(root[c].parts, path)
      PROVE  r \in foundBelow(s, path)
  <2>1. PICK t \in Seq(Part) : t = root[c].parts /\ Len(t) = l + 1 /\ \A k \in 1..l : t[k] = s[k]
    BY <1>6
  <2>2. r \in 1..Len(routes) /\ leads(t, routeParts(r)) /\ matches(routeParts(r), path)
    BY <2>1 DEF foundBelow
  <2>3. PICK p \in Seq(Part) : p = routeParts(r)
    BY <1>1, <2>2, RoutePartsType
  <2>4. leads(s, p)
    <3>1. Len(p) \in Nat /\ l + 1 <= Len(p) /\ \A k \in 1..(l + 1) : t[k] = p[k]
      BY <2>1, <2>2, <2>3 DEF leads
    <3>2. \A k \in 1..l : k \in 1..(l + 1)
      OBVIOUS
    <3> QED
      BY <1>3, <2>1, <3>1, <3>2 DEF leads
  <2> QED
    BY <2>2, <2>3, <2>4 DEF foundBelow
<1>9. ASSUME NEW c \in below(i, path)
      PROVE  fn[c] = NoPattern <=> foundBelow(root[c].parts, path) = {}
  <2>1. \A r \in foundBelow(root[c].parts, path) : routes[r] # NoPattern
    BY <1>1, RoutePartsType DEF foundBelow
  <2>2. isBest(fn[c], root[c].parts, path)
    BY <1>6
  <2> QED
    BY <2>1, <2>2 DEF isBest
<1>10. CASE answered(fn, i, path) = {}
  <2>1. looks(fn, i, path) = NoPattern
    BY <1>10 DEF looks
  <2>2. \A c \in below(i, path) : fn[c] = NoPattern
    BY <1>10 DEF answered
  <2>3. foundBelow(s, path) = {}
    BY <1>7, <1>9, <2>2
  <2> QED
    BY <1>2, <2>1, <2>3 DEF isBest
<1>11. CASE answered(fn, i, path) # {}
  <2>1. PICK m : m = Min(answered(fn, i, path))
    OBVIOUS
  <2>2. answered(fn, i, path) \in SUBSET Nat
    BY <1>4 DEF answered
  <2>3. m \in answered(fn, i, path) /\ \A c \in answered(fn, i, path) : m <= c
    BY <1>11, <2>1, <2>2, MinIsSmallest
  <2>4. m \in below(i, path) /\ fn[m] # NoPattern
    BY <2>3 DEF answered
  <2>5. looks(fn, i, path) = fn[m]
    BY <1>11, <2>1 DEF looks
  <2>6. PICK t \in Seq(Part) : /\ t = root[m].parts /\ Len(t) = l + 1
                               /\ \A k \in 1..l : t[k] = s[k]
    BY <1>6, <2>4
  <2>7. isBest(fn[m], t, path)
    BY <1>6, <2>4, <2>6
  <2>8. PICK h \in foundBelow(t, path) :
          fn[m] = routes[h] /\ \A j \in foundBelow(t, path) : isBetter(h, j)
    BY <2>4, <2>7 DEF isBest
  <2>9. h \in foundBelow(s, path)
    BY <1>8, <2>4, <2>6, <2>8
  <2>10. ASSUME NEW j \in foundBelow(s, path) PROVE isBetter(h, j)
    <3>1. PICK c \in below(i, path) : j \in foundBelow(root[c].parts, path)
      BY <1>7
    <3>2. CASE c = m
      BY <2>6, <2>8, <3>1, <3>2
    <3>3. CASE c # m
      <4>1. c \in answered(fn, i, path)
        BY <1>9, <3>1 DEF answered
      <4>2. m < c
        BY <2>2, <2>3, <3>3, <4>1
      <4>3. PICK u \in Seq(Part) : /\ u = root[c].parts /\ Len(u) = l + 1
                                   /\ \A k \in 1..l : u[k] = s[k]
        BY <1>6
      <4>4. m \in 1..Len(root) /\ c \in 1..Len(root)
        BY <1>6, <2>4
      <4>5. siblings(t, u)
        <5>1. (l + 1) - 1 = l /\ l + 1 # 0
          OBVIOUS
        <5> QED
          BY <2>6, <4>3, <5>1 DEF siblings
      <4>6. ~isWild(t[l + 1])
        BY <1>1, <2>6, <4>2, <4>3, <4>4, <4>5 DEF WildComesLast
      <4>7. t # u
        BY <1>1, <2>6, <3>3, <4>3, <4>4 DEF NodesDiffer
      <4>8. t[l + 1] # u[l + 1]
        <5>1. ASSUME t[l + 1] = u[l + 1] PROVE FALSE
          <6>1. \A k \in 1..(l + 1) : k \in 1..l \/ k = l + 1
            OBVIOUS
          <6>2. \A k \in 1..(l + 1) : t[k] = u[k]
            BY <2>6, <4>3, <5>1, <6>1
          <6> QED
            BY <2>6, <4>3, <4>7, <6>2, SameElements, SMTT(30)
        <5> QED
          BY <5>1
      <4>9. /\ h \in 1..Len(routes) /\ leads(t, routeParts(h))
            /\ j \in 1..Len(routes) /\ leads(u, routeParts(j))
        BY <2>8, <3>1, <4>3 DEF foundBelow
      <4>10. PICK p \in Seq(Part), q \in Seq(Part) : p = routeParts(h) /\ q = routeParts(j)
        BY <1>1, <4>9, RoutePartsType
      <4>11. /\ l + 1 \in 1..Len(p) /\ l + 1 <= Len(q)
             /\ \A k \in 1..(l + 1) : t[k] = p[k] /\ u[k] = q[k]
        <5>1. leads(t, p) /\ leads(u, q) /\ Len(t) = l + 1 /\ Len(u) = l + 1
          BY <2>6, <4>3, <4>9, <4>10
        <5>2. l + 1 <= Len(p) /\ \A k \in 1..(l + 1) : t[k] = p[k]
          BY <5>1 DEF leads
        <5>3. l + 1 <= Len(q) /\ \A k \in 1..(l + 1) : u[k] = q[k]
          BY <5>1 DEF leads
        <5>4. Len(p) \in Nat /\ l + 1 \in Nat /\ 1 <= l + 1
          OBVIOUS
        <5> QED
          BY <5>2, <5>3, <5>4
      <4>12. p[l + 1] # q[l + 1] /\ \A k \in 1..((l + 1) - 1) : p[k] = q[k]
        <5>1. (l + 1) - 1 = l /\ l + 1 \in 1..(l + 1) /\ \A k \in 1..l : k \in 1..(l + 1)
          OBVIOUS
        <5> QED
          BY <2>6, <4>3, <4>8, <4>11, <5>1
      <4>13. differAt(p, q) = l + 1
        BY <4>11, <4>12, DifferHere
      <4>14. l + 1 # 0 /\ ~isWild(p[l + 1])
        BY <4>6, <4>11
      <4> QED
        BY <4>10, <4>13, <4>14 DEF isBetter
    <3> QED
      BY <3>2, <3>3
  <2> QED
    BY <1>2, <2>5, <2>8, <2>9, <2>10 DEF isBest
<1> QED
  BY <1>10, <1>11

\* A search finds the best route, or none matches.
LEMMA SearchFindsBest ==
  ASSUME TrieShape, TrieExact, NEW path \in Seq(Part)
  PROVE  isBest(search(path), <<>>, path)
<1> DEFINE fn == results(path)
           W == within(path)
           Best(i) == fits(root[i].parts, path) => isBest(fn[i], root[i].parts, path)
           M == { k \in Nat : \A i \in W : Len(path) - Len(root[i].parts) <= k => Best(i) }
<1>1. root \in Seq(Node) /\ root # <<>> /\ root[1].parts = <<>>
  BY DEF TrieShape
<1>2. /\ search(path) = fn[1] /\ 1 \in W
      /\ \A i \in W : fn[i] = looks(fn, i, path)
  BY <1>1, SearchDef
<1>3. PICK m \in Nat : m = Len(path)
  OBVIOUS
<1> HIDE DEF fn
<1>4. \A i \in W : Len(root[i].parts) \in 0..m
  BY <1>1, <1>3, BelowWithin
<1>5. ASSUME NEW i \in W, arrived(root[i], path) PROVE Best(i)
  <2>1. fn[i] = root[i].pattern
    BY <1>2, <1>5 DEF looks
  <2> QED
    BY <1>5, <2>1, BestWhereArrived
<1>6. 0 \in M
  <2>1. ASSUME NEW i \in W, Len(path) - Len(root[i].parts) <= 0 PROVE Best(i)
    <3>1. Len(root[i].parts) = Len(path)
      BY <1>3, <1>4, <2>1
    <3>2. arrived(root[i], path)
      BY <3>1 DEF arrived
    <3> QED
      BY <1>5, <3>2
  <2> HIDE DEF Best
  <2> QED
    BY <2>1
<1>7. ASSUME NEW k \in Nat, k \in M PROVE k + 1 \in M
  <2>0. PICK n \in Nat : n = k + 1
    OBVIOUS
  <2>1. ASSUME NEW i \in W, Len(path) - Len(root[i].parts) <= n, ~arrived(root[i], path)
        PROVE  Best(i)
    <3>1. ASSUME NEW c \in below(i, path) PROVE Best(c)
      <4>1. c \in W /\ Len(root[c].parts) = Len(root[i].parts) + 1
        BY <1>1, <2>1, BelowWithin
      <4>2. PICK a \in 0..m : a = Len(root[i].parts)
        BY <1>4
      <4>3. m - a <= k + 1
        BY <1>3, <2>0, <2>1, <4>2
      <4>4. Len(path) - Len(root[c].parts) <= k
        <5>1. m - (a + 1) <= k
          BY <4>3
        <5> QED
          BY <1>3, <4>1, <4>2, <5>1
      <4> HIDE DEF Best
      <4> QED
        BY <1>7, <4>1, <4>4
    <3>2. fn[i] = looks(fn, i, path)
      BY <1>2
    <3> QED
      BY <2>1, <3>1, <3>2, BestWhereGoing
  <2>2. ASSUME NEW i \in W, Len(path) - Len(root[i].parts) <= n PROVE Best(i)
    <3> HIDE DEF Best
    <3> QED
      BY <1>5, <2>1, <2>2
  <2>3. n \in M
    <3> HIDE DEF Best
    <3> QED
      BY <2>2
  <2> QED
    BY <2>0, <2>3
<1>8. Nat \subseteq M
  <2> HIDE DEF M
  <2> QED
    BY <1>6, <1>7, NatSetInduction
<1>9. Best(1)
  <2>1. m \in M /\ Len(path) - Len(root[1].parts) <= m
    BY <1>2, <1>3, <1>4, <1>8
  <2> HIDE DEF Best
  <2> QED
    BY <1>2, <2>1
<1>10. fits(root[1].parts, path)
  BY <1>1 DEF fits
<1> QED
  BY <1>1, <1>2, <1>9, <1>10
----------------------------------------------------------------------------
(* The parameters *)

\* What fills the parts of a route that matches a path.
fills(p, sent) ==
    [i \in DOMAIN p |-> IF isWild(p[i])
                        THEN (IF p[i] \in Star THEN SubSeq(sent, i, Len(sent)) ELSE <<sent[i]>>)
                        ELSE <<p[i]>>]

\* They are sequences of parts, which FlattenSeq puts together.
LEMMA FillsType ==
  ASSUME NEW p \in Seq(Part), NEW sent \in Seq(Part), matches(p, sent)
  PROVE  /\ fills(p, sent) \in Seq(Seq(Part)) /\ Len(fills(p, sent)) = Len(p)
         /\ \A i \in 1..Len(p) :
              IF p[i] \in Star THEN fills(p, sent)[i] = SubSeq(sent, i, Len(sent))
              ELSE fills(p, sent)[i] = <<sent[i]>>
<1>1. PICK n \in Nat : n = Len(p) /\ DOMAIN p = 1..n
  OBVIOUS
<1>2. PICK m \in Nat : m = Len(sent) /\ n <= m
  BY <1>1, MatchLength
<1>3. \A i \in 1..n : p[i] = sent[i] \/ isWild(p[i])
  BY <1>1, MatchLength DEF fits
<1>4. PICK fn : fn = fills(p, sent)
  OBVIOUS
<1>5. fn = [i \in 1..n |-> IF isWild(p[i])
                        THEN (IF p[i] \in Star THEN SubSeq(sent, i, m) ELSE <<sent[i]>>)
                        ELSE <<p[i]>>]
  BY <1>1, <1>2, <1>4 DEF fills
<1>6. ASSUME NEW i \in 1..n
      PROVE  IF p[i] \in Star THEN fn[i] = SubSeq(sent, i, m) ELSE fn[i] = <<sent[i]>>
  BY <1>3, <1>5 DEF isWild
<1>7. ASSUME NEW i \in 1..n PROVE fn[i] \in Seq(Part)
  <2>1. sent[i] \in Part /\ \A k \in i..m : sent[k] \in Part
    BY <1>2
  <2>2. <<sent[i]>> \in Seq(Part)
    BY <2>1
  <2>3. SubSeq(sent, i, m) \in Seq(Part)
    BY <2>1, SubSeqProperties
  <2> QED
    BY <1>6, <2>2, <2>3
<1>8. fn \in [1..n -> Seq(Part)]
  BY <1>5, <1>7
<1>9. fn \in Seq(Seq(Part)) /\ Len(fn) = n
  BY <1>8
<1> QED
  BY <1>1, <1>2, <1>4, <1>6, <1>9

\* Put together, they are the path.
LEMMA FilledIsSent ==
  ASSUME NEW p \in Seq(Part), NEW sent \in Seq(Part), StarLast(p), matches(p, sent)
  PROVE  FlattenSeq(fills(p, sent)) = sent
<1>1. PICK n \in Nat : n = Len(p)
  OBVIOUS
<1>2. PICK m \in Nat : m = Len(sent) /\ n <= m
  BY <1>1, MatchLength
<1>3. n = m \/ \E i \in 1..n : p[i] \in Star
  BY <1>1, <1>2, MatchLength
<1>4. PICK fn \in Seq(Seq(Part)) : fn = fills(p, sent)
  BY FillsType
<1>5. /\ Len(fn) = n
      /\ \A i \in 1..n : IF p[i] \in Star THEN fn[i] = SubSeq(sent, i, m) ELSE fn[i] = <<sent[i]>>
  BY <1>1, <1>2, <1>4, FillsType
<1>6. CASE n = 0
  <2>1. fn = <<>> /\ Len(fn) = 0
    BY <1>5, <1>6
  <2>2. FlattenSeq(fn) = fn
    BY <2>1 DEF FlattenSeq
  <2>3. sent = <<>>
    BY <1>2, <1>3, <1>6
  <2> QED
    BY <1>4, <2>1, <2>2, <2>3
<1>7. CASE n # 0
  <2> DEFINE g == joins(fn)
  <2>1. /\ FlattenSeq(fn) = g[n] /\ g \in [1..n -> Seq(Part)] /\ g[1] = fn[1]
        /\ \A i \in 2..n : g[i] = g[i - 1] \o fn[i]
    <3>1. fn # <<>>
      BY <1>5, <1>7
    <3> QED
      BY <1>5, <3>1, FlattenDef
  <2> HIDE DEF g
  <2> DEFINE M == { i \in Nat : i + 1 <= n /\ p[i + 1] \notin Star =>
                                  Len(g[i + 1]) = i + 1 /\ leads(g[i + 1], sent) }
  <2>2. 0 \in M
    <3>1. ASSUME p[1] \notin Star PROVE Len(g[1]) = 1 /\ leads(g[1], sent)
      <4>1. 1 \in 1..n /\ 1 <= m
        BY <1>2, <1>7
      <4>2. g[1] = <<sent[1]>>
        BY <1>5, <2>1, <3>1, <4>1
      <4>3. Len(g[1]) = 1 /\ g[1][1] = sent[1]
        BY <4>2
      <4>4. 1..1 = {1}
        OBVIOUS
      <4> QED
        BY <1>2, <4>1, <4>3, <4>4 DEF leads
    <3> QED
      BY <3>1
  <2>3. ASSUME NEW i \in Nat, i \in M PROVE i + 1 \in M
    <3> SUFFICES ASSUME (i + 1) + 1 <= n, p[(i + 1) + 1] \notin Star
                 PROVE  Len(g[(i + 1) + 1]) = (i + 1) + 1 /\ leads(g[(i + 1) + 1], sent)
      OBVIOUS
    <3>1. PICK j \in 1..n : j = i + 1 /\ j + 1 \in 2..n /\ j + 1 \in 1..n /\ (j + 1) - 1 = j
                            /\ j + 1 <= m /\ j # n
      BY <1>2
    <3>2. p[j] \notin Star
      BY <1>1, <3>1 DEF StarLast
    <3>3. PICK u \in Seq(Part) : u = g[j] /\ Len(u) = j /\ leads(u, sent)
      BY <2>1, <2>3, <3>1, <3>2
    <3>4. PICK e \in Part : e = sent[j + 1]
      BY <1>2, <3>1
    <3>5. fn[j + 1] = <<e>>
      BY <1>5, <3>1, <3>4
    <3>6. PICK v : v = g[j + 1]
      OBVIOUS
    <3>7. v = u \o <<e>>
      BY <2>1, <3>1, <3>3, <3>5, <3>6
    <3>8. Len(v) = j + 1 /\ v[j + 1] = e /\ \A k \in 1..j : v[k] = u[k]
      <4>1. v = Append(u, e)
        BY <3>7
      <4>2. Len(v) = Len(u) + 1 /\ v[Len(u) + 1] = e /\ \A k \in 1..Len(u) : v[k] = u[k]
        BY <4>1
      <4> QED
        BY <3>3, <4>2
    <3>9. \A k \in 1..(j + 1) : k \in 1..j \/ k = j + 1
      BY <3>1
    <3>10. \A k \in 1..(j + 1) : v[k] = sent[k]
      BY <3>3, <3>4, <3>8, <3>9 DEF leads
    <3>11. leads(v, sent)
      BY <1>2, <3>1, <3>8, <3>10 DEF leads
    <3> QED
      BY <3>1, <3>6, <3>8, <3>11
  <2>4. Nat \subseteq M
    <3> HIDE DEF M
    <3> QED
      BY <2>2, <2>3, NatSetInduction
  <2>5. ASSUME NEW i \in 1..n, p[i] \notin Star
        PROVE  g[i] \in Seq(Part) /\ Len(g[i]) = i /\ leads(g[i], sent)
    <3>1. PICK j \in Nat : i = j + 1
      <4>1. i - 1 \in Nat /\ i = (i - 1) + 1
        OBVIOUS
      <4> QED
        BY <4>1
    <3>2. j \in M
      <4> HIDE DEF M
      <4> QED
        BY <2>4
    <3>3. j + 1 <= n
      BY <3>1
    <3> QED
      BY <2>1, <2>5, <3>1, <3>2, <3>3
  <2>6. n \in 1..n
    BY <1>7
  <2>7. leads(sent, sent)
    BY DEF leads
  <2>8. CASE p[n] \notin Star
    <3>1. n = m
      BY <1>1, <1>3, <2>8 DEF StarLast
    <3>2. g[n] = sent
      BY <1>2, <2>5, <2>6, <2>7, <2>8, <3>1, LeadsEqual
    <3> QED
      BY <1>4, <2>1, <3>2
  <2>9. CASE p[n] \in Star
    <3>1. fn[n] = SubSeq(sent, n, m)
      BY <1>5, <2>6, <2>9
    <3>2. PICK w : w = SubSeq(sent, n, m)
      OBVIOUS
    <3>3. w \in Seq(Part) /\ Len(w) = m - n + 1 /\ \A k \in 1..(m - n + 1) : w[k] = sent[n + k - 1]
      <4>1. \A k \in n..m : sent[k] \in Part
        BY <1>2, <1>7
      <4>2. /\ SubSeq(sent, n, m) \in Seq(Part)
            /\ Len(SubSeq(sent, n, m)) = IF n <= m THEN m - n + 1 ELSE 0
            /\ \A k \in 1..(m - n + 1) : SubSeq(sent, n, m)[k] = sent[n + k - 1]
        BY <4>1, SubSeqProperties
      <4> QED
        BY <1>2, <3>2, <4>2
    <3>4. CASE n = 1
      <4>1. Len(w) = m /\ \A k \in 1..m : w[k] = sent[k]
        <5>1. \A k \in 1..m : 1 + k - 1 = k
          OBVIOUS
        <5>2. m - 1 + 1 = m
          OBVIOUS
        <5> QED
          BY <3>3, <3>4, <5>1, <5>2
      <4>2. w = sent
        BY <1>2, <3>3, <4>1, SameElements
      <4> QED
        BY <1>4, <2>1, <3>1, <3>2, <3>4, <4>2
    <3>5. CASE n # 1
      <4>1. PICK j \in 1..n : j = n - 1 /\ n \in 2..n /\ j # n /\ j <= m
        <5>1. n - 1 \in 1..n
          BY <1>7, <3>5
        <5>2. n \in 2..n /\ n - 1 # n /\ n - 1 <= m
          BY <1>2, <1>7, <3>5
        <5> QED
          BY <5>1, <5>2
      <4>2. p[j] \notin Star
        BY <1>1, <4>1 DEF StarLast
      <4>3. PICK u \in Seq(Part) : u = g[j] /\ Len(u) = j /\ leads(u, sent)
        BY <2>5, <4>2
      <4>4. PICK v : v = g[n]
        OBVIOUS
      <4>5. v = u \o w
        BY <2>1, <3>1, <3>2, <4>1, <4>3, <4>4
      <4>6. /\ v \in Seq(Part) /\ Len(v) = j + (m - n + 1)
            /\ \A k \in 1..(j + (m - n + 1)) : v[k] = IF k <= j THEN u[k] ELSE w[k - j]
        <5>1. /\ u \o w \in Seq(Part) /\ Len(u \o w) = Len(u) + Len(w)
              /\ \A k \in 1..(Len(u) + Len(w)) :
                   (u \o w)[k] = IF k <= Len(u) THEN u[k] ELSE w[k - Len(u)]
          BY <3>3, ConcatProperties
        <5> QED
          BY <3>3, <4>3, <4>5, <5>1
      <4>7. j + (m - n + 1) = m
        BY <4>1
      <4>8. ASSUME NEW k \in 1..m PROVE v[k] = sent[k]
        <5>1. CASE k <= j
          <6>1. k \in 1..j
            BY <5>1
          <6> QED
            BY <4>3, <4>6, <4>7, <5>1, <6>1 DEF leads
        <5>2. CASE ~ (k <= j)
          <6>1. k - j \in 1..(m - n + 1) /\ n + (k - j) - 1 = k
            BY <1>2, <4>1, <5>2
          <6> QED
            BY <3>3, <4>6, <4>7, <5>2, <6>1
        <5> QED
          BY <5>1, <5>2
      <4>9. v = sent
        BY <1>2, <4>6, <4>7, <4>8, SameElements
      <4> QED
        BY <1>4, <2>1, <4>4, <4>9
    <3> QED
      BY <3>4, <3>5
  <2> QED
    BY <2>8, <2>9
<1> QED
  BY <1>6, <1>7
----------------------------------------------------------------------------
(* The route found *)

\* The handler is the last route with the pattern found.
LEMMA HandlerDef ==
  ASSUME TrieShape, NEW path \in Seq(Part), NEW pattern, pattern = search(parsePattern(path)),
         NEW h, h = getRoute(path).handler
  PROVE  IF pattern = NoPattern THEN h = 0
         ELSE /\ h \in 1..Len(routes) /\ routes[h] = pattern
              /\ \A i \in 1..Len(routes) : routes[i] = pattern => i <= h
              /\ Len(parsePattern(pattern)) <= Len(parsePattern(path))
<1>1. h = IF pattern = NoPattern THEN 0 ELSE SelectLastInSeq(routes, LAMBDA p : p = pattern)
  BY DEF getRoute
<1>2. /\ root \in Seq(Node) /\ root # <<>> /\ root[1].parts = <<>>
      /\ routes \in Seq(Seq(Part) \ {NoPattern})
      /\ \A i \in 1..Len(root) : root[i].pattern # NoPattern =>
           /\ \E r \in 1..Len(routes) : routes[r] = root[i].pattern
           /\ Len(parsePattern(root[i].pattern)) = Len(root[i].parts)
  BY DEF TrieShape
<1>3. CASE pattern # NoPattern
  <2>1. PICK sent \in Seq(Part) : sent = parsePattern(path)
    BY ParseType
  <2>2. PICK j \in within(sent) : pattern = root[j].pattern
    BY <1>2, <1>3, <2>1, SearchFindsNode
  <2>3. /\ \E r \in 1..Len(routes) : routes[r] = pattern
        /\ Len(parsePattern(pattern)) = Len(root[j].parts) /\ Len(root[j].parts) <= Len(sent)
    BY <1>2, <1>3, <2>2, BelowWithin
  <2> DEFINE I == {i \in 1..Len(routes) : routes[i] = pattern}
  <2>4. h = IF I # {} THEN Max(I) ELSE 0
    BY <1>1, <1>3 DEF SelectLastInSeq
  <2>5. I \in SUBSET Nat /\ IsFiniteSet(I) /\ I # {}
    <3>1. Len(routes) \in Int /\ 1 \in Int
      BY <1>2
    <3>2. IsFiniteSet(1..Len(routes))
      BY <3>1, FS_Interval
    <3>3. I \subseteq 1..Len(routes)
      OBVIOUS
    <3>4. I # {}
      BY <2>3
    <3> QED
      BY <3>2, <3>3, <3>4, FS_Subset
  <2>6. h \in I /\ \A i \in I : i <= h
    <3> HIDE DEF I
    <3> QED
      BY <2>4, <2>5, MaxIsLargest
  <2> QED
    BY <1>3, <2>1, <2>3, <2>6
<1> QED
  BY <1>1, <1>3

\* What a request is answered with, when the trie is exact.
LEMMA RouteFoundIsBest ==
  ASSUME RouterInv, NEW path \in Seq(Part)
  PROVE  LET sent == parsePattern(path)
             part(i) == parsePattern(routes[i])
             found == {i \in DOMAIN routes : matches(part(i), sent)}
             better(i, j) == LET k == differAt(part(i), part(j))
                             IN IF k = 0 THEN j <= i ELSE ~isWild(part(i)[k])
             answer == getRoute(path)
             h == answer.handler
             filled == [i \in DOMAIN part(h) |->
                          IF isWild(part(h)[i]) THEN answer.params[Name[part(h)[i]]]
                                                ELSE <<part(h)[i]>>]
         IN /\ h # 0 => Len(part(h)) <= Len(sent)
            /\ ~merged => IF found = {} THEN h = 0
                          ELSE /\ h \in found /\ \A j \in found : better(h, j)
                               /\ namesApart(part(h)) => FlattenSeq(filled) = sent
<1>1. TrieShape /\ (~merged => TrieExact) /\ routes \in Seq(Seq(Part) \ {NoPattern})
  BY DEF RouterInv, TrieShape
<1>2. PICK z \in Nat : z = Len(routes) /\ DOMAIN routes = 1..z
  BY <1>1
<1>3. PICK sent \in Seq(Part) : sent = parsePattern(path)
  BY ParseType
<1>4. PICK pattern : pattern = search(sent)
  OBVIOUS
<1>5. PICK h : h = getRoute(path).handler
  OBVIOUS
<1>6. IF pattern = NoPattern THEN h = 0
      ELSE /\ h \in 1..z /\ routes[h] = pattern
           /\ \A i \in 1..z : routes[i] = pattern => i <= h
           /\ Len(parsePattern(pattern)) <= Len(sent)
  BY <1>1, <1>2, <1>3, <1>4, <1>5, HandlerDef
<1> DEFINE found == {i \in DOMAIN routes : matches(parsePattern(routes[i]), sent)}
           better(i, j) == LET k == differAt(parsePattern(routes[i]), parsePattern(routes[j]))
                           IN IF k = 0 THEN j <= i ELSE ~isWild(parsePattern(routes[i])[k])
           filled == [i \in DOMAIN parsePattern(routes[h]) |->
                        IF isWild(parsePattern(routes[h])[i])
                        THEN getRoute(path).params[Name[parsePattern(routes[h])[i]]]
                        ELSE <<parsePattern(routes[h])[i]>>]
<1>7. h # 0 => Len(parsePattern(routes[h])) <= Len(sent)
  BY <1>6
<1>8. ASSUME ~merged
      PROVE  IF found = {} THEN h = 0
             ELSE /\ h \in found /\ \A j \in found : better(h, j)
                  /\ namesApart(parsePattern(routes[h])) => FlattenSeq(filled) = sent
  <2>1. isBest(pattern, <<>>, sent)
    BY <1>1, <1>4, <1>8, SearchFindsBest
  <2>2. found = foundBelow(<<>>, sent)
    <3>1. ASSUME NEW r \in 1..z PROVE leads(<<>>, routeParts(r))
      <4>1. Len(routeParts(r)) \in Nat
        BY <1>1, <1>2, RoutePartsType
      <4> QED
        BY <4>1 DEF leads
    <3> QED
      BY <1>2, <3>1 DEF foundBelow, routeParts
  <2>3. CASE found = {}
    BY <1>6, <2>1, <2>2, <2>3 DEF isBest
  <2>4. CASE found # {}
    <3>1. PICK b \in found : pattern = routes[b] /\ \A j \in found : isBetter(b, j)
      BY <2>1, <2>2, <2>4 DEF isBest
    <3>2. b \in 1..z /\ matches(parsePattern(routes[b]), sent) /\ routes[b] # NoPattern
      BY <1>1, <1>2
    <3>3. /\ h \in 1..z /\ routes[h] = pattern /\ b <= h
          /\ parsePattern(routes[h]) = parsePattern(routes[b])
      BY <1>6, <3>1, <3>2
    <3>4. h \in found
      BY <1>2, <3>2, <3>3
    <3>5. ASSUME NEW j \in found PROVE better(h, j)
      <4>1. j \in 1..z /\ isBetter(b, j)
        BY <1>2, <3>1
      <4> QED
        BY <3>2, <3>3, <4>1 DEF isBetter, routeParts
    <3>6. PICK p \in Seq(Part) : p = parsePattern(routes[h]) /\ StarLast(p) /\ matches(p, sent)
      <4>1. routes[h] \in Seq(Part)
        BY <1>1, <1>2, <3>3
      <4> QED
        BY <3>2, <3>3, <4>1, ParseType
    <3>7. ASSUME namesApart(p) PROVE filled = fills(p, sent)
      <4> DEFINE named == {i \in DOMAIN p : isWild(p[i]) /\ p[i] # "*"}
                 value(i) == IF p[i] \in Star THEN SubSeq(sent, i, Len(sent)) ELSE <<sent[i]>>
      <4>1. PICK params : params = getRoute(path).params
        OBVIOUS
      <4>2. params = [n \in {Name[p[i]] : i \in named} |->
                        value(Max({i \in named : Name[p[i]] = n}))]
        BY <1>3, <1>4, <3>3, <3>6, <4>1 DEF getRoute
      <4>3. filled = [i \in DOMAIN p |-> IF isWild(p[i]) THEN params[Name[p[i]]] ELSE <<p[i]>>]
        BY <3>6, <4>1
      <4>4. ASSUME NEW i \in DOMAIN p, isWild(p[i])
            PROVE  params[Name[p[i]]] = value(i)
        <5>1. i \in named /\ i \in Nat
          BY <3>6, <3>7, <4>4 DEF namesApart
        <5>2. {k \in named : Name[p[k]] = Name[p[i]]} = {i}
          BY <3>7, <4>4, <5>1 DEF namesApart
        <5>3. Max({i}) = i
          BY <5>1 DEF Max
        <5> HIDE DEF named, value
        <5>4. params[Name[p[i]]] = value(Max({k \in named : Name[p[k]] = Name[p[i]]}))
          BY <4>2, <5>1
        <5> QED
          BY <5>2, <5>3, <5>4
      <4> QED
        BY <4>3, <4>4 DEF fills
    <3>8. namesApart(p) => FlattenSeq(filled) = sent
      BY <3>6, <3>7, FilledIsSent
    <3> HIDE DEF found, better, filled
    <3> QED
      BY <2>4, <3>4, <3>5, <3>6, <3>8
  <2> HIDE DEF found, better, filled
  <2> QED
    BY <2>3, <2>4
<1> QED
  BY <1>3, <1>5, <1>7, <1>8, Zenon

\* The invariant says what is found for every path.
LEMMA RouterInvSuffices ==
  ASSUME RouterInv, Paths \subseteq Seq(STRING)
  PROVE  RouterFindsBest
<1>1. \A path \in Paths : path \in Seq(Part)
  BY DEF Part
<1> QED
  BY <1>1, RouteFoundIsBest, Zenon DEF RouterFindsBest

\* Registering a route keeps it, and nothing else touches the trie.
LEMMA RouterSteps == AppInv /\ RouterInv /\ [Next]_vars => RouterInv'
<1> SUFFICES ASSUME AppInv, RouterInv, [Next]_vars PROVE RouterInv'
  OBVIOUS
<1>1. config.routes \subseteq Seq(Part) \ {NoPattern}
  BY AppAssumption DEF AppInv, WebInv, Part
<1>2. ASSUME NEW p \in config.routes, registers(p) PROVE RouterInv'
  BY <1>1, <1>2, RouterKept DEF registers
<1>3. CASE UNCHANGED routervars
  <2>1. \A path : parsePattern(path)' = parsePattern(path)
    BY DEF parsePattern
  <2>2. TrieShape'
    BY <1>3 DEF RouterInv, TrieShape
  <2>3. merged' = merged
    BY <1>3 DEF merged
  <2>4. TrieExact => TrieExact'
    BY <1>3 DEF TrieExact, NodesDiffer, NodesLead, RoutesHaveNodes, WildComesLast, PatternsLast,
                routeParts
  <2> QED
    BY <2>2, <2>3, <2>4 DEF RouterInv
<1> QED
  BY <1>2, <1>3 DEF Next

\* In every program of these, whatever its routes and in whatever order it registers
\* them, a request goes to the handler of the route that matches its path best, and
\* is not found only if no route matches, unless a route was merged into an open one;
\* and where the open parts of the route have different names its parameters are all
\* that was sent for them (trie.go, router.go).
THEOREM RoutesFoundAreBest == Spec => []RouterFindsBest
<1>1. Init => RouterInv
  BY RouterStarts DEF Init
<1>2. Spec => []RouterInv
  BY <1>1, RouterSteps, AppInvariant, PTL DEF Spec
<1>3. RouterInv => RouterFindsBest
  BY RouterInvSuffices, AppAssumption
<1> QED
  BY <1>2, <1>3, PTL
=============================================================================

--------------------------- MODULE RpcServerProof ---------------------------
(***************************************************************************)
(* What is proved of one connection of the RPC server: the WaitGroup's     *)
(* counter is the number of handlers that have not ended, so wg.Done never *)
(* makes it negative; a request is answered at most once, unless breaker   *)
(* and timeout are both set; and the connection is closed only when the    *)
(* requests handed to a handler have been answered, unless a Write that    *)
(* failed has closed it before.                                            *)
(*                                                                         *)
(* Fresh says that a request which is still in the stream, or just being   *)
(* read, has left no trace.  Paired relates, for each request, where its   *)
(* handler and the goroutine of its call are, and what has been answered.  *)
(* Losing says that a request without its response has lost it to a Write  *)
(* that failed.                                                            *)
(***************************************************************************)
EXTENDS RpcServer, FiniteSetTheorems, SequenceTheorems, TLAPS

Message == {"header", "body"} \X Request

\* TypeOK without the WaitGroup.
Types ==
    /\ config \in Config
    /\ inbox \in Seq(Message)
    /\ asked \subseteq Request /\ hungUp \in BOOLEAN
    /\ garbled \in BOOLEAN
    /\ loop \in {"options", "limiter", "header", "body", "wait", "closed"}
    /\ reading \subseteq Request
    /\ handler \in [Request -> {"none", "select", "sent", "ended"}]
    /\ worker \in [Request -> {"none", "start", "called", "respond", "sent", "ended"}]
    /\ conn \in {"open", "closed", "broken"}
    /\ responses \in [Request -> Nat]
    /\ lost \subseteq Request
    /\ limited \in 0..MaxLimited

\* The handlers wg counts.
Open == { r \in Request : handler[r] \in {"select", "sent"} }
Counted == wg = Cardinality(Open)

\* The requests whose header is still to be read.
Headers == { r \in Request : \E i \in DOMAIN inbox : inbox[i] = <<"header", r>> }

InboxOnce == \A i, j \in DOMAIN inbox : inbox[i] = inbox[j] => i = j
MessagesAsked == \A i \in DOMAIN inbox : inbox[i][2] \in asked

Fresh ==
    /\ InboxOnce /\ MessagesAsked
    /\ Headers \cap reading = {} /\ reading \subseteq asked
    /\ \A r, s \in reading : r = s
    /\ \A r \in Request : r \in Headers \cup reading \/ r \notin asked =>
         handler[r] = "none" /\ responses[r] = 0
    /\ \A r \in Request : handler[r] = "none" => responses[r] <= 1

Both == config.breaker /\ config.timeout

Paired(r) ==
    /\ handler[r] = "none" <=> worker[r] = "none"
    /\ handler[r] = "select" =>
         worker[r] \in {"start", "called"}
                         \cup (IF config.breaker THEN {"respond", "sent"} ELSE {})
    /\ handler[r] = "sent" => worker[r] \in {"respond", "sent"}
    /\ worker[r] = "ended" => handler[r] = "ended"
    /\ handler[r] = "ended" /\ ~config.timeout => worker[r] = "ended"
    /\ handler[r] = "ended" /\ ~config.breaker => worker[r] \in {"start", "called", "ended"}
    /\ handler[r] = "ended" \/ worker[r] = "sent" => responses[r] >= 1 \/ r \in lost
    /\ handler[r] # "none" /\ ~Both =>
         responses[r] <= IF handler[r] = "ended" \/ worker[r] = "sent" THEN 1 ELSE 0

\* No handler exists before the option is read, none is open after the close.
Closing ==
    /\ loop = "options" => \A r \in Request : handler[r] = "none"
    /\ loop = "closed" => Open = {}

\* serveCodec closes the connection last, and until then only a Write that
\* failed does: it alone takes the only response from a request.
Losing ==
    /\ conn = "closed" => loop = "closed"
    /\ \A r \in lost : responses[r] = 0 => conn = "broken"

IInv ==
    Types /\ Counted /\ Fresh /\ (\A r \in Request : Paired(r)) /\ Closing /\ Losing
----------------------------------------------------------------------------
(* The stream *)

\* s is the stream without its first k messages, up to some message.
PieceOf(s, k) ==
    /\ s \in Seq(Message) /\ Len(s) + k <= Len(inbox)
    /\ \A i \in 1..Len(s) : s[i] = inbox[i + k]

LEMMA SubSeqIsPiece ==
  ASSUME inbox \in Seq(Message), NEW k \in 0..Len(inbox), NEW m \in k..Len(inbox)
  PROVE  PieceOf(SubSeq(inbox, k + 1, m), k)
<1>1. Len(inbox) \in Nat /\ k \in Nat /\ m \in Nat
  OBVIOUS
<1>2. \A i \in (k + 1)..m : inbox[i] \in Message
  OBVIOUS
<1> DEFINE s == SubSeq(inbox, k + 1, m)
<1>3. s \in Seq(Message) /\ Len(s) = m - k /\ \A i \in 1..(m - k) : s[i] = inbox[i + k]
  BY <1>1, <1>2, SubSeqProperties
<1> HIDE DEF s
<1>4. PieceOf(s, k)
  BY <1>1, <1>3 DEF PieceOf
<1> QED
  BY <1>4 DEF s

LEMMA TailIsPiece ==
  ASSUME inbox \in Seq(Message), inbox # <<>>
  PROVE  PieceOf(Tail(inbox), 1)
<1>1. Tail(inbox) = SubSeq(inbox, 1 + 1, Len(inbox))
  BY TailIsSubSeq
<1>2. 1 \in 0..Len(inbox) /\ Len(inbox) \in 1..Len(inbox)
  OBVIOUS
<1> HIDE DEF Message
<1> QED
  BY <1>1, <1>2, SubSeqIsPiece

\* What remains of a piece is a piece.
LEMMA PieceOfPiece ==
  ASSUME inbox \in Seq(Message), NEW k \in Nat, NEW rest, PieceOf(rest, k),
         NEW n \in 0..Len(rest)
  PROVE  PieceOf(SubSeq(rest, 1, n), k)
<1>1. rest \in Seq(Message) /\ Len(rest) \in Nat /\ n \in Nat /\ n <= Len(rest)
  BY DEF PieceOf
<1>2. \A i \in 1..n : rest[i] \in Message
  BY <1>1
<1> DEFINE s == SubSeq(rest, 1, n)
<1>3. s \in Seq(Message) /\ Len(s) = n /\ \A i \in 1..n : s[i] = rest[i]
  <2> HIDE DEF Message
  <2> QED
    BY <1>1, <1>2, SubSeqProperties
<1> HIDE DEF s, Message
<1>4. \A i \in 1..n : i \in 1..Len(rest)
  BY <1>1
<1>5. Len(inbox) \in Nat /\ n + k <= Len(inbox)
  BY <1>1 DEF PieceOf
<1>6. \A i \in 1..n : s[i] = inbox[i + k]
  BY <1>3, <1>4 DEF PieceOf
<1>7. PieceOf(s, k)
  BY <1>3, <1>5, <1>6 DEF PieceOf
<1> QED
  BY <1>7 DEF s

\* A piece of the stream holds nothing new, and nothing twice.
LEMMA PieceOfInbox ==
  ASSUME inbox \in Seq(Message), InboxOnce, MessagesAsked, asked' = asked,
         NEW k \in Nat, PieceOf(inbox', k)
  PROVE  /\ inbox' \in Seq(Message) /\ InboxOnce' /\ MessagesAsked'
         /\ Headers' \subseteq Headers
         /\ \A r : k >= 1 /\ inbox[1] = <<"header", r>> => r \notin Headers'
<1> PICK l \in Nat : l = Len(inbox')
  BY DEF PieceOf
<1>1. DOMAIN inbox = 1..Len(inbox) /\ Len(inbox) \in Nat
  OBVIOUS
<1>2. DOMAIN inbox' = 1..l
  BY DEF PieceOf
<1>3. /\ inbox' \in Seq(Message)
      /\ \A i \in 1..l : i + k \in DOMAIN inbox /\ inbox'[i] = inbox[i + k]
  BY <1>1 DEF PieceOf
<1>4. InboxOnce'
  <2> SUFFICES ASSUME NEW i \in 1..l, NEW j \in 1..l, inbox'[i] = inbox'[j]
               PROVE  i = j
    BY <1>2 DEF InboxOnce
  <2>1. i + k = j + k
    BY <1>3 DEF InboxOnce
  <2> QED
    BY <2>1
<1>5. MessagesAsked' /\ Headers' \subseteq Headers
  BY <1>2, <1>3 DEF MessagesAsked, Headers
<1>6. ASSUME NEW r, k >= 1, inbox[1] = <<"header", r>>, r \in Headers' PROVE FALSE
  <2>1. PICK i \in 1..l : inbox'[i] = <<"header", r>>
    BY <1>2, <1>6 DEF Headers
  <2>2. i + k \in DOMAIN inbox /\ 1 \in DOMAIN inbox /\ inbox[i + k] = inbox[1]
    BY <1>1, <1>3, <1>6, <2>1
  <2>3. i + k = 1
    BY <2>2 DEF InboxOnce
  <2> QED
    BY <1>6, <2>3
<1> QED
  BY <1>3, <1>4, <1>5, <1>6

\* A Write that fails takes a piece of what is left to be read.
LEMMA BreakLeavesPiece ==
  ASSUME inbox \in Seq(Message), NEW k \in Nat, NEW rest, PieceOf(rest, k), Break(rest)
  PROVE  PieceOf(inbox', k)
<1>1. PICK n \in 0..Len(rest) : inbox' = SubSeq(rest, 1, n)
  BY DEF Break
<1> QED
  BY <1>1, PieceOfPiece

\* A response is written on an open connection, or it is lost; and what is
\* left to be read is a piece of what was.
LEMMA RespondEffect ==
  ASSUME inbox \in Seq(Message), NEW k \in Nat, NEW rest, PieceOf(rest, k),
         NEW r, Respond(r, rest)
  PROVE  /\ PieceOf(inbox', k)
         /\ \/ /\ conn = "open" /\ UNCHANGED <<conn, lost>>
               /\ responses' = [responses EXCEPT ![r] = responses[r] + 1]
            \/ /\ conn' = IF conn = "open" THEN "broken" ELSE conn
               /\ lost' = lost \cup {r} /\ UNCHANGED responses
<1>1. PieceOf(inbox', k)
  BY BreakLeavesPiece DEF Respond
<1> QED
  BY <1>1 DEF Respond, Break

\* A new request adds its header and its body at the end.
LEMMA InboxGrows ==
  ASSUME inbox \in Seq(Message), InboxOnce, MessagesAsked,
         NEW r \in Request, r \notin asked, asked' = asked \cup {r},
         inbox' = inbox \o << <<"header", r>>, <<"body", r>> >>
  PROVE  /\ inbox' \in Seq(Message) /\ InboxOnce' /\ MessagesAsked'
         /\ Headers' \subseteq Headers \cup {r}
<1> DEFINE n == Len(inbox)
           new == << <<"header", r>>, <<"body", r>> >>
<1>1. new \in Seq(Message) /\ Len(new) = 2 /\ new[1] = <<"header", r>> /\ new[2] = <<"body", r>>
  BY DEF Message
<1>2. n \in Nat /\ DOMAIN inbox = 1..n
  OBVIOUS
<1> HIDE DEF new
<1>3. /\ inbox' \in Seq(Message) /\ DOMAIN inbox' = 1..(n + 2)
      /\ \A i \in 1..n : inbox'[i] = inbox[i]
      /\ inbox'[n + 1] = <<"header", r>> /\ inbox'[n + 2] = <<"body", r>>
  <2>1. inbox' = inbox \o new
    BY DEF new
  <2>2. /\ inbox \o new \in Seq(Message)
        /\ Len(inbox \o new) = Len(inbox) + Len(new)
        /\ \A i \in 1..(Len(inbox) + Len(new)) :
             (inbox \o new)[i] = IF i <= Len(inbox) THEN inbox[i] ELSE new[i - Len(inbox)]
    BY <1>1, ConcatProperties
  <2>3. /\ inbox' \in Seq(Message) /\ Len(inbox') = n + 2
        /\ \A i \in 1..(n + 2) : inbox'[i] = IF i <= n THEN inbox[i] ELSE new[i - n]
    BY <1>1, <2>1, <2>2
  <2> QED
    BY <1>1, <1>2, <2>3
<1>4. \A i \in 1..n : inbox[i][2] # r
  BY <1>2 DEF MessagesAsked
<1> HIDE DEF n
<1>5. \A i \in 1..(n + 2) : i \in 1..n \/ i = n + 1 \/ i = n + 2
  BY <1>2
<1>6. InboxOnce'
  BY <1>2, <1>3, <1>4, <1>5 DEF InboxOnce
<1>7. MessagesAsked'
  BY <1>2, <1>3, <1>5 DEF MessagesAsked
<1>8. Headers' \subseteq Headers \cup {r}
  BY <1>2, <1>3, <1>5 DEF Headers
<1> QED
  BY <1>3, <1>6, <1>7, <1>8
----------------------------------------------------------------------------
(* The steps *)

\* The open handlers are finitely many.
LEMMA OpenFinite == IsFiniteSet(Open)
BY ServerAssumption, FS_Subset DEF Open

\* The client adds a request, or takes back what has not been received.
LEMMA ClientKeepsIInv ==
  ASSUME IInv, (\E r \in Request : clientSends(r)) \/ clientHangsUp
  PROVE  IInv'
<1>1. UNCHANGED <<config, garbled, loop, reading, wg, handler, worker, conn, responses,
                  lost, limited>>
  BY DEF clientSends, clientHangsUp, loopvars, answervars
<1>2. Counted' /\ (\A r \in Request : Paired(r)') /\ Closing' /\ Losing'
  BY <1>1 DEF IInv, Counted, Open, Paired, Both, Closing, Losing
<1>3. CASE \E r \in Request : clientSends(r)
  <2>1. PICK r \in Request : clientSends(r)
    BY <1>3
  <2>2. /\ asked' = asked \cup {r} /\ r \notin asked /\ hungUp' = hungUp
        /\ inbox' \in Seq(Message) /\ InboxOnce' /\ MessagesAsked'
        /\ Headers' \subseteq Headers \cup {r}
    <3>1. CASE conn = "open"
      BY <2>1, <3>1, InboxGrows DEF clientSends, IInv, Types, Fresh
    <3>2. CASE conn # "open"
      BY <2>1, <3>2 DEF clientSends, IInv, Types, Fresh, InboxOnce, MessagesAsked, Headers
    <3> QED
      BY <3>1, <3>2
  <2>3. Types'
    BY <1>1, <2>2 DEF IInv, Types
  <2>4. Fresh'
    BY <1>1, <2>2 DEF IInv, Fresh
  <2> QED
    BY <1>2, <2>3, <2>4 DEF IInv
<1>4. CASE clientHangsUp
  <2>1. PICK n \in 0..Len(inbox) : inbox' = SubSeq(inbox, 1, n)
    BY <1>4 DEF clientHangsUp
  <2>2. asked' = asked /\ hungUp' = TRUE
    BY <1>4 DEF clientHangsUp
  <2>3. /\ inbox' \in Seq(Message) /\ InboxOnce' /\ MessagesAsked'
        /\ Headers' \subseteq Headers
    <3>1. 0 \in 0..Len(inbox) /\ n \in 0..Len(inbox) /\ inbox' = SubSeq(inbox, 0 + 1, n)
      BY <2>1 DEF IInv, Types
    <3> HIDE DEF Message
    <3>2. PieceOf(inbox', 0)
      BY <3>1, SubSeqIsPiece DEF IInv, Types
    <3> QED
      BY <2>2, <3>2, PieceOfInbox DEF IInv, Types, Fresh
  <2>4. Types'
    BY <1>1, <2>2, <2>3 DEF IInv, Types
  <2>5. Fresh'
    BY <1>1, <2>2, <2>3 DEF IInv, Fresh
  <2> QED
    BY <1>2, <2>4, <2>5 DEF IInv
<1> QED
  BY <1>3, <1>4

\* The read loop consumes messages in order and starts handlers for fresh
\* requests only.
LEMMA ServeKeepsIInv ==
  ASSUME IInv, serveStep
  PROVE  IInv'
<1>1. CASE ServeConn
  <2>1. /\ UNCHANGED <<config, asked, hungUp, reading, wg, handler, worker, responses, lost,
                       limited>>
        /\ loop = "options" /\ loop' \in {"limiter", "closed"}
        /\ conn' = conn \/ (loop' = "closed" /\ conn = "open" /\ conn' = "closed")
    BY <1>1 DEF ServeConn, Close, clientvars
  <2>2. garbled' \in BOOLEAN
    <3>1. CASE garbled' = garbled
      BY <3>1 DEF IInv, Types
    <3>2. ASSUME NEW n \in 0..Len(inbox), garbled' = (n > 0) PROVE garbled' \in BOOLEAN
      BY <3>2
    <3> QED
      BY <1>1, <3>1, <3>2 DEF ServeConn
  <2>3. /\ inbox' \in Seq(Message) /\ InboxOnce' /\ MessagesAsked'
        /\ Headers' \subseteq Headers
    <3>1. CASE inbox' = inbox
      BY <2>1, <3>1 DEF IInv, Types, Fresh, InboxOnce, MessagesAsked, Headers
    <3>2. ASSUME NEW n \in 0..Len(inbox), inbox' = SubSeq(inbox, n + 1, Len(inbox))
          PROVE  /\ inbox' \in Seq(Message) /\ InboxOnce' /\ MessagesAsked'
                 /\ Headers' \subseteq Headers
      <4>1. Len(inbox) \in n..Len(inbox) /\ n \in Nat
        BY DEF IInv, Types
      <4> HIDE DEF Message
      <4>2. PieceOf(inbox', n)
        BY <3>2, <4>1, SubSeqIsPiece DEF IInv, Types
      <4> QED
        BY <2>1, <4>1, <4>2, PieceOfInbox DEF IInv, Types, Fresh
    <3> QED
      BY <1>1, <3>1, <3>2 DEF ServeConn
  <2>4. Types'
    BY <2>1, <2>2, <2>3 DEF IInv, Types
  <2>5. Counted' /\ (\A r \in Request : Paired(r)')
    BY <2>1 DEF IInv, Counted, Open, Paired, Both
  <2>6. Fresh'
    BY <2>1, <2>3 DEF IInv, Fresh
  <2>7. Closing' /\ Losing'
    BY <2>1 DEF IInv, Closing, Open, Losing
  <2> QED
    BY <2>4, <2>5, <2>6, <2>7 DEF IInv
<1>2. CASE limiter \/ readHeaderFails \/ closeConn
  <2>1. UNCHANGED <<config, asked, hungUp, garbled, reading, wg, handler, worker, responses,
                    lost>>
    BY <1>2 DEF limiter, readHeaderFails, closeConn, clientvars, answervars
  <2>2. \/ inbox' = inbox /\ conn' = conn
        \/ Break(inbox)
        \/ inbox' = inbox /\ Close /\ loop' = "closed"
    BY <1>2 DEF limiter, readHeaderFails, closeConn, answervars
  <2>3. /\ inbox' \in Seq(Message) /\ InboxOnce' /\ MessagesAsked'
        /\ Headers' \subseteq Headers
    <3>1. CASE inbox' = inbox
      BY <2>1, <3>1 DEF IInv, Types, Fresh, InboxOnce, MessagesAsked, Headers
    <3>2. CASE Break(inbox)
      <4>1. PieceOf(inbox, 0)
        BY DEF IInv, Types, PieceOf
      <4> HIDE DEF Message
      <4>2. PieceOf(inbox', 0)
        BY <3>2, <4>1, BreakLeavesPiece DEF IInv, Types
      <4> QED
        BY <2>1, <4>2, PieceOfInbox DEF IInv, Types, Fresh
    <3> QED
      BY <2>2, <3>1, <3>2
  <2>4. conn' \in {"open", "closed", "broken"} /\ (conn = "broken" => conn' = "broken")
        /\ (conn' = "closed" => conn = "closed" \/ loop' = "closed")
    BY <2>2 DEF Break, Close, IInv, Types
  <2>5. /\ loop' \in {"options", "limiter", "header", "body", "wait", "closed"}
        /\ loop' # "options" /\ loop # "closed" /\ limited' \in 0..MaxLimited
    BY <1>2, ServerAssumption DEF limiter, readHeaderFails, closeConn, IInv, Types
  <2>6. Types'
    BY <2>1, <2>3, <2>4, <2>5 DEF IInv, Types
  <2>7. Counted' /\ (\A r \in Request : Paired(r)')
    BY <2>1 DEF IInv, Counted, Open, Paired, Both
  <2>8. Fresh'
    BY <2>1, <2>3 DEF IInv, Fresh
  <2>9. Closing'
    <3>1. loop' = "closed" => wg = 0
      BY <1>2 DEF limiter, readHeaderFails, closeConn
    <3>2. wg = 0 => Open = {}
      BY OpenFinite, FS_EmptySet DEF IInv, Counted
    <3> QED
      BY <2>1, <2>5, <3>1, <3>2 DEF Closing, Open
  <2>10. Losing'
    BY <2>1, <2>4, <2>5 DEF IInv, Losing
  <2> QED
    BY <2>6, <2>7, <2>8, <2>9, <2>10 DEF IInv
<1>3. CASE readHeader
  <2> DEFINE r == Head(inbox)[2]
  <2>1. /\ UNCHANGED <<config, asked, hungUp, garbled, wg, handler, worker, limited>>
        /\ inbox # <<>> /\ loop = "header" /\ loop' \in {"limiter", "body"}
    BY <1>3 DEF readHeader, clientvars
  <2>2. Head(inbox) = <<"header", r>> /\ r \in Headers
    <3>1. Head(inbox) = inbox[1] /\ inbox[1] \in Message /\ 1 \in DOMAIN inbox
      BY <2>1 DEF IInv, Types
    <3>2. Head(inbox)[1] = "header"
      BY <1>3 DEF readHeader
    <3>3. inbox[1] = <<"header", r>> /\ r \in Request
      BY <3>1, <3>2 DEF Message
    <3> QED
      BY <3>1, <3>3 DEF Headers
  <2>3. /\ inbox' \in Seq(Message) /\ InboxOnce' /\ MessagesAsked'
        /\ Headers' \subseteq Headers \ {r}
    <3>1. PieceOf(inbox', 1)
      <4>1. PieceOf(Tail(inbox), 1)
        BY <2>1, TailIsPiece DEF IInv, Types
      <4>2. inbox' = Tail(inbox) \/ Respond(r, Tail(inbox))
        BY <1>3 DEF readHeader
      <4> HIDE DEF Message
      <4> QED
        BY <4>1, <4>2, RespondEffect DEF IInv, Types
    <3>2. inbox[1] = <<"header", r>>
      BY <2>1, <2>2 DEF IInv, Types
    <3> HIDE DEF Message, r
    <3> QED
      BY <2>1, <3>1, <3>2, PieceOfInbox DEF IInv, Types, Fresh
  <2>4. /\ r \in Request /\ r \in asked /\ r \notin reading
        /\ handler[r] = "none" /\ responses[r] = 0
    <3>1. r \in asked
      BY <2>2 DEF IInv, Fresh, MessagesAsked, Headers
    <3> QED
      BY <2>2, <3>1 DEF IInv, Fresh, Headers
  <2>5. \/ Respond(r, Tail(inbox)) /\ reading' = reading
        \/ reading' = {r} /\ UNCHANGED <<conn, lost, responses>>
    BY <1>3 DEF readHeader, answervars
  <2>6. /\ responses' \in [Request -> Nat]
        /\ \A q \in Request : responses'[q] = responses[q] \/ (q = r /\ responses'[q] = 1)
        /\ conn' \in {"open", "closed", "broken"} /\ lost \subseteq lost' /\ lost' \subseteq Request
        /\ Losing'
    BY <2>1, <2>4, <2>5 DEF IInv, Types, Respond, Break, Losing
  <2> HIDE DEF r
  <2>7. Types'
    BY <2>1, <2>3, <2>4, <2>5, <2>6 DEF IInv, Types
  <2>8. Counted' /\ Closing'
    BY <2>1 DEF IInv, Counted, Open, Closing
  <2>9. \A q \in Request : Paired(q)'
    BY <2>1, <2>4, <2>6 DEF IInv, Paired, Both
  <2>10. Fresh'
    <3>1. CASE reading' = {r} /\ UNCHANGED <<conn, lost, responses>>
      BY <2>1, <2>2, <2>3, <2>4, <3>1 DEF IInv, Fresh
    <3>2. CASE reading' = reading
      BY <2>1, <2>3, <2>4, <2>6, <3>2 DEF IInv, Fresh
    <3> QED
      BY <2>5, <3>1, <3>2
  <2> QED
    BY <2>6, <2>7, <2>8, <2>9, <2>10 DEF IInv
<1>4. CASE spawn \/ readBodyFails
  <2>1. /\ UNCHANGED <<config, asked, hungUp, garbled, limited>>
        /\ reading' = {} /\ loop = "body" /\ loop' = "limiter"
    BY <1>4 DEF spawn, readBodyFails, clientvars
  <2>2. /\ inbox' \in Seq(Message) /\ InboxOnce' /\ MessagesAsked'
        /\ Headers' \subseteq Headers
    <3> DEFINE rest == IF inbox = <<>> THEN <<>> ELSE Tail(inbox)
    <3>1. PICK k \in {0, 1} : PieceOf(rest, k)
      <4>1. CASE inbox = <<>>
        BY <4>1 DEF PieceOf, IInv, Types
      <4>2. CASE inbox # <<>>
        BY <4>2, TailIsPiece DEF IInv, Types
      <4> QED
        BY <4>1, <4>2
    <3>2. inbox' = rest \/ \E r \in reading : Respond(r, rest)
      BY <1>4 DEF spawn, readBodyFails
    <3> HIDE DEF Message, rest
    <3>3. PieceOf(inbox', k)
      BY <3>1, <3>2, RespondEffect DEF IInv, Types
    <3> QED
      BY <2>1, <3>3, PieceOfInbox DEF IInv, Types, Fresh
  <2>3. \E r \in reading :
          \/ /\ handler[r] = "none" /\ handler' = [handler EXCEPT ![r] = "select"]
             /\ worker[r] = "none" /\ worker' = [worker EXCEPT ![r] = "start"]
             /\ wg' = wg + 1 /\ UNCHANGED <<conn, lost, responses>>
          \/ /\ \E rest : Respond(r, rest)
             /\ UNCHANGED <<handler, worker, wg>>
    BY <1>4 DEF spawn, readBodyFails, handlerStep, workerStep, answervars
  <2>4. PICK r \in reading :
          \/ /\ handler[r] = "none" /\ handler' = [handler EXCEPT ![r] = "select"]
             /\ worker[r] = "none" /\ worker' = [worker EXCEPT ![r] = "start"]
             /\ wg' = wg + 1 /\ UNCHANGED <<conn, lost, responses>>
          \/ /\ \E rest : Respond(r, rest)
             /\ UNCHANGED <<handler, worker, wg>>
    BY <2>3
  <2>5. /\ r \in Request /\ r \in asked /\ r \notin Headers
        /\ handler[r] = "none" /\ responses[r] = 0
    BY DEF IInv, Types, Fresh
  <2>6. CASE /\ handler' = [handler EXCEPT ![r] = "select"]
             /\ worker' = [worker EXCEPT ![r] = "start"]
             /\ wg' = wg + 1 /\ UNCHANGED <<conn, lost, responses>>
    <3>1. Types'
      BY <2>1, <2>2, <2>6 DEF IInv, Types
    <3>2. Counted'
      <4>1. Open' = Open \cup {r} /\ r \notin Open
        BY <2>5, <2>6 DEF IInv, Types, Open
      <4> QED
        BY <2>6, <4>1, OpenFinite, FS_AddElement DEF IInv, Counted
    <3>3. Fresh'
      BY <2>1, <2>2, <2>5, <2>6 DEF IInv, Types, Fresh
    <3>4. \A q \in Request : Paired(q)'
      BY <2>1, <2>5, <2>6 DEF IInv, Types, Paired, Both
    <3>5. Closing' /\ Losing'
      BY <2>1, <2>6 DEF IInv, Closing, Losing
    <3> QED
      BY <3>1, <3>2, <3>3, <3>4, <3>5 DEF IInv
  <2>7. CASE /\ \E rest : Respond(r, rest)
             /\ UNCHANGED <<handler, worker, wg>>
    <3>1. /\ responses' \in [Request -> Nat]
          /\ \A q \in Request : responses'[q] = responses[q] \/ (q = r /\ responses'[q] = 1)
          /\ conn' \in {"open", "closed", "broken"} /\ lost \subseteq lost' /\ lost' \subseteq Request
          /\ Losing'
      BY <2>1, <2>5, <2>7 DEF IInv, Types, Respond, Break, Losing
    <3>2. Types'
      BY <2>1, <2>2, <2>7, <3>1 DEF IInv, Types
    <3>3. Counted' /\ Closing'
      BY <2>1, <2>7 DEF IInv, Counted, Open, Closing
    <3>4. Fresh'
      BY <2>1, <2>2, <2>5, <2>7, <3>1 DEF IInv, Fresh
    <3>5. \A q \in Request : Paired(q)'
      BY <2>1, <2>5, <2>7, <3>1 DEF IInv, Paired, Both
    <3> QED
      BY <3>1, <3>2, <3>3, <3>4, <3>5 DEF IInv
  <2> QED
    BY <2>4, <2>6, <2>7
<1> QED
  BY <1>1, <1>2, <1>3, <1>4 DEF serveStep

\* A step of a request's goroutines concerns that request alone, which is not
\* in the stream any more.
LEMMA RequestKeepsIInv ==
  ASSUME IInv, NEW r \in Request, requestStep(r)
  PROVE  IInv'
<1>1. UNCHANGED <<config, asked, hungUp, garbled, loop, reading, limited>>
  BY DEF requestStep, clientvars, loopvars, breakerRejects, call, calledReceived,
     workerResponds, sentReceived, handleTimeout
<1>2. /\ handler[r] # "none" /\ handler'[r] # "none"
      /\ handler' \in [Request -> {"none", "select", "sent", "ended"}]
      /\ \A q \in Request \ {r} : handler'[q] = handler[q]
  <2>1. CASE handler' = handler
    BY <2>1 DEF requestStep, breakerRejects, call, calledReceived, workerResponds,
       sentReceived, handleTimeout, workerStep, handlerStep, IInv, Types, Paired
  <2>2. CASE calledReceived(r) \/ sentReceived(r) \/ handleTimeout(r)
    BY <2>2 DEF calledReceived, sentReceived, handleTimeout, handlerStep, IInv, Types
  <2> QED
    BY <2>1, <2>2 DEF requestStep, breakerRejects, call, workerResponds
<1>3. /\ worker' \in [Request -> {"none", "start", "called", "respond", "sent", "ended"}]
      /\ \A q \in Request \ {r} : worker'[q] = worker[q]
  BY DEF requestStep, breakerRejects, call, calledReceived, workerResponds, sentReceived,
     handleTimeout, workerStep, IInv, Types
<1>4. /\ responses' \in [Request -> Nat]
      /\ \A q \in Request \ {r} : responses'[q] = responses[q]
      /\ \A q \in Request \ {r} : q \in lost' <=> q \in lost
      /\ lost' \subseteq Request /\ conn' \in {"open", "closed", "broken"}
  <2>1. Respond(r, inbox) \/ UNCHANGED <<conn, lost, responses>>
    BY DEF requestStep, breakerRejects, call, calledReceived, workerResponds, sentReceived,
       handleTimeout, answervars
  <2> QED
    BY <2>1 DEF Respond, Break, IInv, Types
<1>5. /\ inbox' \in Seq(Message) /\ InboxOnce' /\ MessagesAsked'
       /\ Headers' \subseteq Headers
  <2>1. PieceOf(inbox, 0)
    BY DEF IInv, Types, PieceOf
  <2>2. inbox' = inbox \/ Respond(r, inbox)
    BY DEF requestStep, breakerRejects, call, calledReceived, workerResponds, sentReceived,
       handleTimeout
  <2> HIDE DEF Message
  <2>3. PieceOf(inbox', 0)
    BY <2>1, <2>2, RespondEffect DEF IInv, Types
  <2> QED
    BY <1>1, <2>3, PieceOfInbox DEF IInv, Types, Fresh
<1>6. Losing'
  <2>1. CASE UNCHANGED <<conn, lost, responses>>
    BY <1>1, <2>1 DEF IInv, Losing
  <2>2. CASE Respond(r, inbox)
    <3>1. responses[r] = 0 /\ conn = "closed" => r \in lost
      <4>1. loop = "closed" => handler[r] = "ended"
        BY <1>2 DEF IInv, Types, Closing, Open
      <4> QED
        BY <4>1 DEF IInv, Paired, Losing
    <3> QED
      BY <1>1, <2>2, <3>1 DEF Respond, Break, IInv, Types, Losing
  <2> QED
    BY <2>1, <2>2 DEF requestStep, breakerRejects, call, calledReceived, workerResponds,
       sentReceived, handleTimeout, answervars
<1>7. Types'
  BY <1>1, <1>2, <1>3, <1>4, <1>5 DEF IInv, Types
<1>8. Counted'
  <2>1. CASE breakerRejects(r) \/ call(r) \/ workerResponds(r)
    BY <2>1 DEF breakerRejects, call, workerResponds, IInv, Counted, Open
  <2>2. CASE calledReceived(r)
    <3>1. Open' = Open /\ wg' = wg
      BY <2>2 DEF calledReceived, handlerStep, IInv, Types, Open
    <3> QED
      BY <3>1 DEF IInv, Counted
  <2>3. CASE sentReceived(r) \/ handleTimeout(r)
    <3>1. Open' = Open \ {r} /\ r \in Open /\ wg' = wg - 1
      BY <2>3 DEF sentReceived, handleTimeout, handlerStep, IInv, Types, Open
    <3> QED
      BY <3>1, OpenFinite, FS_RemoveElement DEF IInv, Counted
  <2> QED
    BY <2>1, <2>2, <2>3 DEF requestStep
<1>9. Fresh'
  <2>1. r \notin Headers \cup reading /\ r \in asked
    BY <1>2 DEF IInv, Fresh
  <2> QED
    BY <1>1, <1>2, <1>4, <1>5, <2>1 DEF IInv, Fresh
<1>10. Paired(r)'
  <2>1. Paired(r) /\ responses[r] \in Nat
    BY DEF IInv, Types
  <2>2. CASE breakerRejects(r)
    BY <1>1, <2>1, <2>2 DEF breakerRejects, workerStep, answervars, Paired, Both,
       IInv, Types
  <2>3. CASE call(r)
    BY <1>1, <2>1, <2>3 DEF call, workerStep, answervars, Paired, Both, IInv, Types
  <2>4. CASE calledReceived(r)
    BY <1>1, <2>1, <2>4 DEF calledReceived, workerStep, handlerStep, answervars, Paired, Both,
       IInv, Types
  <2>5. CASE workerResponds(r)
    BY <1>1, <2>1, <2>5 DEF workerResponds, workerStep, Respond, Paired, Both, IInv, Types
  <2>6. CASE sentReceived(r)
    BY <1>1, <2>1, <2>6 DEF sentReceived, workerStep, handlerStep, answervars, Paired, Both,
       IInv, Types
  <2>7. CASE handleTimeout(r)
    BY <1>1, <2>1, <2>7 DEF handleTimeout, handlerStep, Respond, Paired, Both, IInv, Types
  <2> QED
    BY <2>2, <2>3, <2>4, <2>5, <2>6, <2>7 DEF requestStep
<1>11. \A q \in Request : Paired(q)'
  BY <1>1, <1>2, <1>3, <1>4, <1>10 DEF IInv, Paired, Both
<1>12. Closing'
  <2>1. loop # "options"
    BY <1>2 DEF IInv, Closing
  <2>2. Open = {} => Open' = {}
    BY <1>2 DEF requestStep, breakerRejects, call, calledReceived, workerResponds,
       sentReceived, handleTimeout, handlerStep, Open
  <2> QED
    BY <1>1, <2>1, <2>2 DEF IInv, Closing
<1> QED
  BY <1>7, <1>8, <1>9, <1>11, <1>12, <1>6 DEF IInv

\* The inductive invariant of a connection.
LEMMA IInvInvariant == Spec => []IInv
<1>1. Init => IInv
  <2> SUFFICES ASSUME Init PROVE IInv
    OBVIOUS
  <2> USE ServerAssumption DEF Init
  <2>1. Types
    <3>1. config \in Config /\ limited \in 0..MaxLimited
      OBVIOUS
    <3>2. inbox \in Seq(Message)
      OBVIOUS
    <3>3. /\ handler \in [Request -> {"none", "select", "sent", "ended"}]
          /\ worker \in [Request -> {"none", "start", "called", "respond", "sent", "ended"}]
          /\ responses \in [Request -> Nat]
      OBVIOUS
    <3> QED
      BY <3>1, <3>2, <3>3 DEF Types
  <2>2. Open = {} /\ Headers = {}
    BY DEF Open, Headers
  <2>3. Counted
    BY <2>2, FS_EmptySet DEF Counted
  <2>4. Fresh
    BY <2>2 DEF Fresh, InboxOnce, MessagesAsked
  <2>5. \A r \in Request : Paired(r)
    BY DEF Paired
  <2>6. Closing /\ Losing
    BY DEF Closing, Losing
  <2> QED
    BY <2>1, <2>3, <2>4, <2>5, <2>6 DEF IInv
<1>2. IInv /\ [Next]_vars => IInv'
  <2> SUFFICES ASSUME IInv, [Next]_vars PROVE IInv'
    OBVIOUS
  <2>1. CASE Next
    BY <2>1, ClientKeepsIInv, ServeKeepsIInv, RequestKeepsIInv DEF Next
  <2>2. CASE UNCHANGED vars
    BY <2>2 DEF vars, clientvars, loopvars, answervars, IInv, Types, Counted, Open, Fresh,
       InboxOnce, MessagesAsked, Headers, Paired, Both, Closing, Losing
  <2> QED
    BY <2>1, <2>2
<1> QED
  BY <1>1, <1>2, PTL DEF Spec
----------------------------------------------------------------------------
\* Every variable keeps its type; the counter of the WaitGroup, the number of
\* handlers that have not ended, is never negative (server.go:92, :189).
THEOREM ServerTypesHold == Spec => []TypeOK
<1>1. IInv => TypeOK
  BY OpenFinite, FS_CardinalityType DEF IInv, Types, Message, Counted, TypeOK
<1> QED
  BY <1>1, IInvInvariant, PTL

\* A request is answered at most once, for any number of requests, however its
\* call and its timeout meet (server.go:211-237).
THEOREM NeverAnsweredTwice == Spec => []AnsweredAtMostOnce
<1>1. IInv => AnsweredAtMostOnce
  <2> SUFFICES ASSUME IInv, ~Both, NEW r \in Request PROVE responses[r] <= 1
    BY DEF AnsweredAtMostOnce, Both
  <2>1. CASE handler[r] = "none"
    BY <2>1 DEF IInv, Fresh
  <2>2. CASE handler[r] # "none"
    BY <2>2 DEF IInv, Types, Paired
  <2> QED
    BY <2>1, <2>2
<1> QED
  BY <1>1, IInvInvariant, PTL

\* serveCodec closes the connection only when the response to every request
\* handed to a handler has been written, and when a Write that failed has closed
\* it before, only when every handler has come to its response (server.go:81,
\* :95-96, gob.go:40-42).
THEOREM ClosedOnlyAfterAnswers == Spec => []ClosedAfterAnswers
<1>1. IInv => ClosedAfterAnswers
  <2> SUFFICES ASSUME IInv, loop = "closed", NEW r \in Request, handler[r] # "none",
                      responses[r] = 0
               PROVE  conn = "broken" /\ r \in lost
    BY DEF ClosedAfterAnswers, IInv, Types
  <2>1. handler[r] = "ended"
    BY DEF IInv, Types, Closing, Open
  <2>2. r \in lost
    BY <2>1 DEF IInv, Paired
  <2> QED
    BY <2>2 DEF IInv, Losing
<1> QED
  BY <1>1, IInvInvariant, PTL
=============================================================================

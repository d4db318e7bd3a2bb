--------------------------- MODULE LoopQueueProof ---------------------------
(***************************************************************************)
(* What is proved of the ring buffer: it holds exactly the queued workers, *)
(* its refresh takes out exactly the expired ones, and it implements the   *)
(* bounded queue of WorkerQueue.                                           *)
(***************************************************************************)
EXTENDS LoopQueue, FiniteInduction, TLAPS
----------------------------------------------------------------------------
(* The binary search *)

Mid(l, r) == l + (r - l) \div 2

\* The right side of the equation that defines search.
searchStep(n, late, f) ==
    [lr \in (0..n) \X (-1..n-1) |->
       LET l == lr[1]
           r == lr[2]
           mid == l + (r - l) \div 2
       IN IF l > r THEN r
          ELSE IF mid \in late THEN f[<<l, mid - 1>>] ELSE f[<<mid + 1, r>>]]

\* The middle of an interval lies in it.
LEMMA MidBetween ==
  ASSUME NEW l \in Int, NEW r \in Int, l <= r
  PROVE  Mid(l, r) \in l..r
BY DEF Mid

\* The loop is over: r is returned.
LEMMA StepOver ==
  ASSUME NEW n \in Nat, NEW late, NEW f, NEW g, g = searchStep(n, late, f),
         NEW l \in 0..n, NEW r \in -1..n-1, l > r
  PROVE  g[<<l, r>>] = r
BY SMT DEF searchStep

\* One round of the loop.
LEMMA StepAt ==
  ASSUME NEW n \in Nat, NEW late, NEW f, NEW g, g = searchStep(n, late, f),
         NEW l \in 0..n, NEW r \in -1..n-1, ~(l > r)
  PROVE  g[<<l, r>>] = IF Mid(l, r) \in late THEN f[<<l, Mid(l, r) - 1>>]
                                             ELSE f[<<Mid(l, r) + 1, r>>]
<1>1. PICK m : m = Mid(l, r)
  OBVIOUS
<1>2. searchStep(n, late, f)[<<l, r>>]
        = IF m \in late THEN f[<<l, m - 1>>] ELSE f[<<m + 1, r>>]
  BY <1>1, SMT DEF searchStep, Mid
<1> QED
  BY <1>1, <1>2

\* Both intervals a round may go on with are shorter, and are arguments again.
LEMMA RoundShortens ==
  ASSUME NEW n \in Nat, NEW l \in 0..n, NEW r \in -1..n-1, ~(l > r)
  PROVE  /\ Mid(l, r) \in l..r
         /\ Mid(l, r) - 1 \in -1..n-1 /\ (Mid(l, r) - 1) - l < r - l
         /\ Mid(l, r) + 1 \in 0..n /\ r - (Mid(l, r) + 1) < r - l
<1>1. Mid(l, r) \in l..r
  BY MidBetween
<1> QED
  BY <1>1

\* Functions that agree on the shorter intervals have the same next round.
LEMMA SameRound ==
  ASSUME NEW n \in Nat, NEW late, NEW f, NEW g, NEW l \in 0..n, NEW r \in -1..n-1,
         NEW u, u = searchStep(n, late, f), NEW v, v = searchStep(n, late, g),
         \A a \in 0..n, b \in -1..n-1 : b - a < r - l => f[<<a, b>>] = g[<<a, b>>]
  PROVE  u[<<l, r>>] = v[<<l, r>>]
<1>1. CASE l > r
  BY <1>1, StepOver
<1>2. CASE ~(l > r)
  <2>1. PICK m : m = Mid(l, r)
    OBVIOUS
  <2>2. /\ m - 1 \in -1..n-1 /\ (m - 1) - l < r - l
        /\ m + 1 \in 0..n /\ r - (m + 1) < r - l
    BY <1>2, <2>1, RoundShortens
  <2>3. f[<<l, m - 1>>] = g[<<l, m - 1>>] /\ f[<<m + 1, r>>] = g[<<m + 1, r>>]
    BY <2>2
  <2>4. /\ u[<<l, r>>] = IF m \in late THEN f[<<l, m - 1>>] ELSE f[<<m + 1, r>>]
        /\ v[<<l, r>>] = IF m \in late THEN g[<<l, m - 1>>] ELSE g[<<m + 1, r>>]
    BY <1>2, <2>1, StepAt
  <2> QED
    BY <2>3, <2>4
<1> QED
  BY <1>1, <1>2

\* The equation has a solution: k rounds of the loop give the values of all
\* intervals shorter than k, and no interval is longer than the ring.
LEMMA SearchExists ==
  ASSUME NEW n \in Nat, NEW late
  PROVE  \E f : f = searchStep(n, late, f)
<1> DEFINE Agree(f, u, k) ==
             /\ u = searchStep(n, late, f)
             /\ \A l \in 0..n, r \in -1..n-1 : r - l < k => f[<<l, r>>] = u[<<l, r>>]
           S == { k \in Nat : \E f, u : Agree(f, u, k) }
<1>1. 0 \in S
  <2>1. PICK f : f = [lr \in (0..n) \X (-1..n-1) |-> lr[2]]
    OBVIOUS
  <2>2. \A l \in 0..n, r \in -1..n-1 : f[<<l, r>>] = r
    BY <2>1
  <2>3. PICK u : u = searchStep(n, late, f)
    OBVIOUS
  <2>4. \A l \in 0..n, r \in -1..n-1 : l > r => u[<<l, r>>] = r
    BY <2>3, StepOver
  <2>5. Agree(f, u, 0)
    BY <2>2, <2>3, <2>4
  <2> QED
    BY <2>5
<1>2. \A k \in Nat : k \in S => k + 1 \in S
  <2> SUFFICES ASSUME NEW k \in Nat, k \in S PROVE k + 1 \in S
    OBVIOUS
  <2>1. PICK f, g : Agree(f, g, k)
    OBVIOUS
  <2>2. PICK u : u = searchStep(n, late, g)
    OBVIOUS
  <2>3. ASSUME NEW l \in 0..n, NEW r \in -1..n-1, r - l < k + 1
        PROVE  g[<<l, r>>] = u[<<l, r>>]
    <3>1. \A a \in 0..n, b \in -1..n-1 : b - a < r - l => f[<<a, b>>] = g[<<a, b>>]
      BY <2>1, <2>3
    <3>2. g = searchStep(n, late, f)
      BY <2>1
    <3> QED
      BY <2>2, <3>1, <3>2, SameRound
  <2>4. Agree(g, u, k + 1)
    BY <2>2, <2>3
  <2> QED
    BY <2>4
<1>3. n + 1 \in S
  <2> HIDE DEF S
  <2> QED
    BY <1>1, <1>2, NatSetInduction
<1>4. PICK f, g : Agree(f, g, n + 1)
  BY <1>3
<1>5. PICK u : u = searchStep(n, late, g)
  OBVIOUS
<1>6. \A l \in 0..n, r \in -1..n-1 : f[<<l, r>>] = g[<<l, r>>]
  <2>1. \A l \in 0..n, r \in -1..n-1 : r - l < n + 1
    OBVIOUS
  <2> QED
    BY <1>4, <2>1
<1>7. \A l \in 0..n, r \in -1..n-1 : g[<<l, r>>] = u[<<l, r>>]
  <2>1. SUFFICES ASSUME NEW l \in 0..n, NEW r \in -1..n-1
                 PROVE  g[<<l, r>>] = u[<<l, r>>]
    OBVIOUS
  <2>2. \A a \in 0..n, b \in -1..n-1 : b - a < r - l => f[<<a, b>>] = g[<<a, b>>]
    BY <1>6
  <2>3. g = searchStep(n, late, f)
    BY <1>4
  <2> QED
    BY <1>5, <2>2, <2>3, SameRound
<1>8. \A lr \in (0..n) \X (-1..n-1) : g[lr] = u[lr]
  BY <1>7
<1>9. g = searchStep(n, late, g)
  BY <1>4, <1>5, <1>8 DEF searchStep
<1> QED
  BY <1>9

\* search satisfies the equation that defines it.
LEMMA SearchDef ==
  ASSUME NEW n \in Nat, NEW late
  PROVE  search(n, late) = searchStep(n, late, search(n, late))
<1> DEFINE s == CHOOSE f : f = searchStep(n, late, f)
<1>1. s = search(n, late)
  BY Zenon DEF search, searchStep
<1>2. s = searchStep(n, late, s)
  BY SearchExists
<1> QED
  BY <1>1, <1>2

\* Between l and r the loop stops at the last position that is not late, if
\* the positions that are not late come first; in any case it stops before l
\* only if l is late, and otherwise at a position that is not.
LEMMA SearchFinds ==
  ASSUME NEW n \in Nat, NEW late, NEW l \in 0..n, NEW r \in -1..n-1, l <= r + 1
  PROVE  /\ search(n, late)[<<l, r>>] \in l-1..r
         /\ search(n, late)[<<l, r>>] >= l => search(n, late)[<<l, r>>] \notin late
         /\ l <= r /\ search(n, late)[<<l, r>>] = l - 1 => l \in late
         /\ (\A a, b \in l..r : a < b /\ a \in late => b \in late) =>
              \A a \in l..r : a \in late <=> a > search(n, late)[<<l, r>>]
<1> DEFINE Right(f, a, b) ==
             /\ f[<<a, b>>] \in a-1..b
             /\ f[<<a, b>>] >= a => f[<<a, b>>] \notin late
             /\ a <= b /\ f[<<a, b>>] = a - 1 => a \in late
             /\ (\A c, d \in a..b : c < d /\ c \in late => d \in late) =>
                  \A c \in a..b : c \in late <=> c > f[<<a, b>>]
<1>1. PICK s : s = search(n, late)
  OBVIOUS
<1> DEFINE S == { k \in Nat : \A a \in 0..n, b \in -1..n-1 :
                    a <= b + 1 /\ b - a < k => Right(s, a, b) }
<1>2. s = searchStep(n, late, s)
  BY <1>1, SearchDef
<1>3. 0 \in S
  <2>1. SUFFICES ASSUME NEW a \in 0..n, NEW b \in -1..n-1, a <= b + 1, b - a < 0
                 PROVE  Right(s, a, b)
    OBVIOUS
  <2>2. a > b
    BY <2>1
  <2>3. s[<<a, b>>] = b
    BY <1>2, <2>2, StepOver
  <2> QED
    BY <2>1, <2>3
<1>4. \A k \in Nat : k \in S => k + 1 \in S
  <2> SUFFICES ASSUME NEW k \in Nat, k \in S PROVE k + 1 \in S
    OBVIOUS
  <2> SUFFICES ASSUME NEW a \in 0..n, NEW b \in -1..n-1, a <= b + 1, b - a < k + 1
               PROVE  Right(s, a, b)
    OBVIOUS
  <2>1. \A c \in 0..n, d \in -1..n-1 : c <= d + 1 /\ d - c < k => Right(s, c, d)
    OBVIOUS
  <2>2. CASE a > b
    <3>1. s[<<a, b>>] = b
      BY <1>2, <2>2, StepOver
    <3> QED
      BY <2>1, <2>2, <3>1
  <2>3. CASE ~(a > b)
    <3>0. s[<<a, b>>] = IF Mid(a, b) \in late THEN s[<<a, Mid(a, b) - 1>>]
                                               ELSE s[<<Mid(a, b) + 1, b>>]
      BY <1>2, <2>3, StepAt
    <3>1. PICK m : m = Mid(a, b)
      OBVIOUS
    <3>2. /\ m \in a..b
          /\ m - 1 \in -1..n-1 /\ (m - 1) - a < b - a
          /\ m + 1 \in 0..n /\ b - (m + 1) < b - a
      BY <2>3, <3>1, RoundShortens
    <3>3. CASE m \in late
      <4>1. s[<<a, b>>] = s[<<a, m - 1>>]
        BY <3>0, <3>1, <3>3
      <4>2. Right(s, a, m - 1)
        BY <2>1, <3>2
      <4>3. PICK v : v = s[<<a, m - 1>>]
        OBVIOUS
      <4>4. /\ v \in a-1..m-1
            /\ v >= a => v \notin late
            /\ a <= m - 1 /\ v = a - 1 => a \in late
        BY <4>2, <4>3
      <4>5. (\A c, d \in a..m-1 : c < d /\ c \in late => d \in late) =>
              \A c \in a..m-1 : c \in late <=> c > v
        BY <4>2, <4>3
      <4>6. ASSUME \A c, d \in a..b : c < d /\ c \in late => d \in late
            PROVE  \A c \in a..b : c \in late <=> c > v
        <5>1. \A c \in a..m-1 : c \in late <=> c > v
          BY <3>2, <4>5, <4>6
        <5>2. \A c \in a..b : c \notin a..m-1 => c \in late /\ c > v
          BY <3>2, <3>3, <4>4, <4>6
        <5> QED
          BY <5>1, <5>2
      <4>7. a <= b /\ v = a - 1 => a \in late
        BY <3>2, <3>3, <4>4
      <4>8. v \in a-1..b
        BY <3>2, <4>4
      <4> QED
        BY <4>1, <4>3, <4>4, <4>6, <4>7, <4>8
    <3>4. CASE m \notin late
      <4>1. s[<<a, b>>] = s[<<m + 1, b>>]
        BY <3>0, <3>1, <3>4
      <4>2. Right(s, m + 1, b)
        BY <2>1, <3>2
      <4>3. PICK v : v = s[<<m + 1, b>>]
        OBVIOUS
      <4>4. /\ v \in m..b
            /\ v >= m + 1 => v \notin late
        BY <3>2, <4>2, <4>3
      <4>5. (\A c, d \in m+1..b : c < d /\ c \in late => d \in late) =>
              \A c \in m+1..b : c \in late <=> c > v
        BY <4>2, <4>3
      <4>6. ASSUME \A c, d \in a..b : c < d /\ c \in late => d \in late
            PROVE  \A c \in a..b : c \in late <=> c > v
        <5>1. \A c \in m+1..b : c \in late <=> c > v
          BY <3>2, <4>5, <4>6
        <5>2. \A c \in a..b : c \notin m+1..b => c \notin late /\ ~(c > v)
          BY <3>2, <3>4, <4>4, <4>6
        <5> QED
          BY <5>1, <5>2
      <4>7. v \notin late /\ v >= a
        <5>1. v = m \/ v >= m + 1
          BY <3>2, <4>4
        <5> QED
          BY <3>2, <3>4, <4>4, <5>1
      <4>8. v \in a-1..b /\ v # a - 1
        BY <3>2, <4>4
      <4> QED
        BY <4>1, <4>3, <4>6, <4>7, <4>8
    <3> QED
      BY <3>3, <3>4
  <2> QED
    BY <2>1, <2>2, <2>3
<1>5. r + 1 - l \in S
  <2>1. r + 1 - l \in Nat
    OBVIOUS
  <2> HIDE DEF S
  <2> QED
    BY <1>3, <1>4, <2>1, NatSetInduction
<1>6. Right(s, l, r)
  <2>1. PICK k \in S : k = r + 1 - l
    BY <1>5
  <2>2. l <= r + 1 /\ r - l < k
    BY <2>1
  <2>3. \A a \in 0..n, b \in -1..n-1 : a <= b + 1 /\ b - a < k => Right(s, a, b)
    BY <2>1
  <2> HIDE DEF Right
  <2> QED
    BY <2>2, <2>3
<1> QED
  BY <1>1, <1>6
----------------------------------------------------------------------------
(* Positions in the ring *)

\* The slot k positions after slot h of a ring with n slots, and the position
\* of slot i counted from h.
Slot(n, h, k) == IF h + k < n THEN h + k ELSE h + k - n
Pos(n, h, i) == IF i >= h THEN i - h ELSE i - h + n

\* The remainder, for what the code ever divides.
LEMMA ModWrap ==
  ASSUME NEW n \in Nat \ {0}, NEW x \in 0..(2*n - 1)
  PROVE  x % n = IF x < n THEN x ELSE x - n
OBVIOUS

LEMMA SlotIsMod ==
  ASSUME NEW n \in Nat \ {0}, NEW h \in 0..n-1, NEW k \in 0..n
  PROVE  /\ (h + k) % n = Slot(n, h, k)
         /\ Slot(n, h, k) \in 0..n-1
<1>1. PICK x \in 0..(2*n - 1) : x = h + k
  OBVIOUS
<1>2. x % n = IF x < n THEN x ELSE x - n
  BY ModWrap
<1> QED
  BY <1>1, <1>2 DEF Slot

\* Slot and Pos are inverse to each other.
LEMMA PosOfSlot ==
  ASSUME NEW n \in Nat \ {0}, NEW h \in 0..n-1, NEW k \in 0..n-1
  PROVE  Slot(n, h, k) \in 0..n-1 /\ Pos(n, h, Slot(n, h, k)) = k
BY DEF Slot, Pos

LEMMA SlotOfPos ==
  ASSUME NEW n \in Nat \ {0}, NEW h \in 0..n-1, NEW i \in 0..n-1
  PROVE  Pos(n, h, i) \in 0..n-1 /\ Slot(n, h, Pos(n, h, i)) = i
BY DEF Slot, Pos

\* What moving the head c positions on does to the positions.
LEMMA PosFromLater ==
  ASSUME NEW n \in Nat \ {0}, NEW h \in 0..n-1, NEW c \in 0..n, NEW i \in 0..n-1
  PROVE  Pos(n, Slot(n, h, c), i) = IF Pos(n, h, i) >= c THEN Pos(n, h, i) - c
                                    ELSE Pos(n, h, i) - c + n
BY DEF Slot, Pos

LEMMA SlotFromLater ==
  ASSUME NEW n \in Nat \ {0}, NEW h \in 0..n-1, NEW c \in 0..n, NEW k \in 0..n-1,
         c + k < n
  PROVE  Slot(n, Slot(n, h, c), k) = Slot(n, h, c + k)
BY DEF Slot

\* The slots refresh clears are those of the c oldest workers.
LEMMA ClearedSlots ==
  ASSUME NEW n \in Nat \ {0}, NEW h \in 0..n-1, NEW c \in 1..n, NEW i \in 0..n-1,
         NEW index, index = Slot(n, h, c - 1)
  PROVE  /\ h <= index => (i \in h..index <=> Pos(n, h, i) < c)
         /\ ~(h <= index) => (i \in 0..index \cup h..n-1 <=> Pos(n, h, i) < c)
BY DEF Slot, Pos
----------------------------------------------------------------------------
(* The inductive invariant *)

\* How the fields of the loopQueue fit together.
Shape ==
    /\ size = 0 => head = 0 /\ tail = 0 /\ ~isFull
    /\ isFull => head = tail

\* Whether a slot is in use depends on its position alone.
Filled == \A i \in 0..size-1 : items[i] # Nil <=> Pos(size, head, i) < len

NoTwice == \A i, j \in 0..size-1 : items[i] # Nil /\ items[i] = items[j] => i = j

NotStamped == \A i \in 0..size-1 : items[i] \notin stamped

RingInv == TypeOK /\ Shape /\ Filled /\ NoTwice /\ NotStamped

\* len and tail, told from each other.
LEMMA LenIs ==
  ASSUME TypeOK, Shape
  PROVE  /\ len \in 0..size
         /\ size = 0 => len = 0
         /\ size # 0 => len = IF isFull THEN size ELSE Pos(size, head, tail)
         /\ size # 0 => tail = Slot(size, head, len)
         /\ isFull => len = size
         /\ isEmpty <=> len = 0
BY QueueAssumption DEF TypeOK, Shape, len, isEmpty, Pos, Slot

\* binarySearch adds the size before it divides.
LEMMA ModWrapTwice ==
  ASSUME NEW n \in Nat \ {0}, NEW h \in 0..n-1, NEW k \in 0..n-1
  PROVE  (k + h + n) % n = Slot(n, h, k)
<1>1. PICK x \in 0..(2*n - 1) : x = h + k
  OBVIOUS
<1>2. (x + n) % n = x % n
  OBVIOUS
<1>3. x % n = IF x < n THEN x ELSE x - n
  BY ModWrap
<1>4. k + h + n = x + n
  BY <1>1
<1> QED
  BY <1>1, <1>2, <1>3, <1>4 DEF Slot

\* The last mapped position.
LEMMA LastPosition ==
  ASSUME TypeOK, Shape, len # 0
  PROVE  /\ size \in Nat \ {0} /\ head \in 0..size-1
         /\ (tail - 1 - head + size) % size = len - 1
<1>1. size \in Nat \ {0} /\ head \in 0..size-1 /\ tail \in 0..size-1
  BY LenIs, QueueAssumption DEF TypeOK
<1>2. PICK x \in 0..(2*size - 1) : x = tail - 1 - head + size
  BY <1>1
<1>3. x % size = IF x < size THEN x ELSE x - size
  BY <1>1, ModWrap
<1>4. len = IF isFull THEN size ELSE Pos(size, head, tail)
  BY <1>1, LenIs
<1>5. isFull => head = tail
  BY DEF Shape
<1>6. isFull \in BOOLEAN
  BY DEF TypeOK
<1> QED
  BY <1>1, <1>2, <1>3, <1>4, <1>5, <1>6 DEF Pos

\* The positions whose workers are younger than a time, and the stamps in the
\* order of the positions.
Late(e) == { m \in 0..len-1 : e < lastUsed[items[Slot(size, head, m)]] }
StampsAscend ==
    \A j, k \in 0..len-1 :
      j < k => lastUsed[items[Slot(size, head, j)]] <= lastUsed[items[Slot(size, head, k)]]

\* binarySearch returns -1 exactly if the worker at the head is not expired;
\* otherwise the slot of some queued worker, and with ascending stamps that of
\* the last expired one.
LEMMA BinarySearchFinds ==
  ASSUME RingInv, NEW e \in Int, ~ isEmpty, ~ (e < lastUsed[items[head]])
  PROVE  \E c \in 1..len :
           /\ binarySearch(e) = Slot(size, head, c - 1)
           /\ StampsAscend => \A m \in 0..len-1 : m \in Late(e) <=> m >= c
<1>1. TypeOK /\ Shape
  BY DEF RingInv
<1>2. len # 0 /\ len \in 1..size
  BY <1>1, LenIs
<1>3. size \in Nat \ {0} /\ head \in 0..size-1
  BY <1>1, <1>2, LastPosition
<1>4. PICK last : last = len - 1
  OBVIOUS
<1>5. (tail - 1 - head + size) % size = last
  BY <1>1, <1>2, <1>4, LastPosition
<1>6. last \in 0..size-1
  BY <1>2, <1>3, <1>4
<1>7. { mid \in 0..last : e < lastUsed[items[(mid + head + size) % size]] } = Late(e)
  <2>1. \A mid \in 0..last : (mid + head + size) % size = Slot(size, head, mid)
    <3>1. SUFFICES ASSUME NEW mid \in 0..last
                   PROVE  (mid + head + size) % size = Slot(size, head, mid)
      OBVIOUS
    <3>2. mid \in 0..size-1
      BY <1>3, <1>6
    <3> QED
      BY <1>3, <3>2, ModWrapTwice
  <2> QED
    BY <1>4, <2>1 DEF Late
<1>8. PICK late : late = Late(e)
  OBVIOUS
<1>9. PICK s : s = search(size, late)[<<0, last>>]
  OBVIOUS
<1>10. binarySearch(e) = (s + head + size) % size
  BY <1>5, <1>7, <1>8, <1>9 DEF binarySearch
<1>11. /\ s \in -1..last
       /\ s = -1 => 0 \in late
       /\ (\A a, b \in 0..last : a < b /\ a \in late => b \in late) =>
            \A a \in 0..last : a \in late <=> a > s
  <2>1. 0 \in 0..size /\ last \in -1..size-1 /\ 0 <= last + 1 /\ 0 <= last
    BY <1>3, <1>6
  <2>2. /\ s \in 0-1..last
        /\ 0 <= last /\ s = 0 - 1 => 0 \in late
        /\ (\A a, b \in 0..last : a < b /\ a \in late => b \in late) =>
             \A a \in 0..last : a \in late <=> a > s
    BY <1>3, <1>9, <2>1, SearchFinds
  <2> QED
    BY <2>1, <2>2
<1>12. 0 \notin late
  <2>1. Slot(size, head, 0) = head
    BY <1>3 DEF Slot
  <2> QED
    BY <1>8, <2>1 DEF Late
<1>13. s \in 0..size-1 /\ s + 1 \in 1..len
  <2>1. s \in -1..last /\ s # -1
    BY <1>11, <1>12
  <2> QED
    BY <1>2, <1>3, <1>4, <1>6, <2>1
<1>14. binarySearch(e) = Slot(size, head, s)
  BY <1>3, <1>10, <1>13, ModWrapTwice
<1>15. ASSUME StampsAscend
       PROVE  \A m \in 0..len-1 : m \in Late(e) <=> m >= s + 1
  <2>1. \A k \in 0..last : lastUsed[items[Slot(size, head, k)]] \in Int
    <3>1. SUFFICES ASSUME NEW k \in 0..last
                   PROVE  lastUsed[items[Slot(size, head, k)]] \in Int
      OBVIOUS
    <3>2. PICK i \in 0..size-1 : i = Slot(size, head, k) /\ Pos(size, head, i) = k
      BY <1>3, <1>6, PosOfSlot
    <3>3. items[i] # Nil
      BY <1>2, <1>4, <3>2 DEF RingInv, Filled
    <3>4. items[i] \in Worker
      BY <3>3, <1>1 DEF TypeOK
    <3> QED
      BY <1>1, <3>2, <3>4, QueueAssumption DEF TypeOK
  <2>2. \A a, b \in 0..last : a < b /\ a \in late => b \in late
    BY <1>4, <1>8, <1>15, <2>1 DEF Late, StampsAscend
  <2>3. \A a \in 0..last : a \in late <=> a > s
    BY <1>11, <2>2
  <2> QED
    BY <1>4, <1>8, <1>13, <2>3
<1>16. PICK c \in 1..len : c = s + 1
  BY <1>13
<1>17. c - 1 = s
  BY <1>13, <1>16
<1> QED
  BY <1>14, <1>15, <1>16, <1>17
----------------------------------------------------------------------------
(* insert *)

\* A worker is put at the first free position, which becomes used.
LEMMA InsertShape ==
  ASSUME TypeOK, Shape, NEW w \in Worker, insert(w)
  PROVE  /\ size \in Nat \ {0} /\ head \in 0..size-1 /\ tail \in 0..size-1
         /\ len < size
         /\ tail = Slot(size, head, len) /\ Pos(size, head, tail) = len
         /\ len' = len + 1
         /\ Shape'
         /\ tail' \in 0..size-1
<1>1. size \in Nat \ {0} /\ head \in 0..size-1 /\ tail \in 0..size-1 /\ ~ isFull
  BY QueueAssumption DEF TypeOK, insert
<1>2. len = Pos(size, head, tail) /\ tail = Slot(size, head, len)
  BY <1>1, LenIs
<1>3. len < size
  BY <1>1, <1>2 DEF Pos
<1>4. tail' = Slot(size, tail, 1) /\ tail' \in 0..size-1
  BY <1>1, SlotIsMod DEF insert
<1>5. head' = head /\ size' = size /\ isFull' = (tail' = head)
  BY DEF insert
<1>6. len' = len + 1
  <2>1. PICK L \in 0..size-1 : L = len
    BY <1>1, <1>2, <1>3, LenIs
  <2>2. CASE tail' = head
    <3>1. len' = size
      BY <1>1, <1>5, <2>2 DEF len, isEmpty
    <3>2. L = size - 1
      BY <1>1, <1>2, <1>4, <2>1, <2>2 DEF Slot, Pos
    <3> QED
      BY <1>1, <2>1, <3>1, <3>2
  <2>3. CASE tail' # head
    <3>1. len' = Pos(size, head, tail')
      BY <1>1, <1>4, <1>5, <2>3 DEF len, isEmpty, Pos
    <3>2. Pos(size, head, tail') = L + 1
      BY <1>1, <1>2, <1>4, <2>1, <2>3 DEF Slot, Pos
    <3> QED
      BY <2>1, <3>1, <3>2
  <2> QED
    BY <2>2, <2>3
<1>7. Shape'
  BY <1>1, <1>5 DEF Shape
<1> QED
  BY <1>1, <1>2, <1>3, <1>4, <1>6, <1>7

\* The ring still holds exactly the queued workers.
LEMMA InsertKeepsRing ==
  ASSUME RingInv, NEW w \in stamped, insert(w), stamped' = stamped \ {w}
  PROVE  /\ items' \in [0..size-1 -> Worker \cup {Nil}]
         /\ Filled' /\ NoTwice' /\ NotStamped'
<1> USE DEF RingInv
<1>1. w \in Worker /\ w # Nil
  BY QueueAssumption DEF TypeOK
<1>2. /\ size \in Nat \ {0} /\ head \in 0..size-1 /\ tail \in 0..size-1
      /\ len < size /\ Pos(size, head, tail) = len
      /\ len' = len + 1
  BY <1>1, InsertShape
<1>3. len \in Nat
  BY <1>2, LenIs
<1>4. /\ items \in [0..size-1 -> Worker \cup {Nil}]
      /\ items' = [items EXCEPT ![tail] = w]
      /\ head' = head /\ size' = size
  BY DEF TypeOK, insert
<1>5. /\ items' \in [0..size-1 -> Worker \cup {Nil}]
      /\ items'[tail] = w
      /\ \A i \in 0..size-1 : i # tail => items'[i] = items[i]
  BY <1>1, <1>2, <1>4
<1>6. \A i \in 0..size-1 : i # tail => Pos(size, head, i) # len
  BY <1>2 DEF Pos
<1>7. Filled'
  <2>1. SUFFICES ASSUME NEW i \in 0..size-1
                 PROVE  items'[i] # Nil <=> Pos(size, head, i) < len + 1
    BY <1>2, <1>4 DEF Filled
  <2>2. Pos(size, head, i) \in 0..size-1
    BY <1>2, SlotOfPos
  <2>3. items[i] # Nil <=> Pos(size, head, i) < len
    BY DEF Filled
  <2> QED
    BY <1>1, <1>2, <1>3, <1>5, <1>6, <2>2, <2>3
<1>8. \A i \in 0..size-1 : items[i] # w
  BY DEF NotStamped
<1>9. NoTwice'
  BY <1>4, <1>5, <1>8 DEF NoTwice
<1>10. NotStamped'
  BY <1>4, <1>5 DEF NotStamped
<1> QED
  BY <1>5, <1>7, <1>9, <1>10
----------------------------------------------------------------------------
(* detach and refresh: both take workers out at the head *)

\* The c oldest workers leave the ring.
Dropped(c) ==
    /\ items' = [i \in 0..size-1 |-> IF Pos(size, head, i) < c THEN Nil ELSE items[i]]
    /\ head' = Slot(size, head, c)
    /\ isFull' = FALSE
    /\ UNCHANGED <<tail, size>>

LEMMA DroppedShape ==
  ASSUME TypeOK, Shape, NEW c \in 1..len, Dropped(c)
  PROVE  /\ size \in Nat \ {0} /\ head \in 0..size-1
         /\ head' \in 0..size-1
         /\ len \in 1..size /\ c \in 1..size
         /\ len' = len - c
         /\ Shape'
<1>1. len \in 1..size /\ c \in 1..size
  BY LenIs, QueueAssumption DEF TypeOK
<1>2. size \in Nat \ {0} /\ head \in 0..size-1 /\ tail \in 0..size-1
  BY <1>1, QueueAssumption DEF TypeOK
<1>3. tail = Slot(size, head, len)
  BY <1>2, LenIs
<1>4. /\ head' = Slot(size, head, c)
      /\ tail' = tail /\ size' = size /\ isFull' = FALSE
  BY DEF Dropped
<1>5. head' \in 0..size-1
  BY <1>1, <1>2, <1>4 DEF Slot
<1>6. PICK L \in 1..size : L = len
  BY <1>1
<1>7. len' = L - c
  BY <1>1, <1>2, <1>3, <1>4, <1>6 DEF len, isEmpty, Slot
<1>8. Shape'
  BY <1>2, <1>4 DEF Shape
<1> QED
  BY <1>1, <1>2, <1>5, <1>6, <1>7, <1>8

LEMMA DroppedKeepsRing ==
  ASSUME RingInv, NEW c \in 1..len, Dropped(c), stamped' = stamped
  PROVE  /\ items' \in [0..size-1 -> Worker \cup {Nil}]
         /\ Filled' /\ NoTwice' /\ NotStamped'
<1> USE DEF RingInv
<1>1. /\ size \in Nat \ {0} /\ head \in 0..size-1
      /\ head' \in 0..size-1
      /\ len \in 1..size /\ c \in 1..size
      /\ len' = len - c
  BY DroppedShape
<1>2. /\ items \in [0..size-1 -> Worker \cup {Nil}]
      /\ head' = Slot(size, head, c)
      /\ size' = size
  BY DEF TypeOK, Dropped
<1>3. /\ items' \in [0..size-1 -> Worker \cup {Nil}]
      /\ \A i \in 0..size-1 :
           items'[i] = IF Pos(size, head, i) < c THEN Nil ELSE items[i]
  BY <1>2 DEF Dropped
<1>4. Filled'
  <2>1. SUFFICES ASSUME NEW i \in 0..size-1
                 PROVE  items'[i] # Nil <=> Pos(size, head', i) < len - c
    BY <1>1, <1>2 DEF Filled
  <2>2. PICK p \in 0..size-1 : p = Pos(size, head, i)
    BY <1>1, SlotOfPos
  <2>3. Pos(size, head', i) = IF p >= c THEN p - c ELSE p - c + size
    BY <1>1, <1>2, <2>2, PosFromLater
  <2>4. items[i] # Nil <=> p < len
    BY <2>2 DEF Filled
  <2>5. items'[i] = IF p < c THEN Nil ELSE items[i]
    BY <1>3, <2>2
  <2> QED
    BY <1>1, <2>2, <2>3, <2>4, <2>5
<1>5. \A i \in 0..size-1 : items'[i] # Nil => items'[i] = items[i]
  BY <1>3
<1>6. NoTwice'
  BY <1>2, <1>5 DEF NoTwice
<1>7. Nil \notin stamped
  BY QueueAssumption DEF TypeOK
<1>8. NotStamped'
  BY <1>2, <1>5, <1>7 DEF NotStamped
<1> QED
  BY <1>3, <1>4, <1>6, <1>8

LEMMA DetachDrops ==
  ASSUME TypeOK, Shape, detach
  PROVE  1 \in 1..len /\ Dropped(1) /\ head' = (head + 1) % size
<1>1. len # 0 /\ len \in 0..size
  BY LenIs DEF detach
<1>2. size \in Nat \ {0} /\ head \in 0..size-1
  BY <1>1, LastPosition
<1>3. 1 \in 1..len
  BY <1>1, <1>2
<1>4. head' = Slot(size, head, 1)
  BY <1>2, SlotIsMod DEF detach
<1>5. items' = [i \in 0..size-1 |-> IF Pos(size, head, i) < 1 THEN Nil ELSE items[i]]
  <2>1. \A i \in 0..size-1 : Pos(size, head, i) < 1 <=> i = head
    BY <1>2 DEF Pos
  <2>2. /\ items \in [0..size-1 -> Worker \cup {Nil}]
        /\ items' = [items EXCEPT ![head] = Nil]
    BY DEF TypeOK, detach
  <2> QED
    BY <2>1, <2>2
<1> QED
  BY <1>3, <1>4, <1>5 DEF detach, Dropped

\* A function on 1..n is a sequence of length n.
LEMMA SeqOfLength ==
  ASSUME NEW A, NEW n \in Nat, NEW q \in [1..n -> A]
  PROVE  q \in Seq(A) /\ Len(q) = n
OBVIOUS

LEMMA SeqIsFunction ==
  ASSUME NEW A, NEW q \in Seq(A)
  PROVE  q \in [1..Len(q) -> A]
OBVIOUS

\* What refresh hands out when it clears c slots: the c oldest workers, each
\* once, in one piece of items or in two.
LEMMA RefreshTakes ==
  ASSUME RingInv, NEW c \in 1..len, NEW index, index = Slot(size, head, c - 1),
         NEW q, q = IF head <= index THEN Slice(head, index + 1)
                    ELSE Slice(0, index + 1) \o Slice(head, size)
  PROVE  /\ q \in Seq(Worker) /\ q # <<>>
         /\ Range(q) = { items[i] : i \in { j \in 0..size-1 : Pos(size, head, j) < c } }
         /\ IsInjective(q)
<1>1. /\ len \in 1..size /\ c \in 1..size
      /\ size \in Nat \ {0} /\ head \in 0..size-1
      /\ index \in 0..size-1
  <2>1. len \in 1..size /\ c \in 1..size
    BY LenIs, QueueAssumption DEF RingInv, TypeOK
  <2>2. size \in Nat \ {0} /\ head \in 0..size-1
    BY <2>1, QueueAssumption DEF RingInv, TypeOK
  <2> QED
    BY <2>1, <2>2 DEF Slot
<1>2. PICK p : p = [k \in 1..c |-> IF head <= index THEN head + k - 1
                                   ELSE IF k <= index + 1 THEN k - 1
                                   ELSE head + k - (index + 1) - 1]
  OBVIOUS
<1>3. \A k \in 1..c : p[k] \in 0..size-1 /\ Pos(size, head, p[k]) < c
  BY <1>1, <1>2 DEF Slot, Pos
<1>4. \A k, m \in 1..c : p[k] = p[m] => k = m
  BY <1>1, <1>2 DEF Slot
<1>5. \A i \in 0..size-1 : Pos(size, head, i) < c => \E k \in 1..c : p[k] = i
  <2>1. SUFFICES ASSUME NEW i \in 0..size-1, Pos(size, head, i) < c
                 PROVE  \E k \in 1..c : p[k] = i
    OBVIOUS
  <2>2. PICK k : k = IF head <= index THEN i - head + 1
                     ELSE IF i <= index THEN i + 1
                     ELSE i - head + index + 2
    OBVIOUS
  <2>3. k \in 1..c
    BY <1>1, <2>1, <2>2 DEF Slot, Pos
  <2>4. p[k] = i
    BY <1>1, <1>2, <2>1, <2>2, <2>3 DEF Slot, Pos
  <2> QED
    BY <2>3, <2>4
<1>6. q = [k \in 1..c |-> items[p[k]]]
  <2>1. CASE head <= index
    <3>1. index + 1 - head = c
      BY <1>1, <2>1 DEF Slot
    <3>2. q = [k \in 1..c |-> items[head + k - 1]]
      <4>1. Slice(head, index + 1) = [k \in 1..c |-> items[head + k - 1]]
        <5>1. Slice(head, index + 1)
                = [k \in 1..(index + 1 - head) |-> items[head + k - 1]]
          BY <1>1 DEF Slice
        <5> QED
          BY <3>1, <5>1
      <4> QED
        BY <2>1, <4>1
    <3>3. \A k \in 1..c : p[k] = head + k - 1
      BY <1>2, <2>1
    <3> QED
      BY <3>2, <3>3
  <2>2. CASE ~ (head <= index)
    <3>1. index + 1 + (size - head) = c
      BY <1>1, <2>2 DEF Slot
    <3>2. PICK a \in Nat, b \in Nat : a = index + 1 /\ b = size - head
      BY <1>1
    <3>3. PICK u, v : u = Slice(0, a) /\ v = Slice(head, size)
      OBVIOUS
    <3>4. u = [k \in 1..a |-> items[k - 1]] /\ v = [k \in 1..b |-> items[head + k - 1]]
      BY <1>1, <3>2, <3>3 DEF Slice
    <3>5. q = u \o v
      BY <2>2, <3>2, <3>3
    <3>6. PICK g : g = [k \in 1..c |-> IF k <= a THEN items[k - 1]
                                       ELSE items[head + (k - a) - 1]]
      OBVIOUS
    <3>7. a + b = c
      BY <3>1, <3>2
    <3>8. q = g
      <4>1. items \in [0..size-1 -> Worker \cup {Nil}]
        BY DEF RingInv, TypeOK
      <4>2. PICK A : A = Worker \cup {Nil}
        OBVIOUS
      <4>3. u \in [1..a -> A]
        <5>1. \A k \in 1..a : k - 1 \in 0..size-1
          BY <1>1, <3>2
        <5> QED
          BY <3>4, <4>1, <4>2, <5>1
      <4>4. v \in [1..b -> A]
        <5>1. \A k \in 1..b : head + k - 1 \in 0..size-1
          BY <1>1, <3>2
        <5> QED
          BY <3>4, <4>1, <4>2, <5>1
      <4>5. /\ q \in Seq(A) /\ Len(q) = c
            /\ \A k \in 1..c : q[k] = IF k <= a THEN u[k] ELSE v[k - a]
        <5>1. /\ u \in Seq(A) /\ Len(u) = a
              /\ v \in Seq(A) /\ Len(v) = b
          BY <3>2, <4>3, <4>4, SeqOfLength
        <5>2. u \o v \in Seq(A) /\ Len(u \o v) = a + b
          BY <5>1
        <5>3. \A k \in 1..(a + b) : (u \o v)[k] = IF k <= a THEN u[k] ELSE v[k - a]
          BY <5>1
        <5> QED
          BY <3>5, <3>7, <5>2, <5>3
      <4>6. ASSUME NEW k \in 1..c
            PROVE  q[k] = g[k]
        <5>1. CASE k <= a
          <6>1. k \in 1..a
            BY <1>1, <3>2, <5>1
          <6> QED
            BY <3>4, <3>6, <4>5, <5>1, <6>1
        <5>2. CASE ~ (k <= a)
          <6>1. k - a \in 1..b
            BY <1>1, <3>2, <3>7, <5>2
          <6> QED
            BY <3>4, <3>6, <4>5, <5>2, <6>1
        <5> QED
          BY <5>1, <5>2
      <4>7. q \in [1..c -> A]
        <5>1. q \in [1..Len(q) -> A]
          BY <4>5, SeqIsFunction
        <5> QED
          BY <4>5, <5>1
      <4> QED
        BY <3>6, <4>6, <4>7
    <3>9. \A k \in 1..c : g[k] = items[p[k]]
      <4>1. SUFFICES ASSUME NEW k \in 1..c PROVE g[k] = items[p[k]]
        OBVIOUS
      <4>2. p[k] = IF k <= a THEN k - 1 ELSE head + (k - a) - 1
        BY <1>1, <1>2, <2>2, <3>2
      <4>3. g[k] = IF k <= a THEN items[k - 1] ELSE items[head + (k - a) - 1]
        BY <3>6
      <4> QED
        BY <4>2, <4>3
    <3> QED
      BY <3>6, <3>8, <3>9
  <2> QED
    BY <2>1, <2>2
<1>7. \A i \in 0..size-1 : Pos(size, head, i) < c => items[i] \in Worker
  <2>1. SUFFICES ASSUME NEW i \in 0..size-1, Pos(size, head, i) < c
                 PROVE  items[i] \in Worker
    OBVIOUS
  <2>2. Pos(size, head, i) \in 0..size-1
    BY <1>1, SlotOfPos
  <2>3. items[i] # Nil
    BY <1>1, <2>1, <2>2 DEF RingInv, Filled
  <2> QED
    BY <2>3 DEF RingInv, TypeOK
<1>8. q \in Seq(Worker) /\ Len(q) = c
  <2>1. \A k \in 1..c : items[p[k]] \in Worker
    BY <1>3, <1>7
  <2>2. DOMAIN q = 1..c /\ \A k \in 1..c : q[k] \in Worker
    BY <1>6, <2>1
  <2>3. q \in [1..c -> Worker]
    BY <1>6, <2>2
  <2>4. c \in Nat
    BY <1>1
  <2> QED
    BY <2>3, <2>4, SeqOfLength
<1>9. Range(q) = { items[i] : i \in { j \in 0..size-1 : Pos(size, head, j) < c } }
  <2>1. \A x : x \in Range(q) <=> \E k \in 1..c : x = items[p[k]]
    <3>1. DOMAIN q = 1..c /\ \A k \in 1..c : q[k] = items[p[k]]
      BY <1>6
    <3>2. \A x \in Range(q) : \E k \in 1..c : x = items[p[k]]
      <4>1. SUFFICES ASSUME NEW x \in Range(q)
                     PROVE  \E k \in 1..c : x = items[p[k]]
        OBVIOUS
      <4>2. PICK k \in DOMAIN q : x = q[k]
        BY <4>1 DEF Range
      <4>3. k \in 1..c /\ x = items[p[k]]
        BY <3>1, <4>2
      <4> QED
        BY <4>3
    <3>3. \A k \in 1..c : items[p[k]] \in Range(q)
      BY <3>1 DEF Range
    <3> QED
      BY <3>2, <3>3
  <2>2. \A k \in 1..c : p[k] \in { j \in 0..size-1 : Pos(size, head, j) < c }
    BY <1>3
  <2>3. \A i \in { j \in 0..size-1 : Pos(size, head, j) < c } : \E k \in 1..c : p[k] = i
    BY <1>5
  <2> QED
    BY <2>1, <2>2, <2>3
<1>10. IsInjective(q)
  <2>1. \A k \in 1..c : items[p[k]] # Nil
    BY <1>3, <1>7, QueueAssumption DEF RingInv
  <2>2. \A k, m \in 1..c : items[p[k]] = items[p[m]] => k = m
    BY <1>3, <1>4, <2>1 DEF RingInv, NoTwice
  <2> QED
    BY <1>6, <2>2 DEF IsInjective
<1> QED
  BY <1>1, <1>8, <1>9, <1>10

\* refresh leaves the queue alone, if the oldest worker is not expired, or
\* takes out its c oldest workers; with ascending stamps c is the number of
\* expired ones.
LEMMA RefreshDrops ==
  ASSUME RingInv, refresh
  PROVE  \/ /\ UNCHANGED queue /\ expiry' = <<>>
            /\ len = 0 \/ clock - ExpiryDuration < lastUsed[items[head]]
         \/ \E c \in 1..len :
              /\ Dropped(c)
              /\ expiry' \in Seq(Worker)
              /\ Range(expiry') = { items[i] : i \in { j \in 0..size-1 :
                                                         Pos(size, head, j) < c } }
              /\ IsInjective(expiry')
              /\ StampsAscend =>
                   \A m \in 0..len-1 : m \in Late(clock - ExpiryDuration) <=> m >= c
<1>1. PICK e : e = clock - ExpiryDuration
  OBVIOUS
<1>2. e \in Int
  BY <1>1, QueueAssumption DEF RingInv, TypeOK
<1>3. PICK index : index = binarySearch(e)
  OBVIOUS
<1>4. TypeOK /\ Shape
  BY DEF RingInv
<1>5. CASE isEmpty \/ e < lastUsed[items[head]]
  <2>1. index = -1
    BY <1>3, <1>5 DEF binarySearch
  <2>2. UNCHANGED queue /\ expiry' = <<>>
    BY <1>1, <1>3, <2>1 DEF refresh
  <2> QED
    BY <1>1, <1>4, <1>5, <2>2, LenIs
<1>6. CASE ~ isEmpty /\ ~ (e < lastUsed[items[head]])
  <2>1. PICK c \in 1..len :
          /\ index = Slot(size, head, c - 1)
          /\ StampsAscend => \A m \in 0..len-1 : m \in Late(e) <=> m >= c
    BY <1>2, <1>3, <1>6, BinarySearchFinds
  <2>2. /\ len \in 1..size /\ c \in 1..size
        /\ size \in Nat \ {0} /\ head \in 0..size-1
    BY <1>4, LenIs, QueueAssumption DEF TypeOK
  <2>3. index \in 0..size-1 /\ index # -1
    BY <2>1, <2>2 DEF Slot
  <2>4. PICK q : q = IF head <= index THEN Slice(head, index + 1)
                     ELSE Slice(0, index + 1) \o Slice(head, size)
    OBVIOUS
  <2>5. PICK cleared : cleared = IF head <= index THEN head..index
                                 ELSE 0..index \cup head..size-1
    OBVIOUS
  <2>6. /\ expiry' = q
        /\ items' = [i \in DOMAIN items |-> IF i \in cleared THEN Nil ELSE items[i]]
        /\ head' = (index + 1) % size
        /\ isFull' = (isFull /\ expiry' = <<>>)
        /\ UNCHANGED <<tail, size>>
    BY <1>1, <1>3, <2>3, <2>4, <2>5 DEF refresh
  <2>7. /\ q \in Seq(Worker) /\ q # <<>>
        /\ Range(q) = { items[i] : i \in { j \in 0..size-1 : Pos(size, head, j) < c } }
        /\ IsInjective(q)
    BY <2>1, <2>4, RefreshTakes
  <2>8. \A i \in 0..size-1 : i \in cleared <=> Pos(size, head, i) < c
    BY <2>1, <2>2, <2>5, ClearedSlots
  <2>9. DOMAIN items = 0..size-1
    BY <1>4 DEF TypeOK
  <2>10. items' = [i \in 0..size-1 |-> IF Pos(size, head, i) < c THEN Nil ELSE items[i]]
    BY <2>6, <2>8, <2>9
  <2>11. head' = Slot(size, head, c)
    <3>1. index + 1 \in 0..(2*size - 1)
      BY <2>2, <2>3
    <3>2. PICK x \in 0..(2*size - 1) : x = index + 1
      BY <3>1
    <3>3. x % size = IF x < size THEN x ELSE x - size
      BY <2>2, ModWrap
    <3> QED
      BY <2>1, <2>2, <2>6, <3>2, <3>3 DEF Slot
  <2>12. Dropped(c)
    BY <2>6, <2>7, <2>10, <2>11 DEF Dropped
  <2> QED
    BY <1>1, <2>1, <2>6, <2>7, <2>12
<1> QED
  BY <1>5, <1>6
----------------------------------------------------------------------------
(* The invariant *)

\* Queued and stamped, slot by slot.
LEMMA QueuedNotStamped ==
  ASSUME TypeOK
  PROVE  NotStamped <=> Queued \cap stamped = {}
<1>1. DOMAIN items = 0..size-1 /\ Nil \notin stamped
  BY QueueAssumption DEF TypeOK
<1> QED
  BY <1>1 DEF NotStamped, Queued

LEMMA InitRingInv == Init => RingInv
<1> SUFFICES ASSUME Init PROVE RingInv
  OBVIOUS
<1> USE QueueAssumption DEF Init, newWorkerLoopQueue
<1>1. len = 0
  BY DEF len, isEmpty
<1>2. TypeOK
  <2>1. <<>> \in Seq(Worker)
    OBVIOUS
  <2>2. items \in [0..size-1 -> Worker \cup {Nil}]
    OBVIOUS
  <2>3. head \in 0..Size-1 /\ tail \in 0..Size-1 /\ size \in {0, Size}
    OBVIOUS
  <2>4. lastUsed \in [Worker -> 0..MaxTime] /\ clock \in 0..MaxTime /\ now \in 0..clock
    OBVIOUS
  <2> QED
    BY <2>1, <2>2, <2>3, <2>4 DEF TypeOK
<1>3. Shape
  BY DEF Shape
<1>4. Filled
  <2>1. \A i \in 0..size-1 : Pos(size, head, i) \in 0..size-1
    BY SlotOfPos
  <2> QED
    BY <1>1, <2>1 DEF Filled
<1>5. NoTwice /\ NotStamped
  BY DEF NoTwice, NotStamped
<1> QED
  BY <1>2, <1>3, <1>4, <1>5 DEF RingInv

\* A step that leaves the ring alone keeps what RingInv says of it.
LEMMA QuietKeepsRing ==
  ASSUME RingInv, UNCHANGED queue, stamped' \subseteq stamped
  PROVE  Shape' /\ Filled' /\ NoTwice' /\ NotStamped'
<1>1. UNCHANGED <<items, head, tail, size, isFull>>
  BY DEF queue
<1>2. len' = len
  BY <1>1 DEF len, isEmpty
<1> QED
  BY <1>1, <1>2 DEF RingInv, Shape, Filled, NoTwice, NotStamped

\* Every step keeps RingInv.
LEMMA NextKeepsRingInv ==
  ASSUME RingInv, [Next]_vars
  PROVE  RingInv'
<1> USE QueueAssumption
<1>1. TypeOK /\ Shape /\ Filled /\ NoTwice /\ NotStamped
  BY DEF RingInv
<1>2. CASE Tick
  <2>1. TypeOK'
    BY <1>1, <1>2 DEF TypeOK, Tick, queue
  <2> QED
    BY <1>2, <2>1, QuietKeepsRing DEF RingInv, Tick
<1>3. CASE ticktock
  <2>1. TypeOK'
    BY <1>1, <1>3 DEF TypeOK, ticktock, queue
  <2> QED
    BY <1>3, <2>1, QuietKeepsRing DEF RingInv, ticktock
<1>4. ASSUME NEW w \in Worker, Stamp(w)
      PROVE  RingInv'
  <2>1. TypeOK'
    BY <1>1, <1>4 DEF TypeOK, Stamp, queue
  <2>2. UNCHANGED <<items, head, tail, size, isFull>> /\ len' = len
    BY <1>4 DEF Stamp, queue, len, isEmpty
  <2>3. Shape' /\ Filled' /\ NoTwice'
    BY <1>1, <2>2 DEF Shape, Filled, NoTwice
  <2>4. \A i \in 0..size-1 : items[i] # w
    <3>1. w \notin Queued /\ w # Nil
      BY <1>4 DEF Stamp
    <3>2. DOMAIN items = 0..size-1
      BY <1>1 DEF TypeOK
    <3> QED
      BY <3>1, <3>2 DEF Queued
  <2>5. NotStamped'
    BY <1>1, <1>4, <2>2, <2>4 DEF NotStamped, Stamp
  <2> QED
    BY <2>1, <2>3, <2>5 DEF RingInv
<1>5. ASSUME NEW w \in Worker, Insert(w)
      PROVE  RingInv'
  <2>1. w \in stamped /\ stamped' = stamped \ {w} /\ UNCHANGED <<lastUsed, clock, now, expiry>>
    BY <1>5 DEF Insert
  <2>2. CASE insert(w)
    <3>1. /\ tail' \in 0..size-1 /\ size \in Nat \ {0}
          /\ Shape'
      BY <1>1, <2>2, InsertShape
    <3>2. /\ items' \in [0..size-1 -> Worker \cup {Nil}]
          /\ Filled' /\ NoTwice' /\ NotStamped'
      BY <2>1, <2>2, InsertKeepsRing
    <3>3. TypeOK'
      BY <1>1, <2>1, <2>2, <3>1, <3>2 DEF TypeOK, insert
    <3> QED
      BY <3>1, <3>2, <3>3 DEF RingInv
  <2>3. CASE insertFails
    <3>1. TypeOK'
      BY <1>1, <2>1, <2>3 DEF TypeOK, insertFails, queue
    <3>2. UNCHANGED queue /\ stamped' \subseteq stamped
      BY <2>1, <2>3 DEF insertFails
    <3> QED
      BY <3>1, <3>2, QuietKeepsRing DEF RingInv
  <2> QED
    BY <1>5, <2>2, <2>3 DEF Insert
<1>6. ASSUME NEW c \in 1..len, Dropped(c), stamped' = stamped,
             UNCHANGED <<lastUsed, clock, now>>, expiry' \in Seq(Worker)
      PROVE  RingInv'
  <2>1. /\ size \in Nat \ {0} /\ head' \in 0..size-1
        /\ Shape'
    BY <1>1, <1>6, DroppedShape
  <2>2. /\ items' \in [0..size-1 -> Worker \cup {Nil}]
        /\ Filled' /\ NoTwice' /\ NotStamped'
    BY <1>6, DroppedKeepsRing
  <2>3. TypeOK'
    BY <1>1, <1>6, <2>1, <2>2 DEF TypeOK, Dropped
  <2> QED
    BY <2>1, <2>2, <2>3 DEF RingInv
<1>7. CASE Detach
  <2>1. 1 \in 1..len /\ Dropped(1)
    BY <1>1, <1>7, DetachDrops DEF Detach
  <2>2. stamped' = stamped /\ UNCHANGED <<lastUsed, clock, now>> /\ expiry' \in Seq(Worker)
    BY <1>1, <1>7 DEF Detach, TypeOK
  <2> QED
    BY <1>6, <2>1, <2>2
<1>8. CASE refresh
  <2>1. UNCHANGED <<lastUsed, stamped, clock, now>>
    BY <1>8 DEF refresh
  <2>2. CASE UNCHANGED queue /\ expiry' = <<>>
    <3>1. <<>> \in Seq(Worker)
      OBVIOUS
    <3>2. TypeOK'
      BY <1>1, <2>1, <2>2, <3>1 DEF TypeOK, queue
    <3> QED
      BY <2>1, <2>2, <3>2, QuietKeepsRing DEF RingInv
  <2>3. CASE \E c \in 1..len : Dropped(c) /\ expiry' \in Seq(Worker)
    BY <1>6, <2>1, <2>3
  <2> QED
    BY <1>8, <2>2, <2>3, RefreshDrops
<1>9. CASE reset
  <2>1. /\ items' = [i \in {} |-> Nil]
        /\ size' = 0 /\ head' = 0 /\ tail' = 0 /\ isFull' = FALSE
        /\ UNCHANGED <<lastUsed, stamped, clock, now, expiry>>
    BY <1>9 DEF reset
  <2>2. TypeOK'
    <3>1. 0..size'-1 = {}
      BY <2>1
    <3>2. items' \in [0..size'-1 -> Worker \cup {Nil}]
      BY <2>1, <3>1
    <3>3. head' \in 0..Size-1 /\ tail' \in 0..Size-1
      BY <2>1
    <3> QED
      BY <1>1, <2>1, <3>2, <3>3 DEF TypeOK
  <2>3. Shape' /\ Filled' /\ NoTwice' /\ NotStamped'
    BY <2>1 DEF Shape, Filled, NoTwice, NotStamped
  <2> QED
    BY <2>2, <2>3 DEF RingInv
<1>10. CASE UNCHANGED vars
  <2>1. TypeOK'
    BY <1>1, <1>10 DEF TypeOK, vars
  <2>2. UNCHANGED queue /\ stamped' \subseteq stamped
    BY <1>10 DEF vars, queue
  <2> QED
    BY <2>1, <2>2, QuietKeepsRing DEF RingInv
<1> QED
  BY <1>2, <1>3, <1>4, <1>5, <1>7, <1>8, <1>9, <1>10 DEF Next

\* Every reachable ring has it.
LEMMA RingInvariant == Spec => []RingInv
<1>1. Init => RingInv
  BY InitRingInv
<1>2. RingInv /\ [Next]_vars => RingInv'
  BY NextKeepsRingInv
<1> QED
  BY <1>1, <1>2, PTL DEF Spec

\* The variables of the ring have their types: head and tail are slots as long
\* as there are any, whatever is inserted, detached and refreshed, and refresh
\* never hands out a nil.
THEOREM RingTypeCorrect == Spec => []TypeOK
<1>1. RingInv => TypeOK
  BY DEF RingInv
<1> QED
  BY <1>1, RingInvariant, PTL
----------------------------------------------------------------------------
(* The workers in the order of their positions *)

\* The slots Fifo reads.
LEMMA FifoSlots ==
  ASSUME NEW n \in Nat \ {0}, NEW h \in 0..n-1, NEW L \in 0..n, NEW k \in 1..L
  PROVE  /\ k - 1 \in 0..L-1
         /\ (h + k - 1) % n = Slot(n, h, k - 1)
         /\ Slot(n, h, k - 1) \in 0..n-1
         /\ Pos(n, h, Slot(n, h, k - 1)) = k - 1
<1>1. PICK j \in 0..n-1 : j = k - 1
  OBVIOUS
<1>2. (h + j) % n = Slot(n, h, j)
  BY SlotIsMod
<1>3. h + k - 1 = h + j
  BY <1>1
<1>4. Slot(n, h, j) \in 0..n-1 /\ Pos(n, h, Slot(n, h, j)) = j
  BY PosOfSlot
<1> QED
  BY <1>1, <1>2, <1>3, <1>4

LEMMA FifoNow ==
  ASSUME RingInv
  PROVE  /\ Fifo \in Seq(Worker) /\ Len(Fifo) = len /\ len \in 0..size
         /\ \A k \in 1..len : /\ Slot(size, head, k - 1) \in 0..size-1
                              /\ Pos(size, head, Slot(size, head, k - 1)) = k - 1
                              /\ Fifo[k] = items[Slot(size, head, k - 1)]
<1>1. TypeOK /\ Shape /\ Filled
  BY DEF RingInv
<1>2. len \in 0..size
  BY <1>1, LenIs
<1>3. CASE len = 0
  <2>1. Fifo = [k \in 1..0 |-> items[(head + k - 1) % size]]
    BY <1>3 DEF Fifo
  <2>2. Fifo = <<>>
    BY <2>1
  <2> QED
    BY <1>2, <1>3, <2>2
<1>4. CASE len # 0
  <2>1. size \in Nat \ {0} /\ head \in 0..size-1
    BY <1>1, <1>4, LastPosition
  <2>2. PICK L \in 0..size : L = len
    BY <1>2
  <2>3. \A k \in 1..L : /\ (head + k - 1) % size = Slot(size, head, k - 1)
                        /\ Slot(size, head, k - 1) \in 0..size-1
                        /\ Pos(size, head, Slot(size, head, k - 1)) = k - 1
    BY <2>1, FifoSlots
  <2>4. \A k \in 1..L : items[Slot(size, head, k - 1)] \in Worker
    <3>1. SUFFICES ASSUME NEW k \in 1..L
                   PROVE  items[Slot(size, head, k - 1)] \in Worker
      OBVIOUS
    <3>2. PICK i \in 0..size-1 : i = Slot(size, head, k - 1) /\ Pos(size, head, i) = k - 1
      BY <2>3
    <3>3. items[i] # Nil
      BY <1>1, <2>2, <3>2 DEF Filled
    <3> QED
      BY <1>1, <3>2, <3>3 DEF TypeOK
  <2>5. Fifo = [k \in 1..L |-> items[(head + k - 1) % size]]
    BY <2>2 DEF Fifo
  <2>6. \A k \in 1..L : Fifo[k] = items[Slot(size, head, k - 1)]
    BY <2>3, <2>5
  <2>7. Fifo \in [1..L -> Worker]
    BY <2>4, <2>5, <2>6
  <2>8. Fifo \in Seq(Worker) /\ Len(Fifo) = L
    <3>1. L \in Nat
      BY <2>1
    <3> QED
      BY <2>7, <3>1, SeqOfLength
  <2> QED
    BY <1>2, <2>2, <2>3, <2>6, <2>8
<1> QED
  BY <1>3, <1>4

\* The same for the state after a step that leaves workers in the ring.
LEMMA FifoNext ==
  ASSUME RingInv', len' \in 1..size'
  PROVE  /\ Fifo' \in Seq(Worker) /\ Len(Fifo') = len'
         /\ \A k \in 1..len' : Fifo'[k] = items'[Slot(size', head', k - 1)]
<1>1. TypeOK' /\ Filled'
  BY DEF RingInv
<1>2. PICK n, h, L : n = size' /\ h = head' /\ L = len'
  OBVIOUS
<1>3. n \in Nat \ {0} /\ h \in 0..n-1 /\ L \in 0..n
  <2>1. n \in {0, Size} /\ h \in 0..Size-1
    BY <1>1, <1>2 DEF TypeOK
  <2>2. L \in 1..n
    BY <1>2
  <2>3. n # 0 /\ n \in Nat
    BY <2>1, <2>2, QueueAssumption
  <2> QED
    BY <2>1, <2>2, <2>3
<1>4. \A k \in 1..L : /\ (h + k - 1) % n = Slot(n, h, k - 1)
                      /\ Slot(n, h, k - 1) \in 0..n-1
                      /\ Pos(n, h, Slot(n, h, k - 1)) = k - 1
  BY <1>3, FifoSlots
<1>5. \A k \in 1..L : items'[Slot(n, h, k - 1)] \in Worker
  <2>1. SUFFICES ASSUME NEW k \in 1..L
                 PROVE  items'[Slot(n, h, k - 1)] \in Worker
    OBVIOUS
  <2>2. PICK i \in 0..n-1 : i = Slot(n, h, k - 1) /\ Pos(n, h, i) = k - 1
    BY <1>4
  <2>3. items'[i] # Nil
    <3>1. i \in 0..size'-1 /\ Pos(size', head', i) = k - 1
      BY <1>2, <2>2
    <3>2. k - 1 < len'
      BY <1>2, <1>3
    <3> QED
      BY <1>1, <3>1, <3>2 DEF Filled
  <2>4. items'[i] \in Worker \cup {Nil}
    BY <1>1, <1>2, <2>2 DEF TypeOK
  <2> QED
    BY <2>2, <2>3, <2>4
<1>6. Fifo' = [k \in 1..L |-> items'[(h + k - 1) % n]]
  BY <1>2 DEF Fifo
<1>7. \A k \in 1..L : Fifo'[k] = items'[Slot(n, h, k - 1)]
  BY <1>4, <1>6
<1>8. Fifo' \in [1..L -> Worker]
  BY <1>5, <1>6, <1>7
<1>9. Fifo' \in Seq(Worker) /\ Len(Fifo') = L
  <2>1. L \in Nat
    BY <1>3
  <2> QED
    BY <1>8, <2>1, SeqOfLength
<1> QED
  BY <1>2, <1>7, <1>9

LEMMA FifoEmpty ==
  ASSUME len' = 0
  PROVE  Fifo' = <<>>
<1>1. Fifo' = [k \in 1..0 |-> items'[(head' + k - 1) % size']]
  BY DEF Fifo
<1> QED
  BY <1>1
----------------------------------------------------------------------------
(* The ring holds exactly the queued workers *)

LEMMA RingInvHolds ==
  ASSUME RingInv
  PROVE  RingHoldsExactlyTheQueued
<1>1. TypeOK /\ Shape /\ Filled /\ NoTwice /\ NotStamped
  BY DEF RingInv
<1>2. /\ len \in 0..size
      /\ \A k \in 1..len : /\ Slot(size, head, k - 1) \in 0..size-1
                           /\ Pos(size, head, Slot(size, head, k - 1)) = k - 1
                           /\ Fifo[k] = items[Slot(size, head, k - 1)]
      /\ Fifo \in Seq(Worker) /\ Len(Fifo) = len
  BY FifoNow
<1>3. DOMAIN items = 0..size-1
  BY <1>1 DEF TypeOK
<1>4. PICK inside : inside = { (head + k) % size : k \in 0..len-1 }
  OBVIOUS
<1>5. \A i \in DOMAIN items : items[i] # Nil <=> i \in inside
  <2>1. SUFFICES ASSUME NEW i \in 0..size-1
                 PROVE  items[i] # Nil <=> i \in inside
    BY <1>3
  <2>2. size \in Nat \ {0} /\ head \in 0..size-1
    BY <1>1, QueueAssumption DEF TypeOK
  <2>3. items[i] # Nil <=> Pos(size, head, i) < len
    BY <1>1 DEF Filled
  <2>4. \A k \in 0..len-1 : (head + k) % size = Slot(size, head, k)
    BY <1>2, <2>2, SlotIsMod
  <2>5. inside = { Slot(size, head, k) : k \in 0..len-1 }
    BY <1>4, <2>4
  <2>6. Pos(size, head, i) \in 0..size-1 /\ Slot(size, head, Pos(size, head, i)) = i
    BY <2>2, SlotOfPos
  <2>7. \A k \in 0..len-1 : Pos(size, head, Slot(size, head, k)) = k
    BY <1>2, <2>2, PosOfSlot
  <2>8. Pos(size, head, i) < len => i \in inside
    BY <1>2, <2>5, <2>6
  <2>9. ASSUME i \in inside
        PROVE  Pos(size, head, i) < len
    <3>1. PICK k \in 0..len-1 : i = Slot(size, head, k)
      BY <2>5, <2>9
    <3> QED
      BY <1>2, <2>7, <3>1
  <2> QED
    BY <2>3, <2>8, <2>9
<1>6. IsInjective(Fifo)
  <2>1. SUFFICES ASSUME NEW a \in 1..len, NEW b \in 1..len, Fifo[a] = Fifo[b]
                 PROVE  a = b
    BY <1>2 DEF IsInjective
  <2>2. PICK i \in 0..size-1, j \in 0..size-1 :
          /\ i = Slot(size, head, a - 1) /\ j = Slot(size, head, b - 1)
          /\ Pos(size, head, i) = a - 1 /\ Pos(size, head, j) = b - 1
    BY <1>2
  <2>3. items[i] = items[j] /\ items[i] # Nil
    BY <1>1, <1>2, <2>1, <2>2 DEF Filled
  <2>4. i = j
    BY <1>1, <2>3 DEF NoTwice
  <2> QED
    BY <1>2, <2>2, <2>4
<1>7. Queued \cap stamped = {}
  BY <1>1, QueuedNotStamped
<1> QED
  BY <1>4, <1>5, <1>6, <1>7 DEF RingHoldsExactlyTheQueued

\* In a ring of any size, the len slots from head on hold distinct workers and
\* every other slot is nil, whatever insert, detach, refresh and reset did; no
\* worker about to be inserted is there already.
THEOREM RingHolds == Spec => []RingHoldsExactlyTheQueued
<1>1. RingInv => RingHoldsExactlyTheQueued
  BY RingInvHolds
<1> QED
  BY <1>1, RingInvariant, PTL
----------------------------------------------------------------------------
(* refresh takes out exactly the expired workers *)

\* The stamps ascend in Fifo exactly if they do along the positions.
LEMMA SortedAscends ==
  ASSUME RingInv, Sorted
  PROVE  StampsAscend
<1>1. /\ len \in 0..size
      /\ \A k \in 1..len : Fifo[k] = items[Slot(size, head, k - 1)]
  BY FifoNow
<1>2. size \in Nat
  BY QueueAssumption DEF RingInv, TypeOK
<1>3. SUFFICES ASSUME NEW j \in 0..len-1, NEW k \in 0..len-1, j < k
               PROVE  lastUsed[items[Slot(size, head, j)]]
                        <= lastUsed[items[Slot(size, head, k)]]
  BY DEF StampsAscend
<1>4. PICK a \in 1..len, b \in 1..len : a = j + 1 /\ b = k + 1
  <2>1. len \in Nat
    BY <1>1, <1>2
  <2>2. j + 1 \in 1..len
    BY <2>1
  <2>3. k + 1 \in 1..len
    BY <2>1
  <2> QED
    BY <2>2, <2>3
<1>5. lastUsed[Fifo[a]] <= lastUsed[Fifo[b]]
  BY <1>1, <1>2, <1>3, <1>4 DEF Sorted
<1>6. a - 1 = j /\ b - 1 = k
  BY <1>1, <1>2, <1>4
<1> QED
  BY <1>1, <1>4, <1>5, <1>6

LEMMA RefreshExact ==
  ASSUME RingInv, refresh, Sorted
  PROVE  /\ Range(expiry') = Expired
         /\ IsInjective(expiry')
         /\ Queued' = Queued \ Expired
<1>1. TypeOK /\ Shape /\ Filled /\ NoTwice /\ StampsAscend
  BY SortedAscends DEF RingInv
<1>2. len \in 0..size /\ DOMAIN items = 0..size-1
  BY <1>1, LenIs DEF TypeOK
<1>3. PICK e : e = clock - ExpiryDuration
  OBVIOUS
<1>4. e \in Int
  BY <1>1, <1>3, QueueAssumption DEF TypeOK
<1>5. \A i \in 0..size-1 : items[i] # Nil => lastUsed[items[i]] \in Int
  <2>1. \A i \in 0..size-1 : items[i] # Nil => items[i] \in Worker
    BY <1>1 DEF TypeOK
  <2>2. \A w \in Worker : lastUsed[w] \in Int
    BY <1>1, QueueAssumption DEF TypeOK
  <2> QED
    BY <2>1, <2>2
<1>6. CASE UNCHANGED queue /\ expiry' = <<>> /\ (len = 0 \/ e < lastUsed[items[head]])
  <2>1. Expired = {}
    <3>1. SUFFICES ASSUME NEW i \in 0..size-1, items[i] # Nil, lastUsed[items[i]] <= e
                   PROVE  FALSE
      BY <1>2, <1>3 DEF Expired, Queued
    <3>2. Pos(size, head, i) < len
      BY <1>1, <3>1 DEF Filled
    <3>3. size \in Nat \ {0} /\ head \in 0..size-1
      BY <1>1, QueueAssumption DEF TypeOK
    <3>4. PICK m \in 0..size-1 : m = Pos(size, head, i) /\ Slot(size, head, m) = i
      BY <3>3, SlotOfPos
    <3>5. len # 0 /\ m \in 0..len-1 /\ 0 \in 0..len-1
      BY <1>2, <3>2, <3>3, <3>4
    <3>6. e < lastUsed[items[head]]
      BY <1>6, <3>5
    <3>7. Slot(size, head, 0) = head
      BY <3>3 DEF Slot
    <3>8. lastUsed[items[head]] <= lastUsed[items[i]]
      <4>1. CASE m = 0
        <5>1. i = head
          BY <3>4, <3>7, <4>1
        <5> QED
          BY <1>5, <3>1, <5>1
      <4>2. CASE m # 0
        <5>1. 0 < m
          BY <3>5, <4>2, <1>2, <3>3
        <5>2. lastUsed[items[Slot(size, head, 0)]] <= lastUsed[items[Slot(size, head, m)]]
          BY <1>1, <3>5, <5>1 DEF StampsAscend
        <5> QED
          BY <3>4, <3>7, <5>2
      <4> QED
        BY <4>1, <4>2
    <3>9. items[head] # Nil
      <4>1. Pos(size, head, head) = 0 /\ 0 < len
        BY <1>2, <3>3, <3>5 DEF Pos
      <4> QED
        BY <1>1, <3>3, <4>1 DEF Filled
    <3> QED
      BY <1>4, <1>5, <3>1, <3>3, <3>6, <3>8, <3>9
  <2>2. Range(expiry') = {} /\ IsInjective(expiry')
    <3>1. DOMAIN expiry' = {}
      BY <1>6
    <3> QED
      BY <3>1 DEF Range, IsInjective
  <2>3. Queued' = Queued
    BY <1>6 DEF Queued, queue
  <2> QED
    BY <2>1, <2>2, <2>3
<1>7. ASSUME NEW c \in 1..len, Dropped(c),
             Range(expiry') = { items[i] : i \in { j \in 0..size-1 :
                                                     Pos(size, head, j) < c } },
             IsInjective(expiry'),
             \A m \in 0..len-1 : m \in Late(e) <=> m >= c
      PROVE  /\ Range(expiry') = Expired
             /\ Queued' = Queued \ Expired
  <2>1. size \in Nat \ {0} /\ head \in 0..size-1
    BY <1>1, <1>2, <1>7, QueueAssumption DEF TypeOK
  <2>2. \A i \in 0..size-1 : Pos(size, head, i) < c => items[i] # Nil
    <3>1. \A i \in 0..size-1 : Pos(size, head, i) \in 0..size-1
      BY <2>1, SlotOfPos
    <3> QED
      BY <1>1, <1>2, <2>1, <3>1 DEF Filled
  <2>3. \A i \in 0..size-1 : items[i] # Nil =>
          (lastUsed[items[i]] <= e <=> Pos(size, head, i) < c)
    <3>1. SUFFICES ASSUME NEW i \in 0..size-1, items[i] # Nil
                   PROVE  lastUsed[items[i]] <= e <=> Pos(size, head, i) < c
      OBVIOUS
    <3>2. PICK m \in 0..size-1 : m = Pos(size, head, i) /\ Slot(size, head, m) = i
      BY <2>1, SlotOfPos
    <3>3. m \in 0..len-1
      BY <1>1, <1>2, <2>1, <3>1, <3>2 DEF Filled
    <3>4. m \in Late(e) <=> e < lastUsed[items[i]]
      BY <3>2, <3>3 DEF Late
    <3>5. e < lastUsed[items[i]] <=> m >= c
      BY <1>7, <3>3, <3>4
    <3>6. lastUsed[items[i]] \in Int
      BY <1>5, <3>1
    <3> QED
      BY <1>2, <1>4, <2>1, <3>2, <3>3, <3>5, <3>6
  <2>4. Expired = { items[i] : i \in { j \in 0..size-1 : Pos(size, head, j) < c } }
    <3>1. Expired = { w \in Queued : lastUsed[w] <= e }
      BY <1>3 DEF Expired
    <3>2. \A i \in 0..size-1 : Pos(size, head, i) < c => items[i] \in Expired
      BY <1>2, <2>2, <2>3, <3>1 DEF Queued
    <3>3. ASSUME NEW w \in Expired
          PROVE  \E i \in 0..size-1 : Pos(size, head, i) < c /\ items[i] = w
      <4>1. PICK i \in 0..size-1 : items[i] = w /\ w # Nil
        BY <1>2, <3>1, <3>3 DEF Queued
      <4>2. lastUsed[items[i]] <= e
        BY <3>1, <3>3, <4>1
      <4> QED
        BY <2>3, <4>1, <4>2
    <3> QED
      BY <3>2, <3>3
  <2>5. Queued' = { items[i] : i \in { j \in 0..size-1 : Pos(size, head, j) >= c } } \ {Nil}
    <3>1. DOMAIN items' = 0..size-1
      BY <1>7 DEF Dropped
    <3>2. \A i \in 0..size-1 : items'[i] = IF Pos(size, head, i) < c THEN Nil ELSE items[i]
      BY <1>7 DEF Dropped
    <3>3. \A i \in 0..size-1 : Pos(size, head, i) >= c <=> ~ (Pos(size, head, i) < c)
      <4>1. SUFFICES ASSUME NEW i \in 0..size-1
                     PROVE  Pos(size, head, i) >= c <=> ~ (Pos(size, head, i) < c)
        OBVIOUS
      <4>2. PICK p \in 0..size-1 : p = Pos(size, head, i)
        BY <2>1, SlotOfPos
      <4>3. c \in Int /\ p \in Int
        BY <1>2, <1>7, <2>1, <4>2
      <4>4. p >= c <=> ~ (p < c)
        BY <4>3
      <4> QED
        BY <4>2, <4>4
    <3> QED
      BY <3>1, <3>2, <3>3 DEF Queued
  <2>6. Queued' = Queued \ Expired
    <3>1. \A w \in Queued' : w \in Queued /\ w \notin Expired
      <4>1. SUFFICES ASSUME NEW w \in Queued' PROVE w \in Queued /\ w \notin Expired
        OBVIOUS
      <4>2. PICK i \in 0..size-1 : Pos(size, head, i) >= c /\ w = items[i] /\ w # Nil
        BY <2>5, <4>1
      <4>3. w \in Queued
        BY <1>2, <4>2 DEF Queued
      <4>4. ASSUME w \in Expired PROVE FALSE
        <5>1. PICK j \in 0..size-1 : Pos(size, head, j) < c /\ items[j] = w
          BY <2>4, <4>4
        <5>2. i = j
          BY <1>1, <4>2, <5>1 DEF NoTwice
        <5>3. Pos(size, head, i) \in 0..size-1
          BY <2>1, SlotOfPos
        <5> QED
          BY <1>2, <2>1, <4>2, <5>1, <5>2, <5>3
      <4> QED
        BY <4>3, <4>4
    <3>2. \A w \in Queued \ Expired : w \in Queued'
      <4>1. SUFFICES ASSUME NEW w \in Queued \ Expired PROVE w \in Queued'
        OBVIOUS
      <4>2. PICK i \in 0..size-1 : w = items[i] /\ w # Nil
        BY <1>2, <4>1 DEF Queued
      <4>3. ~ (Pos(size, head, i) < c)
        BY <2>4, <4>1, <4>2
      <4>4. Pos(size, head, i) \in 0..size-1
        BY <2>1, SlotOfPos
      <4>5. Pos(size, head, i) >= c
        BY <1>2, <2>1, <4>3, <4>4
      <4> QED
        BY <2>5, <4>2, <4>5
    <3> QED
      BY <3>1, <3>2
  <2> QED
    BY <1>7, <2>4, <2>6
<1> QED
  BY <1>1, <1>3, <1>6, <1>7, RefreshDrops

\* With the stamps in queue order, refresh returns every expired worker, no
\* other, none twice, and takes exactly these out of the ring, wrapped or not:
\* the binary search agrees with a scan, for rings of any size.
THEOREM RefreshIsExact == Spec => RefreshEvictsExpired
<1>1. RingInv /\ [Next]_vars =>
        [(refresh /\ Sorted) =>
           /\ Range(expiry') = Expired
           /\ IsInjective(expiry')
           /\ Queued' = Queued \ Expired]_vars
  BY RefreshExact
<1> QED
  BY <1>1, RingInvariant, PTL DEF Spec, RefreshEvictsExpired
----------------------------------------------------------------------------
(* The ring implements the abstract queue *)

LEMMA SameSeq ==
  ASSUME NEW A, NEW q \in Seq(A), NEW r \in Seq(A), Len(q) = Len(r),
         \A k \in 1..Len(q) : q[k] = r[k]
  PROVE  q = r
OBVIOUS

LEMMA AppendedSeq ==
  ASSUME NEW A, NEW q \in Seq(A), NEW a \in A
  PROVE  /\ Append(q, a) \in Seq(A) /\ Len(Append(q, a)) = Len(q) + 1
         /\ \A k \in 1..Len(q) : Append(q, a)[k] = q[k]
         /\ Append(q, a)[Len(q) + 1] = a
OBVIOUS

\* What is left of a sequence without its first c elements.
LEMMA RestOfSeq ==
  ASSUME NEW A, NEW q \in Seq(A), NEW c \in 1..Len(q)
  PROVE  /\ SubSeq(q, c + 1, Len(q)) \in Seq(A)
         /\ Len(SubSeq(q, c + 1, Len(q))) = Len(q) - c
         /\ \A k \in 1..(Len(q) - c) : SubSeq(q, c + 1, Len(q))[k] = q[c + k]
OBVIOUS

LEMMA TailOfSeq ==
  ASSUME NEW A, NEW q \in Seq(A), q # <<>>
  PROVE  SubSeq(q, 2, Len(q)) = Tail(q)
OBVIOUS

\* insert puts the worker behind all others.
LEMMA InsertAppends ==
  ASSUME RingInv, RingInv', NEW w \in stamped, insert(w)
  PROVE  Fifo' = Append(Fifo, w)
<1>1. w \in Worker /\ TypeOK /\ Shape /\ Filled
  BY DEF RingInv, TypeOK
<1>2. /\ size \in Nat \ {0} /\ head \in 0..size-1 /\ tail \in 0..size-1
      /\ len < size
      /\ tail = Slot(size, head, len) /\ Pos(size, head, tail) = len
      /\ len' = len + 1
  BY <1>1, InsertShape
<1>3. head' = head /\ size' = size /\ items' = [items EXCEPT ![tail] = w]
  BY DEF insert
<1>4. /\ Fifo \in Seq(Worker) /\ Len(Fifo) = len /\ len \in 0..size
      /\ \A k \in 1..len : /\ Slot(size, head, k - 1) \in 0..size-1
                           /\ Pos(size, head, Slot(size, head, k - 1)) = k - 1
                           /\ Fifo[k] = items[Slot(size, head, k - 1)]
  BY FifoNow
<1>5. len' \in 1..size'
  BY <1>2, <1>3, <1>4
<1>6. /\ Fifo' \in Seq(Worker) /\ Len(Fifo') = len + 1
      /\ \A k \in 1..(len + 1) : Fifo'[k] = items'[Slot(size, head, k - 1)]
  BY <1>2, <1>3, <1>5, FifoNext
<1>7. PICK a : a = Append(Fifo, w)
  OBVIOUS
<1>8. /\ a \in Seq(Worker) /\ Len(a) = len + 1
      /\ \A k \in 1..len : a[k] = Fifo[k]
      /\ a[len + 1] = w
  BY <1>1, <1>4, <1>7, AppendedSeq
<1>9. ASSUME NEW k \in 1..(len + 1) PROVE Fifo'[k] = a[k]
  <2>1. DOMAIN items = 0..size-1
    BY <1>1 DEF TypeOK
  <2>2. CASE k = len + 1
    <3>1. k - 1 = len
      BY <1>2, <1>4, <2>2
    <3> QED
      BY <1>2, <1>3, <1>6, <1>8, <2>1, <2>2, <3>1
  <2>3. CASE k \in 1..len
    <3>1. Slot(size, head, k - 1) # tail
      <4>1. k - 1 # len
        BY <1>2, <1>4, <2>3
      <4>2. Pos(size, head, Slot(size, head, k - 1)) = k - 1
        BY <1>4, <2>3
      <4> QED
        BY <1>2, <4>1, <4>2
    <3>2. items'[Slot(size, head, k - 1)] = items[Slot(size, head, k - 1)]
      BY <1>3, <1>4, <2>1, <2>3, <3>1
    <3> QED
      BY <1>4, <1>6, <1>8, <2>3, <3>2
  <2> QED
    BY <1>2, <1>4, <2>2, <2>3
<1>10. Fifo' = a
  BY <1>6, <1>8, <1>9, SameSeq
<1> QED
  BY <1>7, <1>10

\* detach and refresh take workers out at the front.
LEMMA DroppedLeavesRest ==
  ASSUME RingInv, RingInv', NEW c \in 1..len, Dropped(c)
  PROVE  Fifo' = SubSeq(Fifo, c + 1, Len(Fifo))
<1>1. /\ size \in Nat \ {0} /\ head \in 0..size-1
      /\ len \in 1..size /\ c \in 1..size
      /\ len' = len - c
  BY DroppedShape DEF RingInv
<1>2. head' = Slot(size, head, c) /\ size' = size
  BY DEF Dropped
<1>3. /\ Fifo \in Seq(Worker) /\ Len(Fifo) = len
      /\ \A k \in 1..len : /\ Slot(size, head, k - 1) \in 0..size-1
                           /\ Pos(size, head, Slot(size, head, k - 1)) = k - 1
                           /\ Fifo[k] = items[Slot(size, head, k - 1)]
  BY FifoNow
<1>4. PICK r : r = SubSeq(Fifo, c + 1, Len(Fifo))
  OBVIOUS
<1>5. /\ r \in Seq(Worker) /\ Len(r) = len - c
      /\ \A k \in 1..(len - c) : r[k] = Fifo[c + k]
  BY <1>3, <1>4, RestOfSeq
<1>6. CASE c = len
  <2>1. len' = 0
    BY <1>1, <1>6
  <2>2. Len(r) = 0
    BY <1>1, <1>5, <1>6
  <2>3. r = <<>>
    BY <1>5, <2>2
  <2> QED
    BY <1>4, <2>1, <2>3, FifoEmpty
<1>7. CASE c # len
  <2>1. len - c \in 1..size
    BY <1>1, <1>7
  <2>2. /\ Fifo' \in Seq(Worker) /\ Len(Fifo') = len - c
        /\ \A k \in 1..(len - c) : Fifo'[k] = items'[Slot(size, head', k - 1)]
    BY <1>1, <1>2, <2>1, FifoNext
  <2>3. ASSUME NEW k \in 1..(len - c) PROVE Fifo'[k] = r[k]
    <3>1. PICK j \in 0..size-1 : j = k - 1
      BY <1>1, <2>1
    <3>2. c + j < size /\ c + k \in 1..len /\ (c + k) - 1 = c + j
      BY <1>1, <2>1, <3>1
    <3>3. Slot(size, head', j) = Slot(size, head, c + j)
      BY <1>1, <1>2, <3>2, SlotFromLater
    <3>4. PICK i \in 0..size-1 : i = Slot(size, head, c + j) /\ Pos(size, head, i) = c + j
      BY <1>3, <3>2
    <3>5. items'[i] = items[i]
      <4>1. ~ (Pos(size, head, i) < c)
        BY <1>1, <3>1, <3>4
      <4> QED
        BY <4>1 DEF Dropped
    <3>6. Fifo[c + k] = items[i]
      BY <1>3, <3>2, <3>4
    <3> QED
      BY <1>5, <2>2, <3>1, <3>3, <3>4, <3>5, <3>6
  <2>4. Fifo' = r
    BY <1>5, <2>2, <2>3, SameSeq
  <2> QED
    BY <1>4, <2>4
<1> QED
  BY <1>6, <1>7

LEMMA QueueInit ==
  ASSUME Init
  PROVE  WQ!Init
<1>1. len = 0 /\ size = Size
  BY DEF Init, newWorkerLoopQueue, len, isEmpty
<1>2. Fifo = [k \in 1..0 |-> items[(head + k - 1) % size]]
  BY <1>1 DEF Fifo
<1> QED
  BY <1>1, <1>2 DEF WQ!Init

\* A step that leaves the ring alone leaves the abstract queue alone.
LEMMA QuietStutters ==
  ASSUME UNCHANGED queue
  PROVE  UNCHANGED WQ!vars
<1>1. UNCHANGED <<items, head, tail, size, isFull>>
  BY DEF queue
<1>2. len' = len
  BY <1>1 DEF len, isEmpty
<1> QED
  BY <1>1, <1>2 DEF Fifo, WQ!vars

\* Every step of the ring is a step of the abstract queue, or leaves it alone.
LEMMA StepIsQueueStep ==
  ASSUME RingInv, RingInv', [Next]_vars
  PROVE  [WQ!Next]_(WQ!vars)
<1>1. TypeOK /\ Shape
  BY DEF RingInv
<1>2. Fifo \in Seq(Worker) /\ Len(Fifo) = len /\ len \in 0..size
  BY FifoNow
<1>3. CASE Tick \/ ticktock \/ UNCHANGED vars
  BY <1>3, QuietStutters DEF Tick, ticktock, vars, queue
<1>4. ASSUME NEW w \in Worker, Stamp(w)
      PROVE  [WQ!Next]_(WQ!vars)
  BY <1>4, QuietStutters DEF Stamp
<1>5. ASSUME NEW w \in Worker, Insert(w)
      PROVE  [WQ!Next]_(WQ!vars)
  <2>1. w \in stamped
    BY <1>5 DEF Insert
  <2>2. CASE insertFails
    BY <2>2, QuietStutters DEF insertFails
  <2>3. CASE insert(w)
    <3>1. Fifo' = Append(Fifo, w)
      BY <2>1, <2>3, InsertAppends
    <3>2. size # 0 /\ Len(Fifo) < size /\ size' = size
      BY <1>1, <1>2, <2>3, InsertShape DEF insert
    <3>3. w \notin WQ!Range(Fifo)
      <4>1. RingInv => NotStamped
        BY DEF RingInv
      <4>2. \A k \in 1..len : Fifo[k] # w
        BY <2>1, <4>1, FifoNow DEF NotStamped
      <4>3. DOMAIN Fifo = 1..len
        BY <1>2
      <4> QED
        BY <4>2, <4>3 DEF WQ!Range
    <3>4. WQ!Insert(w)
      BY <3>1, <3>2 DEF WQ!Insert, WQ!CanInsert
    <3> QED
      BY <3>3, <3>4 DEF WQ!Next
  <2> QED
    BY <1>5, <2>2, <2>3 DEF Insert
<1>6. CASE Detach
  <2>1. 1 \in 1..len /\ Dropped(1)
    BY <1>1, <1>6, DetachDrops DEF Detach
  <2>2. Fifo' = SubSeq(Fifo, 1 + 1, Len(Fifo))
    BY <2>1, DroppedLeavesRest
  <2>3. Fifo # <<>> /\ Fifo[1] \in Worker
    BY <1>2, <2>1
  <2>4. Fifo' = Tail(Fifo) /\ Head(Fifo) \in Worker
    BY <1>2, <2>2, <2>3, TailOfSeq
  <2>5. WQ!Detach(Head(Fifo))
    BY <2>1, <2>3, <2>4 DEF WQ!Detach, Dropped
  <2> QED
    BY <2>4, <2>5 DEF WQ!Next
<1>7. CASE refresh
  <2>1. CASE UNCHANGED queue
    BY <2>1, QuietStutters
  <2>2. ASSUME NEW c \in 1..len, Dropped(c)
        PROVE  [WQ!Next]_(WQ!vars)
    <3>1. Fifo' = SubSeq(Fifo, c + 1, Len(Fifo)) /\ size' = size
      BY <2>2, DroppedLeavesRest DEF Dropped
    <3>2. WQ!Refresh(c)
      BY <1>2, <3>1 DEF WQ!Refresh
    <3>3. c \in 1..Size
      BY <1>1, <1>2, QueueAssumption DEF TypeOK
    <3> QED
      BY <3>2, <3>3 DEF WQ!Next
  <2> QED
    BY <1>7, <2>1, <2>2, RefreshDrops
<1>8. CASE reset
  <2>1. len' = 0 /\ size' = 0
    BY <1>8 DEF reset, len, isEmpty
  <2>2. Fifo' = <<>>
    BY <2>1, FifoEmpty
  <2>3. Fifo # <<>>
    <3>1. len # 0
      BY <1>1, <1>8, LenIs DEF reset
    <3> QED
      BY <1>2, <3>1
  <2> QED
    BY <2>1, <2>2, <2>3 DEF WQ!Reset, WQ!Next
<1> QED
  BY <1>3, <1>4, <1>5, <1>6, <1>7, <1>8 DEF Next

\* The ring, whatever its size and however its content is wrapped, implements
\* the bounded FIFO that Pool is built on (WorkerQueue): insert appends, detach
\* returns the worker inserted first, refresh takes a prefix, reset takes all
\* and releases the queue, and an insert that succeeds had room.
THEOREM RingImplementsQueue == Spec => ImplementsWorkerQueue
<1>1. Init => WQ!Init
  BY QueueInit
<1>2. RingInv /\ RingInv' /\ [Next]_vars => [WQ!Next]_(WQ!vars)
  BY StepIsQueueStep
<1> QED
  BY <1>1, <1>2, RingInvariant, PTL DEF Spec, ImplementsWorkerQueue, WQ!Spec
=============================================================================

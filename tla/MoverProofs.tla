----------------------------- MODULE MoverProofs -----------------------------
(***************************************************************************)
(* Proofs about the mover's arbiter, for every number of sources, and      *)
(* about the queues and the mover, for every number of engines, depth of   *)
(* the queues, length of the routes and number of words.                   *)
(***************************************************************************)
EXTENDS Mover, Arbiter, FiniteSetTheorems, WellFoundedInduction, TLAPS

USE CountAssumption DEF Engines

(* Both operands of every sum the arbiter reduces are below EngineCount.   *)
LEMMA ModSmall ==
  ASSUME NEW a \in 0 .. 2 * EngineCount - 1
  PROVE  a % EngineCount = IF a < EngineCount THEN a ELSE a - EngineCount
<1>1. EngineCount \in Nat \ {0}
  OBVIOUS
<1> QED
  BY <1>1, SMTT(20)

\* The place of a source in the order that begins at the cursor.
LEMMA OrderValue ==
  ASSUME NEW k \in Engines, NEW c \in Engines
  PROVE  /\ Order(k, c) = IF k >= c THEN k - c ELSE k - c + EngineCount
         /\ Order(k, c) \in 0 .. EngineCount - 1
         /\ (c + Order(k, c)) % EngineCount = k
<1>1. k - c + EngineCount \in 0 .. 2 * EngineCount - 1
  OBVIOUS
<1>2. Order(k, c) = IF k >= c THEN k - c ELSE k - c + EngineCount
  BY <1>1, ModSmall DEF Order
<1>3. c + Order(k, c) \in 0 .. 2 * EngineCount - 1
  BY <1>2
<1>4. (c + Order(k, c)) % EngineCount = k
  BY <1>2, <1>3, ModSmall
<1> QED
  BY <1>2, <1>4

(* The inverse: the source met at an offset from the cursor.               *)
LEMMA OffsetValue ==
  ASSUME NEW c \in Engines, NEW offset \in 0 .. EngineCount - 1
  PROVE  /\ (c + offset) % EngineCount \in Engines
         /\ Order((c + offset) % EngineCount, c) = offset
<1> DEFINE k == (c + offset) % EngineCount
<1>1. k = IF c + offset < EngineCount THEN c + offset ELSE c + offset - EngineCount
  BY ModSmall
<1>2. k \in Engines
  BY <1>1
<1>3. Order(k, c) = IF k >= c THEN k - c ELSE k - c + EngineCount
  BY <1>2, OrderValue
<1> HIDE DEF k
<1>4. Order(k, c) = offset
  BY <1>1, <1>3
<1> QED
  BY <1>2, <1>4 DEF k

(* A granted source is the eligible source of least order.                 *)
LEMMA GrantedIsFirst ==
  ASSUME NEW E \in SUBSET Engines, NEW c \in Engines, NEW k \in Engines
  PROVE  k \in Granted(E, c) <=> k \in E /\ \A j \in E : Order(k, c) <= Order(j, c)
<1>1. ASSUME k \in Granted(E, c), NEW j \in E
      PROVE  Order(k, c) <= Order(j, c)
  <2>1. /\ Order(j, c) \in 0 .. EngineCount - 1
        /\ Order(k, c) \in 0 .. EngineCount - 1
        /\ (c + Order(j, c)) % EngineCount = j
    BY OrderValue
  <2>2. Order(j, c) \notin 0 .. Order(k, c) - 1
    BY <1>1, <2>1 DEF Granted
  <2> QED
    BY <2>1, <2>2
<1>2. ASSUME k \in E, \A j \in E : Order(k, c) <= Order(j, c),
             NEW offset \in 0 .. Order(k, c) - 1
      PROVE  (c + offset) % EngineCount \notin E
  <2>1. Order(k, c) \in 0 .. EngineCount - 1
    BY OrderValue
  <2>2. Order((c + offset) % EngineCount, c) = offset
    BY <2>1, OffsetValue
  <2> QED
    BY <1>2, <2>1, <2>2
<1>3. k \in Granted(E, c) => k \in E
  BY DEF Granted
<1> QED
  BY <1>1, <1>2, <1>3 DEF Granted

\* A set of sources has a first one in that order.
LEMMA SomeFirst ==
  ASSUME NEW E \in SUBSET Engines, NEW c \in Engines, E # {}
  PROVE  \E k \in E : \A j \in E : Order(k, c) <= Order(j, c)
<1> DEFINE T    == {Order(k, c) : k \in E}
           Less == {pair \in Nat \X Nat : pair[1] < pair[2]}
<1>0. ASSUME NEW k \in E PROVE Order(k, c) \in Nat
  <2>1. Order(k, c) \in 0 .. EngineCount - 1
    BY OrderValue
  <2> QED
    BY <2>1
<1>1. T \subseteq Nat /\ T # {}
  BY <1>0
<1>2. IsWellFoundedOn(Less, Nat)
  BY NatLessThanWellFounded DEF OpToRel
<1> HIDE DEF T, Less
<1>3. \E x \in T : \A y \in T : ~ (<<y, x>> \in Less)
  BY <1>1, <1>2, WFMin
<1>4. PICK x \in T : \A y \in T : ~ (<<y, x>> \in Less)
  BY <1>3
<1>5. ASSUME NEW y \in T
      PROVE  x <= y
  <2>1. x \in Nat /\ y \in Nat /\ <<y, x>> \in Nat \X Nat
    BY <1>1
  <2>2. ~ (<<y, x>> \in Less)
    BY <1>4, <1>5
  <2>3. ~ (y < x)
    BY <2>1, <2>2 DEF Less
  <2> QED
    BY <2>1, <2>3
<1>6. PICK k \in E : x = Order(k, c)
  BY DEF T
<1>7. \A j \in E : Order(k, c) <= Order(j, c)
  BY <1>5, <1>6 DEF T
<1> QED
  BY <1>7

\* ... and only one.
LEMMA OneFirst ==
  ASSUME NEW E \in SUBSET Engines, NEW c \in Engines,
         NEW j \in Granted(E, c), NEW k \in Granted(E, c)
  PROVE  j = k
<1>1. j \in E /\ k \in E
  BY DEF Granted
<1>2. Order(j, c) <= Order(k, c) /\ Order(k, c) <= Order(j, c)
  BY <1>1, GrantedIsFirst
<1>3. /\ Order(j, c) = IF j >= c THEN j - c ELSE j - c + EngineCount
      /\ Order(k, c) = IF k >= c THEN k - c ELSE k - c + EngineCount
      /\ Order(j, c) \in Int /\ Order(k, c) \in Int
  BY <1>1, OrderValue
<1> HIDE DEF Order
<1> QED
  BY <1>1, <1>2, <1>3

-----------------------------------------------------------------------------
(* After a grant the cursor leaves every loser one place closer.           *)
LEMMA LosersAdvance ==
  ASSUME NEW E \in SUBSET Engines, NEW c \in Engines, NEW k \in E \ Granted(E, c)
  PROVE  /\ NextCursor(Granted(E, c), c) \in Engines
         /\ Order(k, NextCursor(Granted(E, c), c)) + 1 <= Order(k, c)
<1> DEFINE G == Granted(E, c)
           g == CHOOSE j \in G : TRUE
           n == (g + 1) % EngineCount
<1>1. PICK j \in E : \A i \in E : Order(j, c) <= Order(i, c)
  BY SomeFirst
<1>2. j \in G
  BY <1>1, GrantedIsFirst
<1>3. g \in G /\ g \in E /\ g \in Engines /\ g # k
  BY <1>2 DEF Granted
<1>4. NextCursor(G, c) = n
  BY <1>2 DEF NextCursor
<1>5. Order(g, c) <= Order(k, c)
  BY <1>3, GrantedIsFirst
<1>6. n = IF g + 1 < EngineCount THEN g + 1 ELSE g + 1 - EngineCount
  BY <1>3, ModSmall
<1> HIDE DEF n, g
<1>7. n \in Engines
  BY <1>3, <1>6
<1>8. /\ Order(g, c) = IF g >= c THEN g - c ELSE g - c + EngineCount
      /\ Order(k, c) = IF k >= c THEN k - c ELSE k - c + EngineCount
      /\ Order(k, n) = IF k >= n THEN k - n ELSE k - n + EngineCount
  BY <1>3, <1>7, OrderValue
<1> HIDE DEF Order
<1>9. Order(k, n) + 1 <= Order(k, c)
  BY <1>3, <1>5, <1>6, <1>7, <1>8
<1> QED
  BY <1>4, <1>7, <1>9

\* The cursor stays a source.
LEMMA CursorRange ==
  ASSUME NEW E \in SUBSET Engines, NEW c \in Engines
  PROVE  NextCursor(Granted(E, c), c) \in Engines
<1> DEFINE G == Granted(E, c)
           g == CHOOSE j \in G : TRUE
<1>1. CASE G = {}
  BY <1>1 DEF NextCursor
<1>2. CASE G # {}
  <2>1. g \in Engines
    BY <1>2 DEF Granted
  <2> HIDE DEF g
  <2>2. (g + 1) % EngineCount \in Engines
    BY <2>1, ModSmall
  <2> QED
    BY <1>2, <2>2 DEF NextCursor, g
<1> QED
  BY <1>1, <1>2

(* Type correctness and the rank invariant: what a source has waited and   *)
(* what still precedes it in the rotating order are at most n - 1 together.*)
THEOREM RankCorrect == ArbiterSpec => []RankInv
<1>1. ArbiterInit => RankInv
  <2> SUFFICES ASSUME ArbiterInit PROVE RankInv
    OBVIOUS
  <2>1. ArbiterTypeOK
    BY DEF ArbiterInit, ArbiterTypeOK
  <2>2. \A k \in Engines : Order(k, cursor) \in 0 .. EngineCount - 1
    <3>1. cursor \in Engines
      BY DEF ArbiterInit
    <3> QED
      BY <3>1, OrderValue
  <2>3. \A k \in Engines : waited[k] + Order(k, cursor) <= EngineCount - 1
    BY <2>2 DEF ArbiterInit
  <2> QED
    BY <2>1, <2>3 DEF RankInv
<1>2. RankInv /\ [ArbiterNext]_arbiterVars => RankInv'
  <2> SUFFICES ASSUME RankInv, [ArbiterNext]_arbiterVars PROVE RankInv'
    OBVIOUS
  <2> USE DEF RankInv, ArbiterTypeOK
  <2>1. CASE ArbiterEdge
    <3> DEFINE G == Granted(eligible, cursor)
    <3>1. cursor' = NextCursor(G, cursor) /\ cursor' \in Engines
      BY <2>1, CursorRange DEF ArbiterEdge
    <3>2. waited' = [k \in Engines |-> IF k \in eligible \ G THEN waited[k] + 1 ELSE 0]
      BY <2>1 DEF ArbiterEdge
    <3> HIDE DEF G
    <3>3. ArbiterTypeOK'
      BY <2>1, <3>1, <3>2 DEF ArbiterEdge
    <3>4. ASSUME NEW k \in Engines
          PROVE  waited'[k] + Order(k, cursor') <= EngineCount - 1
      <4>1. Order(k, cursor') \in 0 .. EngineCount - 1 /\ Order(k, cursor) \in 0 .. EngineCount - 1
        BY <3>1, OrderValue
      <4>2. CASE k \in eligible \ G
        <5>1. Order(k, cursor') + 1 <= Order(k, cursor)
          BY <3>1, <4>2, LosersAdvance DEF G
        <5>2. waited'[k] = waited[k] + 1
          BY <3>2, <4>2
        <5>3. waited[k] + Order(k, cursor) <= EngineCount - 1 /\ waited[k] \in Nat
          OBVIOUS
        <5> HIDE DEF Order
        <5> QED
          BY <4>1, <5>1, <5>2, <5>3
      <4>3. CASE k \notin eligible \ G
        BY <3>2, <4>1, <4>3
      <4> QED
        BY <4>2, <4>3
    <3> QED
      BY <3>3, <3>4
  <2>2. CASE ArbiterReset
    <3>1. ArbiterTypeOK'
      BY <2>2 DEF ArbiterReset
    <3>2. \A k \in Engines : Order(k, cursor') \in 0 .. EngineCount - 1
      BY <3>1, OrderValue
    <3>3. \A k \in Engines : waited'[k] + Order(k, cursor') <= EngineCount - 1
      BY <2>2, <3>2 DEF ArbiterReset
    <3> QED
      BY <3>1, <3>3
  <2>3. CASE UNCHANGED arbiterVars
    BY <2>3 DEF arbiterVars
  <2> QED
    BY <2>1, <2>2, <2>3 DEF ArbiterNext
<1> QED
  BY <1>1, <1>2, PTL DEF ArbiterSpec

(* A continuously eligible source sees at most n - 1 grants to the others  *)
(* before its own (processor.ml 231-232).                                  *)
THEOREM ServedInTurn == ArbiterSpec => []BoundedWait
<1>1. RankInv => BoundedWait
  <2> SUFFICES ASSUME RankInv, NEW k \in Engines
               PROVE  waited[k] <= EngineCount - 1
    BY DEF BoundedWait
  <2>1. /\ Order(k, cursor) \in 0 .. EngineCount - 1
        /\ waited[k] \in Nat
        /\ waited[k] + Order(k, cursor) <= EngineCount - 1
    BY OrderValue DEF RankInv, ArbiterTypeOK
  <2> HIDE DEF Order
  <2> QED
    BY <2>1
<1> QED
  BY <1>1, RankCorrect, PTL

(* Exactly one word is accepted on an edge with an eligible source, none   *)
(* on an edge without (processor.ml 231, 270).                             *)
THEOREM GrantsOne == ArbiterSpec => []OneGrant
<1>1. RankInv => OneGrant
  <2> SUFFICES ASSUME RankInv PROVE OneGrant
    OBVIOUS
  <2>1. eligible \in SUBSET Engines /\ cursor \in Engines
    BY DEF RankInv, ArbiterTypeOK
  <2>2. Granted(eligible, cursor) # {} => eligible # {}
    BY DEF Granted
  <2>3. ASSUME eligible # {}
        PROVE  Granted(eligible, cursor) # {}
    <3>1. PICK k \in eligible : \A j \in eligible : Order(k, cursor) <= Order(j, cursor)
      BY <2>1, <2>3, SomeFirst
    <3> QED
      BY <2>1, <3>1, GrantedIsFirst
  <2>4. \A j, k \in Granted(eligible, cursor) : j = k
    BY <2>1, OneFirst
  <2> QED
    BY <2>2, <2>3, <2>4 DEF OneGrant
<1> QED
  BY <1>1, RankCorrect, PTL

(* The flat arbiter of the split_command_decode build and the priority     *)
(* chain of the other builds grant the same source (processor.ml 260-264). *)
THEOREM ArbitersAgree == ArbiterSpec => []SameGrant
<1>1. RankInv => SameGrant
  <2> SUFFICES ASSUME RankInv PROVE SameGrant
    OBVIOUS
  <2> DEFINE E == eligible
             hits == {offset \in 0 .. EngineCount - 1 : (cursor + offset) % EngineCount \in E}
             firsts == {offset \in hits : \A other \in hits : offset <= other}
  <2>1. E \in SUBSET Engines /\ cursor \in Engines
    BY DEF RankInv, ArbiterTypeOK
  <2>2. ASSUME NEW k \in Granted(E, cursor)
        PROVE  k \in ChainGranted(E, cursor)
    <3>1. k \in E /\ k \in Engines /\ \A j \in E : Order(k, cursor) <= Order(j, cursor)
      BY <2>1, <2>2, GrantedIsFirst DEF Granted
    <3>2. Order(k, cursor) \in 0 .. EngineCount - 1 /\ (cursor + Order(k, cursor)) % EngineCount = k
      BY <2>1, <3>1, OrderValue
    <3>3. Order(k, cursor) \in hits
      BY <3>1, <3>2
    <3>4. ASSUME NEW other \in hits
          PROVE  Order(k, cursor) <= other
      <4>1. Order((cursor + other) % EngineCount, cursor) = other
        BY <2>1, OffsetValue
      <4> QED
        BY <3>1, <4>1
    <3>5. Order(k, cursor) \in firsts
      BY <3>3, <3>4
    <3> QED
      BY <3>2, <3>5 DEF ChainGranted
  <2>3. ASSUME NEW k \in ChainGranted(E, cursor)
        PROVE  k \in Granted(E, cursor)
    <3>1. PICK first \in firsts : k = (cursor + first) % EngineCount
      BY <2>3 DEF ChainGranted
    <3>2. k \in Engines /\ k \in E /\ Order(k, cursor) = first
      BY <2>1, <3>1, OffsetValue
    <3>3. ASSUME NEW j \in E
          PROVE  Order(k, cursor) <= Order(j, cursor)
      <4>1. Order(j, cursor) \in 0 .. EngineCount - 1 /\ (cursor + Order(j, cursor)) % EngineCount = j
        BY <2>1, <3>3, OrderValue
      <4>2. Order(j, cursor) \in hits
        BY <4>1
      <4> QED
        BY <3>1, <3>2, <4>2
    <3> QED
      BY <2>1, <3>2, <3>3, GrantedIsFirst
  <2> QED
    BY <2>2, <2>3 DEF SameGrant
<1> QED
  BY <1>1, RankCorrect, PTL

-----------------------------------------------------------------------------
HIDE CountAssumption DEF Engines

(* Queues of words.                                                        *)
AllWords  == Origins \X Nat
Sorted(q) == \A i, j \in DOMAIN q : i < j => Older(q[i], q[j])

\* A word is not older than itself.
LEMMA OlderDiffers ==
  ASSUME NEW v \in AllWords, NEW u \in AllWords, Older(v, u)
  PROVE  v # u
<1>1. v[2] \in Nat /\ u[2] \in Nat
  BY DEF AllWords
<1> QED
  BY <1>1 DEF Older

\* What is in a queue.
LEMMA QueueWords ==
  ASSUME NEW q \in Seq(AllWords)
  PROVE  /\ InQueue(q) \subseteq AllWords
         /\ \A i \in 1 .. Len(q) : q[i] \in AllWords
         /\ DOMAIN q = 1 .. Len(q)
         /\ Valid(q) => Head(q) = q[1] /\ Head(q) \in InQueue(q) /\ 1 \in DOMAIN q
         /\ ~Valid(q) => InQueue(q) = {}
<1>1. DOMAIN q = 1 .. Len(q) /\ \A i \in 1 .. Len(q) : q[i] \in AllWords
  OBVIOUS
<1>2. ASSUME Valid(q)
      PROVE  1 \in DOMAIN q /\ Head(q) = q[1]
  <2>1. Len(q) \in Nat /\ Len(q) # 0
    BY <1>2 DEF Valid
  <2>2. 1 \in 1 .. Len(q)
    BY <2>1
  <2>3. q # << >>
    BY <2>1
  <2> QED
    BY <1>1, <2>2, <2>3
<1>3. ASSUME ~Valid(q)
      PROVE  DOMAIN q = {}
  BY <1>1, <1>3 DEF Valid
<1> QED
  BY <1>1, <1>2, <1>3 DEF InQueue

\* A queue without its head.
LEMMA Popped ==
  ASSUME NEW q \in Seq(AllWords), Sorted(q), Valid(q)
  PROVE  /\ Tail(q) \in Seq(AllWords) /\ Len(Tail(q)) = Len(q) - 1
         /\ Sorted(Tail(q))
         /\ InQueue(Tail(q)) = InQueue(q) \ {Head(q)}
         /\ \A v \in InQueue(Tail(q)) : Older(Head(q), v)
<1> DEFINE rest == Tail(q)
           n == Len(q)
<1>1. n \in Nat /\ n # 0 /\ q # << >>
  BY DEF Valid
<1>2. rest \in Seq(AllWords)
  BY <1>1
<1>3. Len(rest) = n - 1
  BY <1>1
<1>4. \A i \in 1 .. n - 1 : rest[i] = q[i + 1]
  BY <1>1
<1>5. DOMAIN rest = 1 .. n - 1 /\ DOMAIN q = 1 .. n
  BY <1>2, <1>3
<1>6. Head(q) = q[1] /\ 1 \in DOMAIN q
  BY QueueWords
<1> HIDE DEF rest, n
<1>7. Sorted(rest)
  <2> SUFFICES ASSUME NEW i \in 1 .. n - 1, NEW j \in 1 .. n - 1, i < j
               PROVE  Older(rest[i], rest[j])
    BY <1>5 DEF Sorted
  <2>1. i + 1 \in DOMAIN q /\ j + 1 \in DOMAIN q /\ i + 1 < j + 1
    BY <1>1, <1>5
  <2>2. Older(q[i + 1], q[j + 1])
    BY <2>1 DEF Sorted
  <2> QED
    BY <1>4, <2>2
<1>8. ASSUME NEW i \in 1 .. n - 1
      PROVE  Older(q[1], q[i + 1]) /\ i + 1 \in DOMAIN q
  <2>1. i + 1 \in DOMAIN q /\ 1 < i + 1
    BY <1>1, <1>5
  <2> QED
    BY <1>6, <2>1 DEF Sorted
<1>9. \A v \in InQueue(rest) : Older(Head(q), v)
  BY <1>4, <1>5, <1>6, <1>8 DEF InQueue
<1>10. InQueue(rest) \subseteq InQueue(q) \ {Head(q)}
  <2>1. ASSUME NEW i \in 1 .. n - 1
        PROVE  rest[i] \in InQueue(q) /\ rest[i] # Head(q)
    <3>1. q[i + 1] \in AllWords /\ q[1] \in AllWords
      BY <1>5, <1>6, <1>8, QueueWords DEF n
    <3> QED
      BY <1>4, <1>6, <1>8, <3>1, OlderDiffers DEF InQueue
  <2> QED
    BY <1>5, <2>1 DEF InQueue
<1>11. InQueue(q) \ {Head(q)} \subseteq InQueue(rest)
  <2> SUFFICES ASSUME NEW j \in 1 .. n, q[j] # Head(q)
               PROVE  q[j] \in InQueue(rest)
    BY <1>5 DEF InQueue
  <2>1. j # 1
    BY <1>6
  <2>2. j - 1 \in 1 .. n - 1 /\ j - 1 + 1 = j
    BY <1>1, <2>1
  <2>3. rest[j - 1] = q[j]
    BY <1>4, <2>2
  <2> QED
    BY <1>5, <2>2, <2>3 DEF InQueue
<1> QED
  BY <1>2, <1>3, <1>7, <1>9, <1>10, <1>11 DEF rest, n

\* A queue with one word more.
LEMMA Pushed ==
  ASSUME NEW q \in Seq(AllWords), Sorted(q), NEW x \in AllWords,
         \A v \in InQueue(q) : Older(v, x)
  PROVE  /\ Append(q, x) \in Seq(AllWords) /\ Len(Append(q, x)) = Len(q) + 1
         /\ Sorted(Append(q, x))
         /\ InQueue(Append(q, x)) = InQueue(q) \cup {x}
         /\ Valid(Append(q, x)) /\ (Valid(q) => Head(Append(q, x)) = Head(q))
<1> DEFINE longer == Append(q, x)
           n == Len(q)
<1>1. n \in Nat /\ DOMAIN q = 1 .. n
  OBVIOUS
<1>2. longer \in Seq(AllWords)
  OBVIOUS
<1>3. Len(longer) = n + 1
  OBVIOUS
<1>4. \A i \in 1 .. n : longer[i] = q[i]
  OBVIOUS
<1>5. longer[n + 1] = x
  OBVIOUS
<1>6. DOMAIN longer = 1 .. n + 1
  BY <1>2, <1>3
<1> HIDE DEF longer, n
<1>7. Sorted(longer)
  <2> SUFFICES ASSUME NEW i \in 1 .. n + 1, NEW j \in 1 .. n + 1, i < j
               PROVE  Older(longer[i], longer[j])
    BY <1>6 DEF Sorted
  <2>1. i \in 1 .. n /\ (j \in 1 .. n \/ j = n + 1)
    BY <1>1
  <2>2. CASE j \in 1 .. n
    BY <1>1, <1>4, <2>1, <2>2 DEF Sorted
  <2>3. CASE j = n + 1
    <3>1. q[i] \in InQueue(q)
      BY <1>1, <2>1 DEF InQueue
    <3> QED
      BY <1>4, <1>5, <2>1, <2>3, <3>1
  <2> QED
    BY <2>1, <2>2, <2>3
<1>8. InQueue(longer) = InQueue(q) \cup {x}
  <2>1. 1 .. n + 1 = 1 .. n \cup {n + 1}
    BY <1>1
  <2> QED
    BY <1>1, <1>4, <1>5, <1>6, <2>1 DEF InQueue
<1>9. Valid(longer)
  BY <1>1, <1>3 DEF Valid
<1>10. Valid(q) => Head(longer) = Head(q)
  BY <1>1, <1>2, <1>4, <1>9, QueueWords
<1> QED
  BY <1>2, <1>3, <1>7, <1>8, <1>9, <1>10 DEF longer, n

(* One edge of a queue whose requests are honoured.                        *)
LEMMA QueueEdgeKeeps ==
  ASSUME NEW q \in Seq(AllWords), Len(q) \in 0 .. Depth, Sorted(q),
         NEW push \in BOOLEAN, NEW pop \in BOOLEAN, NEW clear \in BOOLEAN, NEW x,
         push => x \in AllWords /\ Ready(q) /\ \A v \in InQueue(q) : Older(v, x),
         pop => Valid(q),
         NEW r, r = After(q, push, pop, clear, x)
  PROVE  /\ r \in Seq(AllWords) /\ Len(r) \in 0 .. Depth /\ Sorted(r)
         /\ InQueue(r) = IF clear THEN {}
                         ELSE (IF pop THEN InQueue(q) \ {Head(q)} ELSE InQueue(q))
                                \cup (IF push THEN {x} ELSE {})
         /\ ~clear /\ ~pop /\ Valid(q) => Valid(r) /\ Head(r) = Head(q)
<1> USE MoverAssumption
<1> DEFINE rest == IF pop THEN Tail(q) ELSE q
<1>1. /\ rest \in Seq(AllWords) /\ Sorted(rest)
      /\ InQueue(rest) = IF pop THEN InQueue(q) \ {Head(q)} ELSE InQueue(q)
  BY Popped
<1>2. Len(rest) \in 0 .. Depth /\ (Ready(q) => Len(rest) + 1 \in 0 .. Depth)
  <2>1. Len(q) \in Nat /\ (Ready(q) => Len(q) + 1 \in 0 .. Depth)
    BY DEF Ready
  <2>2. CASE pop
    <3>1. Len(rest) = Len(q) - 1 /\ Len(q) # 0
      BY <2>2, Popped DEF Valid
    <3> QED
      BY <2>1, <3>1
  <2>3. CASE ~pop
    BY <2>1, <2>3
  <2> QED
    BY <2>2, <2>3
<1>3. r = IF clear THEN << >> ELSE IF push THEN Append(rest, x) ELSE rest
  BY DEF After
<1>4. ~pop => rest = q
  OBVIOUS
<1> HIDE DEF rest
<1>5. CASE clear
  <2>1. r = << >>
    BY <1>3, <1>5
  <2>2. r \in Seq(AllWords) /\ InQueue(r) = {} /\ Sorted(r)
    BY <2>1 DEF InQueue, Sorted
  <2>3. Len(r) \in 0 .. Depth
    BY <2>1
  <2> QED
    BY <1>5, <2>2, <2>3
<1>6. CASE ~clear /\ push
  <2>1. r = Append(rest, x)
    BY <1>3, <1>6
  <2>2. \A v \in InQueue(rest) : Older(v, x)
    BY <1>1, <1>6
  <2>3. x \in AllWords
    BY <1>6
  <2> DEFINE longer == Append(rest, x)
  <2>4. /\ longer \in Seq(AllWords) /\ Len(longer) = Len(rest) + 1 /\ Sorted(longer)
        /\ InQueue(longer) = InQueue(rest) \cup {x}
        /\ Valid(longer) /\ (Valid(rest) => Head(longer) = Head(rest))
    BY <1>1, <2>2, <2>3, Pushed
  <2>5. r = longer
    BY <2>1
  <2> HIDE DEF longer
  <2> QED
    BY <1>1, <1>2, <1>4, <1>6, <2>4, <2>5
<1>7. CASE ~clear /\ ~push
  BY <1>1, <1>2, <1>3, <1>4, <1>7
<1> QED
  BY <1>5, <1>6, <1>7

-----------------------------------------------------------------------------
(* The inductive invariant.  A word stands in at most one place: within a  *)
(* queue and from a TX queue to an RX queue because of its number, among   *)
(* the RX queues because of its origin, among the TX queues by Apart.      *)
MoverTypeOK ==
  /\ selected \in Engines /\ window \in Windows /\ wordDone \in BOOLEAN
  /\ tx \in [Engines -> Seq(AllWords)] /\ rx \in [Engines -> Seq(AllWords)]
  /\ routeCount \in [Engines -> 0 .. MaxRoute] /\ routeDest \in [Engines -> Engines]
  /\ rr \in Engines /\ sent \in [Origins -> Nat]
Bounded ==
  \A k \in Engines : Len(tx[k]) \in 0 .. Depth /\ Len(rx[k]) \in 0 .. Depth
Ordered == \A k \in Engines : Sorted(tx[k]) /\ Sorted(rx[k])
OwnWords == \A k \in Engines : \A v \in InQueue(rx[k]) : v[1] = k
Behind ==
  \A d, k \in Engines : \A v \in InQueue(tx[d]), u \in InQueue(rx[k]) : Older(v, u)
Apart == \A d, e \in Engines : d # e => InQueue(tx[d]) \cap InQueue(tx[e]) = {}
Held  == UNION {InQueue(tx[k]) \cup InQueue(rx[k]) : k \in Engines}
Kept  == gone \subseteq SentWords /\ Held = SentWords \ gone

MoverInv ==
  MoverTypeOK /\ Bounded /\ Ordered /\ OwnWords /\ Behind /\ Apart /\ Kept /\ HeldRead

(* What the host may complete on an edge.                                  *)
HostWords ==
  {NoWord} \cup [kind : {"tx", "rx", "flush"}]
           \cup [kind : {"select"}, engine : Engines]
           \cup [kind : {"route"}, source : Engines, dest : Engines, count : 0 .. MaxRoute]

EdgeOf(w, word, pulls, pushes) ==
  /\ w \in Windows /\ word \in HostWords
  /\ pulls \in SUBSET CanPull /\ pushes \in SUBSET CanPush
  /\ Completes(w, word) /\ Edge(w, word, pulls, pushes)

\* Every step is an edge or a reset.
LEMMA MoverSteps ==
  ASSUME Next
  PROVE  Reset \/ \E w, word, pulls, pushes : EdgeOf(w, word, pulls, pushes)
<1>1. ASSUME NEW w \in Windows, NEW word \in HostWords, Clock(w, word)
      PROVE  \E pulls, pushes : EdgeOf(w, word, pulls, pushes)
  BY <1>1 DEF Clock, EdgeOf
<1>2. 0 \in Windows /\ 2 \in Windows /\ 3 \in Windows
  BY DEF Windows
<1>3. CASE Quiet
  <2>1. NoWord \in HostWords
    BY DEF HostWords
  <2> QED
    BY <1>1, <1>3, <2>1 DEF Quiet
<1>4. CASE HostWrite \/ HostRead \/ Flush
  <2>1. [kind |-> "tx"] \in HostWords /\ [kind |-> "rx"] \in HostWords
        /\ [kind |-> "flush"] \in HostWords
    BY DEF HostWords
  <2> QED
    BY <1>1, <1>2, <1>4, <2>1 DEF HostWrite, HostRead, Flush
<1>5. CASE Select
  <2>1. PICK k \in Engines : Clock(0, [kind |-> "select", engine |-> k])
    BY <1>5 DEF Select
  <2>2. [kind |-> "select", engine |-> k] \in HostWords
    BY DEF HostWords
  <2> QED
    BY <1>1, <1>2, <2>1, <2>2
<1>6. CASE Route
  <2>1. PICK source \in Engines, dest \in Engines, count \in 0 .. MaxRoute :
          Clock(0, [kind |-> "route", source |-> source, dest |-> dest, count |-> count])
    BY <1>6 DEF Route
  <2>2. [kind |-> "route", source |-> source, dest |-> dest, count |-> count] \in HostWords
    BY DEF HostWords
  <2> QED
    BY <1>1, <1>2, <2>1, <2>2
<1> QED
  BY <1>3, <1>4, <1>5, <1>6 DEF Next

\* The words an origin has sent are numbered.
LEMMA Numbered ==
  ASSUME sent \in [Origins -> Nat], NEW v
  PROVE  v \in SentWords <=> v \in AllWords /\ v[2] \in 1 .. sent[v[1]]
<1>1. ASSUME v \in SentWords
      PROVE  v \in AllWords /\ v[2] \in 1 .. sent[v[1]]
  <2>1. PICK o \in Origins : v \in {<<o, i>> : i \in 1 .. sent[o]}
    BY <1>1 DEF SentWords
  <2>2. PICK i \in 1 .. sent[o] : v = <<o, i>>
    BY <2>1
  <2> QED
    BY <2>2 DEF AllWords
<1>2. ASSUME v \in AllWords, v[2] \in 1 .. sent[v[1]]
      PROVE  v \in SentWords
  <2>1. v[1] \in Origins /\ v = <<v[1], v[2]>>
    BY <1>2 DEF AllWords
  <2>2. v \in {<<v[1], i>> : i \in 1 .. sent[v[1]]}
    BY <1>2, <2>1
  <2> QED
    BY <2>1, <2>2 DEF SentWords
<1> QED
  BY <1>1, <1>2

(* A word of an origin that has put in none like it yet.                   *)
LEMMA NewWord ==
  ASSUME sent \in [Origins -> Nat], NEW o \in Origins
  PROVE  /\ Word(o) \in AllWords /\ Word(o)[1] = o /\ Word(o) \notin SentWords
         /\ \A v \in SentWords : Older(v, Word(o))
<1>1. Word(o) \in AllWords /\ Word(o)[1] = o /\ Word(o)[2] = sent[o] + 1 /\ sent[o] \in Nat
  BY DEF Word, AllWords
<1>2. Word(o) \notin SentWords
  <2>1. ~(sent[o] + 1 \in 1 .. sent[o])
    BY <1>1
  <2> QED
    BY <1>1, <2>1, Numbered
<1>3. ASSUME NEW v \in SentWords, v[1] = o
      PROVE  v[2] < sent[o] + 1
  <2>1. v[2] \in 1 .. sent[v[1]]
    BY Numbered
  <2> QED
    BY <1>1, <1>3, <2>1
<1> QED
  BY <1>1, <1>2, <1>3 DEF Older

-----------------------------------------------------------------------------
(* The words that enter and leave the queues on one edge.                  *)
Arrives(d, word, granted) ==
  IF word.kind = "tx" /\ selected = d THEN {Word(Host)}
  ELSE {Head(rx[k]) : k \in {j \in granted : routeDest[j] = d}}
Pops(k, word, granted) == (word.kind = "rx" /\ selected = k) \/ k \in granted
Flushes(k, word) == word.kind = "flush" /\ selected = k
TxContents(d, word, pulls, granted) ==
  IF Flushes(d, word) THEN {}
  ELSE (IF d \in pulls THEN InQueue(tx[d]) \ {Head(tx[d])} ELSE InQueue(tx[d]))
         \cup Arrives(d, word, granted)
RxContents(k, word, pushes, granted) ==
  IF Flushes(k, word) THEN {}
  ELSE (IF Pops(k, word, granted) THEN InQueue(rx[k]) \ {Head(rx[k])} ELSE InQueue(rx[k]))
         \cup (IF k \in pushes THEN {Word(k)} ELSE {})

(* What an edge leaves alone, and whom the mover may grant.                *)
LEMMA Grants ==
  ASSUME MoverInv, NEW w, NEW word, NEW pulls, NEW pushes, EdgeOf(w, word, pulls, pushes),
         NEW granted, granted = Granted(Eligible(w, word), rr)
  PROVE  /\ granted \subseteq Engines
         /\ \A j, k \in granted : j = k
         /\ \A k \in granted :
              /\ routeCount[k] # 0 /\ routeDest[k] \in Engines
              /\ Valid(rx[k]) /\ Ready(tx[routeDest[k]])
              /\ ~(word.kind = "tx" /\ selected = routeDest[k])
              /\ ~(word.kind = "rx" /\ selected = k)
              /\ ~(w = 3 /\ w = window /\ selected = k)
              /\ ~Flushes(k, word) /\ ~Flushes(routeDest[k], word)
         /\ NextCursor(granted, rr) \in Engines
<1>1. Eligible(w, word) \in SUBSET Engines /\ rr \in Engines
  BY DEF Eligible, MoverInv, MoverTypeOK
<1>2. granted \subseteq Eligible(w, word)
  BY DEF Granted
<1>3. \A j, k \in granted : j = k
  BY <1>1, OneFirst
<1>4. NextCursor(granted, rr) \in Engines
  BY <1>1, CursorRange
<1>5. word.kind = "rx" => w = 3 /\ w = window
  BY DEF EdgeOf, Completes, Steady
<1>6. routeDest \in [Engines -> Engines]
  BY DEF MoverInv, MoverTypeOK
<1>7. ASSUME NEW k \in granted
      PROVE  /\ routeCount[k] # 0 /\ routeDest[k] \in Engines
             /\ Valid(rx[k]) /\ Ready(tx[routeDest[k]])
             /\ ~(word.kind = "tx" /\ selected = routeDest[k])
             /\ ~(word.kind = "rx" /\ selected = k)
             /\ ~(w = 3 /\ w = window /\ selected = k)
             /\ ~Flushes(k, word) /\ ~Flushes(routeDest[k], word)
  <2>1. k \in Eligible(w, word)
    BY <1>2
  <2>2. /\ k \in Engines /\ routeCount[k] # 0 /\ Valid(rx[k]) /\ Ready(tx[routeDest[k]])
        /\ ~(word.kind = "tx" /\ selected = routeDest[k])
        /\ ~(window = w /\ w = 3 /\ k = selected)
        /\ ~(word.kind = "flush" /\ selected \in {k, routeDest[k]})
    BY <2>1 DEF Eligible, Reserved, Steady
  <2> QED
    BY <1>5, <1>6, <2>2 DEF Flushes
<1> QED
  BY <1>1, <1>2, <1>3, <1>4, <1>7

(* The word the host completes in window 3 is the one it was shown.        *)
LEMMA Reads ==
  ASSUME MoverInv, NEW w, NEW word, NEW pulls, NEW pushes, EdgeOf(w, word, pulls, pushes),
         word.kind = "rx"
  PROVE  Valid(rx[selected]) /\ snapshot = Head(rx[selected])
<1>1. snapshot # None
  BY DEF EdgeOf, Completes
<1> QED
  BY <1>1 DEF MoverInv, HeldRead

\* What the queues hold was sent.
LEMMA HeldWords ==
  ASSUME MoverInv, NEW k \in Engines
  PROVE  /\ tx[k] \in Seq(AllWords) /\ rx[k] \in Seq(AllWords)
         /\ InQueue(tx[k]) \subseteq SentWords /\ InQueue(rx[k]) \subseteq SentWords
         /\ Len(tx[k]) \in 0 .. Depth /\ Len(rx[k]) \in 0 .. Depth
         /\ Sorted(tx[k]) /\ Sorted(rx[k])
<1>1. InQueue(tx[k]) \subseteq Held /\ InQueue(rx[k]) \subseteq Held
  BY DEF Held
<1> QED
  BY <1>1 DEF MoverInv, MoverTypeOK, Bounded, Ordered, Kept

(* The TX queues after an edge.                                            *)
LEMMA TxAfter ==
  ASSUME MoverInv, NEW w, NEW word, NEW pulls, NEW pushes, EdgeOf(w, word, pulls, pushes),
         NEW granted, granted = Granted(Eligible(w, word), rr), NEW d \in Engines
  PROVE  /\ tx'[d] \in Seq(AllWords) /\ Len(tx'[d]) \in 0 .. Depth /\ Sorted(tx'[d])
         /\ InQueue(tx'[d]) = TxContents(d, word, pulls, granted)
<1> DEFINE source   == CHOOSE k \in granted : TRUE
           fromHost == word.kind = "tx" /\ selected = d
           incoming == granted # {} /\ routeDest[source] = d
           x        == IF fromHost THEN Word(Host) ELSE Head(rx[source])
<1>1. /\ tx[d] \in Seq(AllWords) /\ InQueue(tx[d]) \subseteq SentWords
      /\ Len(tx[d]) \in 0 .. Depth /\ Sorted(tx[d])
  BY HeldWords
<1>2. tx'[d] = After(tx[d], fromHost \/ incoming, d \in pulls, Flushes(d, word), x)
  BY DEF EdgeOf, Edge, Queues, Flushes
<1>3. d \in pulls => Valid(tx[d])
  BY DEF EdgeOf, CanPull
<1>4. ASSUME fromHost
      PROVE  /\ x \in AllWords /\ Ready(tx[d]) /\ \A v \in InQueue(tx[d]) : Older(v, x)
             /\ Arrives(d, word, granted) = {x}
  <2>1. Ready(tx[d])
    BY <1>4 DEF EdgeOf, Completes
  <2>2. Host \in Origins /\ sent \in [Origins -> Nat]
    BY DEF MoverInv, MoverTypeOK, Origins
  <2>3. x = Word(Host)
    BY <1>4
  <2> QED
    BY <1>1, <1>4, <2>1, <2>2, <2>3, NewWord DEF Arrives
<1>5. granted # {} => source \in granted
  OBVIOUS
<1>6. ASSUME incoming, ~fromHost
      PROVE  /\ x \in AllWords /\ Ready(tx[d]) /\ \A v \in InQueue(tx[d]) : Older(v, x)
             /\ Arrives(d, word, granted) = {x}
  <2>1. /\ source \in Engines /\ Valid(rx[source]) /\ Ready(tx[d])
        /\ \A j \in granted : j = source
    BY <1>5, <1>6, Grants
  <2>2. rx[source] \in Seq(AllWords)
    BY <2>1, HeldWords
  <2>3. x \in InQueue(rx[source]) /\ x \in AllWords
    BY <1>6, <2>1, <2>2, QueueWords
  <2>4. \A v \in InQueue(tx[d]) : Older(v, x)
    BY <2>1, <2>3 DEF MoverInv, Behind
  <2>5. {j \in granted : routeDest[j] = d} = {source}
    BY <1>5, <1>6, <2>1
  <2>6. x = Head(rx[source])
    BY <1>6
  <2> QED
    BY <1>6, <2>1, <2>3, <2>4, <2>5, <2>6 DEF Arrives
<1>7. ASSUME ~fromHost, ~incoming
      PROVE  Arrives(d, word, granted) = {}
  <2>1. \A j \in granted : j = source
    BY <1>5, Grants
  <2>2. {j \in granted : routeDest[j] = d} = {}
    BY <1>7, <2>1
  <2> QED
    BY <1>7, <2>2 DEF Arrives
<1> DEFINE push  == fromHost \/ incoming
           pop   == d \in pulls
           clear == Flushes(d, word)
           q     == tx[d]
           r     == tx'[d]
<1>8. push => x \in AllWords /\ Ready(q) /\ \A v \in InQueue(q) : Older(v, x)
  BY <1>4, <1>6
<1>9. Arrives(d, word, granted) = IF push THEN {x} ELSE {}
  BY <1>4, <1>6, <1>7
<1>10. push \in BOOLEAN /\ pop \in BOOLEAN /\ clear \in BOOLEAN
  BY DEF Flushes
<1>11. r = After(q, push, pop, clear, x)
  BY <1>2
<1>12. q \in Seq(AllWords) /\ Len(q) \in 0 .. Depth /\ Sorted(q) /\ (pop => Valid(q))
  BY <1>1, <1>3
<1> HIDE DEF push, pop, clear, q, r, x
<1>13. /\ r \in Seq(AllWords) /\ Len(r) \in 0 .. Depth /\ Sorted(r)
       /\ InQueue(r) = IF clear THEN {}
                       ELSE (IF pop THEN InQueue(q) \ {Head(q)} ELSE InQueue(q))
                              \cup (IF push THEN {x} ELSE {})
  BY <1>8, <1>10, <1>11, <1>12, QueueEdgeKeeps
<1> QED
  BY <1>9, <1>13 DEF pop, clear, q, r, TxContents

(* The RX queues after an edge.                                            *)
LEMMA RxAfter ==
  ASSUME MoverInv, NEW w, NEW word, NEW pulls, NEW pushes, EdgeOf(w, word, pulls, pushes),
         NEW granted, granted = Granted(Eligible(w, word), rr), NEW k \in Engines
  PROVE  /\ rx'[k] \in Seq(AllWords) /\ Len(rx'[k]) \in 0 .. Depth /\ Sorted(rx'[k])
         /\ InQueue(rx'[k]) = RxContents(k, word, pushes, granted)
         /\ ~Flushes(k, word) /\ ~Pops(k, word, granted) /\ Valid(rx[k])
              => Valid(rx'[k]) /\ Head(rx'[k]) = Head(rx[k])
<1>1. /\ rx[k] \in Seq(AllWords) /\ InQueue(rx[k]) \subseteq SentWords
      /\ Len(rx[k]) \in 0 .. Depth /\ Sorted(rx[k])
  BY HeldWords
<1>2. rx'[k] = After(rx[k], k \in pushes, Pops(k, word, granted), Flushes(k, word), Word(k))
  BY DEF EdgeOf, Edge, Queues, Flushes, Pops
<1>3. Pops(k, word, granted) => Valid(rx[k])
  BY Grants, Reads DEF Pops
<1>4. ASSUME k \in pushes
      PROVE  Word(k) \in AllWords /\ Ready(rx[k]) /\ \A v \in InQueue(rx[k]) : Older(v, Word(k))
  <2>1. Ready(rx[k])
    BY <1>4 DEF EdgeOf, CanPush
  <2>2. k \in Origins /\ sent \in [Origins -> Nat]
    BY DEF MoverInv, MoverTypeOK, Origins
  <2> QED
    BY <1>1, <2>1, <2>2, NewWord
<1> DEFINE push  == k \in pushes
           pop   == Pops(k, word, granted)
           clear == Flushes(k, word)
           q     == rx[k]
           r     == rx'[k]
           x     == Word(k)
<1>5. push \in BOOLEAN /\ pop \in BOOLEAN /\ clear \in BOOLEAN
  BY DEF Flushes, Pops
<1>6. r = After(q, push, pop, clear, x)
  BY <1>2
<1>7. q \in Seq(AllWords) /\ Len(q) \in 0 .. Depth /\ Sorted(q) /\ (pop => Valid(q))
  BY <1>1, <1>3
<1>8. push => x \in AllWords /\ Ready(q) /\ \A v \in InQueue(q) : Older(v, x)
  BY <1>4
<1> HIDE DEF push, pop, clear, q, r, x
<1>9. /\ r \in Seq(AllWords) /\ Len(r) \in 0 .. Depth /\ Sorted(r)
      /\ InQueue(r) = IF clear THEN {}
                      ELSE (IF pop THEN InQueue(q) \ {Head(q)} ELSE InQueue(q))
                             \cup (IF push THEN {x} ELSE {})
      /\ ~clear /\ ~pop /\ Valid(q) => Valid(r) /\ Head(r) = Head(q)
  BY <1>5, <1>6, <1>7, <1>8, QueueEdgeKeeps
<1> QED
  BY <1>9 DEF push, pop, clear, q, r, x, RxContents

-----------------------------------------------------------------------------
(* A word stands in one place.                                             *)
LEMMA OnePlace ==
  ASSUME MoverInv, NEW d \in Engines, NEW e \in Engines, NEW v
  PROVE  /\ v \in InQueue(tx[d]) /\ v \in InQueue(tx[e]) => d = e
         /\ v \in InQueue(tx[d]) => v \notin InQueue(rx[e])
         /\ v \in InQueue(rx[d]) /\ v \in InQueue(rx[e]) => d = e
<1>1. v \in InQueue(tx[d]) /\ v \in InQueue(tx[e]) => d = e
  BY DEF MoverInv, Apart
<1>2. v \in InQueue(rx[d]) /\ v \in InQueue(rx[e]) => d = e
  BY DEF MoverInv, OwnWords
<1>3. ASSUME v \in InQueue(tx[d]), v \in InQueue(rx[e])
      PROVE  FALSE
  <2>1. Older(v, v)
    BY <1>3 DEF MoverInv, Behind
  <2>2. tx[d] \in Seq(AllWords)
    BY HeldWords
  <2>3. v \in AllWords
    BY <1>3, <2>2, QueueWords
  <2> QED
    BY <2>1, <2>3, OlderDiffers
<1> QED
  BY <1>1, <1>2, <1>3

(* What arrives in a TX queue is a new word of the host or the oldest word *)
(* of the granted RX queue.                                                *)
LEMMA Arrived ==
  ASSUME MoverInv, NEW w, NEW word, NEW pulls, NEW pushes, EdgeOf(w, word, pulls, pushes),
         NEW granted, granted = Granted(Eligible(w, word), rr), NEW d \in Engines,
         NEW v \in Arrives(d, word, granted)
  PROVE  \/ word.kind = "tx" /\ selected = d /\ v = Word(Host) /\ v \notin SentWords
         \/ \E k \in granted :
              k \in Engines /\ routeDest[k] = d /\ v = Head(rx[k]) /\ v \in InQueue(rx[k])
<1>1. CASE word.kind = "tx" /\ selected = d
  <2>1. v = Word(Host)
    BY <1>1 DEF Arrives
  <2>2. Host \in Origins /\ sent \in [Origins -> Nat]
    BY DEF MoverInv, MoverTypeOK, Origins
  <2> QED
    BY <1>1, <2>1, <2>2, NewWord
<1>2. CASE ~(word.kind = "tx" /\ selected = d)
  <2>1. PICK k \in granted : routeDest[k] = d /\ v = Head(rx[k])
    BY <1>2 DEF Arrives
  <2>2. k \in Engines /\ Valid(rx[k])
    BY Grants
  <2>3. rx[k] \in Seq(AllWords)
    BY <2>2, HeldWords
  <2>4. v \in InQueue(rx[k])
    BY <2>1, <2>2, <2>3, QueueWords
  <2> QED
    BY <2>1, <2>2, <2>4
<1> QED
  BY <1>1, <1>2

(* Membership in the queues after an edge.                                 *)
LEMMA WordsAfter ==
  ASSUME MoverInv, NEW w, NEW word, NEW pulls, NEW pushes, EdgeOf(w, word, pulls, pushes),
         NEW granted, granted = Granted(Eligible(w, word), rr), NEW k \in Engines, NEW v
  PROVE  /\ v \in InQueue(tx'[k]) <=>
              /\ ~Flushes(k, word)
              /\ \/ v \in InQueue(tx[k]) /\ ~(k \in pulls /\ v = Head(tx[k]))
                 \/ v \in Arrives(k, word, granted)
         /\ v \in InQueue(rx'[k]) <=>
              /\ ~Flushes(k, word)
              /\ \/ v \in InQueue(rx[k]) /\ ~(Pops(k, word, granted) /\ v = Head(rx[k]))
                 \/ k \in pushes /\ v = Word(k)
<1>1. InQueue(tx'[k]) = TxContents(k, word, pulls, granted)
  BY TxAfter
<1>2. InQueue(rx'[k]) = RxContents(k, word, pushes, granted)
  BY RxAfter
<1> QED
  BY <1>1, <1>2 DEF TxContents, RxContents

\* An edge keeps that an engine's words are its own,
LEMMA OwnWordsKept ==
  ASSUME MoverInv, NEW w, NEW word, NEW pulls, NEW pushes, EdgeOf(w, word, pulls, pushes),
         NEW granted, granted = Granted(Eligible(w, word), rr)
  PROVE  OwnWords'
<1> SUFFICES ASSUME NEW k \in Engines, NEW v \in InQueue(rx'[k])
             PROVE  v[1] = k
  BY DEF OwnWords
<1>1. v \in InQueue(rx[k]) \/ v = Word(k)
  BY WordsAfter
<1>2. Word(k)[1] = k
  BY DEF Word
<1> QED
  BY <1>1, <1>2 DEF MoverInv, OwnWords

\* ... that words behind were sent later,
LEMMA BehindKept ==
  ASSUME MoverInv, NEW w, NEW word, NEW pulls, NEW pushes, EdgeOf(w, word, pulls, pushes),
         NEW granted, granted = Granted(Eligible(w, word), rr)
  PROVE  Behind'
<1> SUFFICES ASSUME NEW d \in Engines, NEW k \in Engines,
                    NEW v \in InQueue(tx'[d]), NEW u \in InQueue(rx'[k])
             PROVE  Older(v, u)
  BY DEF Behind, Older
<1>1. /\ InQueue(tx[d]) \subseteq SentWords /\ \A j \in Engines : InQueue(rx[j]) \subseteq SentWords
      /\ rx[k] \in Seq(AllWords) /\ Sorted(rx[k])
  BY HeldWords
<1>2. sent \in [Origins -> Nat] /\ k \in Origins /\ Host \in Origins /\ Host # k
  <2>1. sent \in [Origins -> Nat] /\ k \in Origins /\ Host \in Origins
    BY DEF MoverInv, MoverTypeOK, Origins
  <2>2. Host # k
    BY CountAssumption DEF Host, Engines
  <2> QED
    BY <2>1, <2>2
<1>3. Word(Host)[1] = Host /\ Word(k)[1] = k
  BY DEF Word
<1>4. v \in InQueue(tx[d]) \/ v \in Arrives(d, word, granted)
  BY WordsAfter
<1>5. CASE u = Word(k)
  <2>1. v \in SentWords \/ v = Word(Host)
    BY <1>1, <1>4, Arrived
  <2> QED
    BY <1>2, <1>3, <1>5, <2>1, NewWord DEF Older
<1>6. CASE u # Word(k)
  <2>1. u \in InQueue(rx[k]) /\ ~(Pops(k, word, granted) /\ u = Head(rx[k]))
    BY <1>6, WordsAfter
  <2>2. u[1] = k
    BY <2>1 DEF MoverInv, OwnWords
  <2>3. CASE v \in InQueue(tx[d])
    BY <2>1, <2>3 DEF MoverInv, Behind
  <2>4. CASE v = Word(Host)
    BY <1>2, <1>3, <2>2, <2>4 DEF Older
  <2>5. ASSUME NEW j \in granted, j \in Engines, v = Head(rx[j]), v \in InQueue(rx[j])
        PROVE  Older(v, u)
    <3>1. v[1] = j
      BY <2>5 DEF MoverInv, OwnWords
    <3>2. CASE j = k
      <4>1. Valid(rx[k]) /\ Pops(k, word, granted)
        BY <2>5, <3>2, Grants DEF Pops
      <4>2. u \in InQueue(Tail(rx[k])) /\ Older(Head(rx[k]), u)
        BY <1>1, <2>1, <4>1, Popped
      <4> QED
        BY <2>5, <3>2, <4>2
    <3>3. CASE j # k
      BY <2>2, <3>1, <3>3 DEF Older
    <3> QED
      BY <3>2, <3>3
  <2> QED
    BY <1>4, <2>3, <2>4, <2>5, Arrived
<1> QED
  BY <1>5, <1>6

\* ... that no word is twice,
LEMMA ApartKept ==
  ASSUME MoverInv, NEW w, NEW word, NEW pulls, NEW pushes, EdgeOf(w, word, pulls, pushes),
         NEW granted, granted = Granted(Eligible(w, word), rr)
  PROVE  Apart'
<1> SUFFICES ASSUME NEW d \in Engines, NEW e \in Engines, d # e,
                    NEW v, v \in InQueue(tx'[d]), v \in InQueue(tx'[e])
             PROVE  FALSE
  BY DEF Apart
<1> DEFINE Old(k)  == v \in InQueue(tx[k])
           Sent(k) == word.kind = "tx" /\ selected = k /\ v = Word(Host) /\ v \notin SentWords
           Forwarded(k, j) ==
             j \in granted /\ j \in Engines /\ routeDest[j] = k /\ v \in InQueue(rx[j])
<1>1. ASSUME NEW k \in Engines, v \in InQueue(tx'[k])
      PROVE  Old(k) \/ Sent(k) \/ \E j : Forwarded(k, j)
  <2>1. v \in InQueue(tx[k]) \/ v \in Arrives(k, word, granted)
    BY <1>1, WordsAfter
  <2> QED
    BY <2>1, Arrived
<1>2. ASSUME NEW k \in Engines, Old(k)
      PROVE  v \in SentWords /\ \A j \in Engines : v \notin InQueue(rx[j])
  BY <1>2, HeldWords, OnePlace
<1>3. ASSUME NEW k, NEW j, Forwarded(k, j)
      PROVE  v \in SentWords
  BY <1>3, HeldWords
<1>4. ASSUME NEW i, NEW j, Forwarded(d, i), Forwarded(e, j)
      PROVE  FALSE
  BY <1>4, Grants
<1>5. ~(Old(d) /\ Old(e))
  BY OnePlace
<1> QED
  BY <1>1, <1>2, <1>3, <1>4, <1>5

(* The words put in and taken out on an edge.                              *)
Puts(word, pushes) == {o \in Origins : o \in pushes \/ (word.kind = "tx" /\ o = Host)}

\* An edge sends at most a word from each origin.
LEMMA SentGrows ==
  ASSUME MoverInv, NEW w, NEW word, NEW pulls, NEW pushes, EdgeOf(w, word, pulls, pushes)
  PROVE  /\ sent' \in [Origins -> Nat]
         /\ SentWords' = SentWords \cup {Word(o) : o \in Puts(word, pushes)}
<1>1. sent \in [Origins -> Nat]
  BY DEF MoverInv, MoverTypeOK
<1>2. sent' = [o \in Origins |-> IF o \in Puts(word, pushes) THEN sent[o] + 1 ELSE sent[o]]
  BY DEF EdgeOf, Edge, Puts
<1>3. sent' \in [Origins -> Nat]
  BY <1>1, <1>2
<1>4. ASSUME NEW v \in AllWords
      PROVE  v[2] \in 1 .. sent'[v[1]]
               <=> v[2] \in 1 .. sent[v[1]] \/ (v[1] \in Puts(word, pushes) /\ v = Word(v[1]))
  <2> DEFINE o == v[1]
             n == sent[o]
             i == v[2]
  <2>1. o \in Origins /\ i \in Nat /\ v = <<o, i>>
    BY DEF AllWords
  <2>2. n \in Nat /\ sent'[o] = IF o \in Puts(word, pushes) THEN n + 1 ELSE n
    BY <1>1, <1>2, <2>1
  <2>3. Word(o) = <<o, n + 1>>
    BY DEF Word
  <2>4. v = Word(o) <=> i = n + 1
    BY <2>1, <2>3
  <2> HIDE DEF o, n, i
  <2>5. i \in 1 .. n + 1 <=> i \in 1 .. n \/ i = n + 1
    BY <2>1, <2>2
  <2>6. i \in 1 .. sent'[o] <=> i \in 1 .. n \/ (o \in Puts(word, pushes) /\ v = Word(o))
    BY <2>2, <2>4, <2>5
  <2> QED
    BY <2>6 DEF o, n, i
<1>5. \A v : v \in SentWords' <=> v \in AllWords /\ v[2] \in 1 .. sent'[v[1]]
  <2> TAKE v
  <2>1. ASSUME v \in SentWords'
        PROVE  v \in AllWords /\ v[2] \in 1 .. sent'[v[1]]
    <3>1. PICK o \in Origins : v \in {<<o, i>> : i \in 1 .. sent'[o]}
      BY <2>1 DEF SentWords
    <3>2. PICK i \in 1 .. sent'[o] : v = <<o, i>>
      BY <3>1
    <3> QED
      BY <1>3, <3>2 DEF AllWords
  <2>2. ASSUME v \in AllWords, v[2] \in 1 .. sent'[v[1]]
        PROVE  v \in SentWords'
    <3>1. v[1] \in Origins /\ v = <<v[1], v[2]>>
      BY <2>2 DEF AllWords
    <3>2. v \in {<<v[1], i>> : i \in 1 .. sent'[v[1]]}
      BY <2>2, <3>1
    <3> QED
      BY <3>1, <3>2 DEF SentWords
  <2> QED
    BY <2>1, <2>2
<1>6. \A o \in Puts(word, pushes) : Word(o) \in AllWords /\ Word(o)[1] = o
  BY <1>1, NewWord DEF Puts
<1>7. \A v : v \in SentWords <=> v \in AllWords /\ v[2] \in 1 .. sent[v[1]]
  BY <1>1, Numbered
<1>8. \A v : v \in SentWords' <=> v \in SentWords \cup {Word(o) : o \in Puts(word, pushes)}
  BY <1>4, <1>5, <1>6, <1>7
<1> QED
  BY <1>3, <1>8

(* What leaves is taken from the queues as they were.                      *)
LEMMA TakenWords ==
  ASSUME MoverInv, NEW w, NEW word, NEW pulls, NEW pushes, EdgeOf(w, word, pulls, pushes),
         NEW v
  PROVE  v \in Taken(word, pulls) <=>
           \/ \E k \in Engines : k \in pulls /\ v = Head(tx[k]) /\ v \in InQueue(tx[k])
           \/ word.kind = "rx" /\ v = Head(rx[selected]) /\ v \in InQueue(rx[selected])
           \/ word.kind = "flush" /\ (v \in InQueue(tx[selected]) \/ v \in InQueue(rx[selected]))
<1>1. selected \in Engines
  BY DEF MoverInv, MoverTypeOK
<1>2. \A k \in pulls : k \in Engines /\ Head(tx[k]) \in InQueue(tx[k])
  <2> TAKE k \in pulls
  <2>1. k \in Engines /\ Valid(tx[k])
    BY DEF EdgeOf, CanPull
  <2>2. tx[k] \in Seq(AllWords)
    BY <2>1, HeldWords
  <2> QED
    BY <2>1, <2>2, QueueWords
<1>3. ASSUME word.kind = "rx"
      PROVE  snapshot = Head(rx[selected]) /\ Head(rx[selected]) \in InQueue(rx[selected])
  <2>1. Valid(rx[selected]) /\ snapshot = Head(rx[selected])
    BY <1>3, Reads
  <2>2. rx[selected] \in Seq(AllWords)
    BY <1>1, HeldWords
  <2> QED
    BY <2>1, <2>2, QueueWords
<1>4. v \in Taken(word, pulls) <=>
        \/ \E k \in pulls : v = Head(tx[k])
        \/ word.kind = "rx" /\ v = snapshot
        \/ word.kind = "flush" /\ (v \in InQueue(tx[selected]) \/ v \in InQueue(rx[selected]))
  BY DEF Taken
<1> QED
  BY <1>2, <1>3, <1>4

\* Where the held words are,
LEMMA HeldAre ==
  \A v : v \in Held <=> \E k \in Engines : v \in InQueue(tx[k]) \/ v \in InQueue(rx[k])
BY DEF Held

\* ... and where they are after an edge.
LEMMA HeldAreNext ==
  \A v : v \in Held' <=> \E k \in Engines : v \in InQueue(tx'[k]) \/ v \in InQueue(rx'[k])
BY DEF Held, InQueue

(* A word still in a queue after the edge was put in and has not left.     *)
LEMMA StillThere ==
  ASSUME MoverInv, NEW w, NEW word, NEW pulls, NEW pushes, EdgeOf(w, word, pulls, pushes),
         NEW granted, granted = Granted(Eligible(w, word), rr), NEW v, v \in Held'
  PROVE  /\ v \in SentWords \cup {Word(o) : o \in Puts(word, pushes)}
         /\ v \notin gone \cup Taken(word, pulls)
<1>1. PICK k \in Engines : v \in InQueue(tx'[k]) \/ v \in InQueue(rx'[k])
  BY HeldAreNext
<1>2. \A j \in Engines :
        InQueue(tx[j]) \subseteq SentWords \ gone /\ InQueue(rx[j]) \subseteq SentWords \ gone
  BY HeldAre DEF MoverInv, Kept
<1>3. selected \in Engines /\ gone \subseteq SentWords
  BY DEF MoverInv, MoverTypeOK, Kept
<1>4. Taken(word, pulls) \subseteq SentWords
  BY <1>2, <1>3, TakenWords
<1>5. ASSUME NEW o \in Puts(word, pushes), v = Word(o)
      PROVE  v \notin SentWords
  BY <1>5, NewWord DEF Puts, MoverInv, MoverTypeOK
<1>6. CASE \E o \in Puts(word, pushes) : v = Word(o)
  BY <1>3, <1>4, <1>5, <1>6
<1>7. CASE ~\E o \in Puts(word, pushes) : v = Word(o)
  <2>1. ~(word.kind = "tx" /\ v = Word(Host))
    <3>1. Host \in Origins
      BY DEF Origins
    <3> QED
      BY <1>7, <3>1 DEF Puts
  <2>2. ~(k \in pushes /\ v = Word(k))
    <3>1. k \in Origins
      BY DEF Origins
    <3> QED
      BY <1>7, <3>1 DEF Puts
  <2>3. CASE v \in InQueue(tx[k]) /\ v \in InQueue(tx'[k])
    <3>1. ~Flushes(k, word) /\ ~(k \in pulls /\ v = Head(tx[k]))
      <4>1. ASSUME v \in Arrives(k, word, granted)
            PROVE  FALSE
        BY <1>2, <2>3, <4>1, Arrived, OnePlace
      <4> QED
        BY <2>3, <4>1, WordsAfter
    <3>2. v \notin Taken(word, pulls)
      BY <1>3, <2>3, <3>1, OnePlace, TakenWords DEF Flushes
    <3> QED
      BY <1>2, <2>3, <3>2
  <2>4. CASE v \in Arrives(k, word, granted) /\ v \in InQueue(tx'[k])
    <3>1. PICK j \in granted :
            j \in Engines /\ routeDest[j] = k /\ v = Head(rx[j]) /\ v \in InQueue(rx[j])
      BY <2>1, <2>4, Arrived
    <3>2. ~(word.kind = "rx" /\ selected = j) /\ ~(word.kind = "flush" /\ selected = j)
      BY <3>1, Grants DEF Flushes
    <3>3. v \notin Taken(word, pulls)
      BY <1>3, <3>1, <3>2, OnePlace, TakenWords
    <3> QED
      BY <1>2, <3>1, <3>3
  <2>5. CASE v \in InQueue(rx'[k])
    <3>1. /\ v \in InQueue(rx[k]) /\ ~Flushes(k, word)
          /\ ~(Pops(k, word, granted) /\ v = Head(rx[k]))
      BY <2>2, <2>5, WordsAfter
    <3>2. v \notin Taken(word, pulls)
      BY <1>3, <3>1, OnePlace, TakenWords DEF Flushes, Pops
    <3> QED
      BY <1>2, <3>1, <3>2
  <2> QED
    BY <1>1, <2>3, <2>4, <2>5, WordsAfter
<1> QED
  BY <1>6, <1>7

(* A word put in that has not left is still in a queue after the edge.     *)
LEMMA NotDropped ==
  ASSUME MoverInv, NEW w, NEW word, NEW pulls, NEW pushes, EdgeOf(w, word, pulls, pushes),
         NEW granted, granted = Granted(Eligible(w, word), rr), NEW v,
         v \in SentWords \cup {Word(o) : o \in Puts(word, pushes)},
         v \notin gone \cup Taken(word, pulls)
  PROVE  v \in Held'
<1>1. selected \in Engines
  BY DEF MoverInv, MoverTypeOK
<1>2. CASE v \in SentWords
  <2>1. PICK k \in Engines : v \in InQueue(tx[k]) \/ v \in InQueue(rx[k])
    BY <1>2, HeldAre DEF MoverInv, Kept
  <2>2. ~Flushes(k, word)
    BY <2>1, TakenWords DEF Flushes
  <2>3. CASE v \in InQueue(tx[k])
    <3>1. ~(k \in pulls /\ v = Head(tx[k]))
      BY <2>3, TakenWords
    <3>2. v \in InQueue(tx'[k])
      BY <2>2, <2>3, <3>1, WordsAfter
    <3> QED
      BY <3>2, HeldAreNext
  <2>4. CASE v \in InQueue(rx[k]) /\ ~(Pops(k, word, granted) /\ v = Head(rx[k]))
    <3>1. v \in InQueue(rx'[k])
      BY <2>2, <2>4, WordsAfter
    <3> QED
      BY <3>1, HeldAreNext
  <2>5. CASE v \in InQueue(rx[k]) /\ Pops(k, word, granted) /\ v = Head(rx[k])
    <3>1. k \in granted
      BY <2>5, TakenWords DEF Pops
    <3> DEFINE d == routeDest[k]
    <3>2. d \in Engines /\ ~(word.kind = "tx" /\ selected = d) /\ ~Flushes(d, word)
      BY <3>1, Grants
    <3>3. v \in Arrives(d, word, granted)
      BY <2>5, <3>1, <3>2 DEF Arrives
    <3>4. v \in InQueue(tx'[d])
      BY <3>2, <3>3, WordsAfter
    <3> QED
      BY <3>2, <3>4, HeldAreNext
  <2> QED
    BY <2>1, <2>3, <2>4, <2>5
<1>3. ASSUME NEW o \in Puts(word, pushes), v = Word(o)
      PROVE  v \in Held'
  <2>1. CASE o \in pushes
    <3>1. o \in Engines /\ ~Flushes(o, word)
      BY <2>1 DEF EdgeOf, Edge, CanPush, Flushes
    <3>2. v \in InQueue(rx'[o])
      BY <1>3, <2>1, <3>1, WordsAfter
    <3> QED
      BY <3>1, <3>2, HeldAreNext
  <2>2. CASE word.kind = "tx" /\ o = Host
    <3>1. ~Flushes(selected, word)
      BY <2>2 DEF Flushes
    <3>2. v \in Arrives(selected, word, granted)
      BY <1>3, <2>2 DEF Arrives
    <3>3. v \in InQueue(tx'[selected])
      BY <1>1, <3>1, <3>2, WordsAfter
    <3> QED
      BY <1>1, <3>3, HeldAreNext
  <2> QED
    BY <2>1, <2>2 DEF Puts
<1> QED
  BY <1>2, <1>3

\* An edge keeps every word sent and not yet delivered,
LEMMA KeptKept ==
  ASSUME MoverInv, NEW w, NEW word, NEW pulls, NEW pushes, EdgeOf(w, word, pulls, pushes),
         NEW granted, granted = Granted(Eligible(w, word), rr)
  PROVE  Kept'
<1>1. gone' = gone \cup Taken(word, pulls)
  BY DEF EdgeOf, Edge
<1>2. SentWords' = SentWords \cup {Word(o) : o \in Puts(word, pushes)}
  BY SentGrows
<1>3. gone' \subseteq SentWords'
  <2>1. selected \in Engines /\ gone \subseteq SentWords
    BY DEF MoverInv, MoverTypeOK, Kept
  <2>2. \A j \in Engines : InQueue(tx[j]) \subseteq SentWords /\ InQueue(rx[j]) \subseteq SentWords
    BY HeldWords
  <2>3. Taken(word, pulls) \subseteq SentWords
    BY <2>1, <2>2, TakenWords
  <2> QED
    BY <1>1, <1>2, <2>1, <2>3
<1>4. \A v : v \in Held' <=> v \in SentWords' /\ v \notin gone'
  BY <1>1, <1>2, StillThere, NotDropped
<1> QED
  BY <1>3, <1>4 DEF Kept

(* The word presented to the host stays the oldest of the selected queue.  *)
LEMMA ReadStaysHeld ==
  ASSUME MoverInv, NEW w, NEW word, NEW pulls, NEW pushes, EdgeOf(w, word, pulls, pushes),
         NEW granted, granted = Granted(Eligible(w, word), rr)
  PROVE  HeldRead'
<1> SUFFICES ASSUME snapshot' # None
             PROVE  window' = 3 /\ Valid(rx'[selected']) /\ snapshot' = Head(rx'[selected'])
  BY DEF HeldRead, Valid
<1>1. selected \in Engines
  BY DEF MoverInv, MoverTypeOK
<1>2. /\ snapshot' = IF ~Steady(w) \/ word.kind = "rx" THEN None
                     ELSE IF w = 3 /\ snapshot = None /\ Valid(rx[selected])
                          THEN Head(rx[selected]) ELSE snapshot
      /\ window' = w
      /\ selected' = IF word.kind = "select" THEN word.engine ELSE selected
  BY DEF EdgeOf, Edge, Snapshot
<1>3. w = window /\ word.kind # "rx"
  BY <1>2 DEF Steady
<1>4. w = 3 /\ Valid(rx[selected]) /\ snapshot' = Head(rx[selected])
  <2>1. CASE snapshot = None
    BY <1>2, <1>3, <2>1
  <2>2. CASE snapshot # None
    BY <1>2, <1>3, <2>2 DEF MoverInv, HeldRead
  <2> QED
    BY <2>1, <2>2
<1>5. word.kind # "select" /\ word.kind # "flush"
  BY <1>4 DEF EdgeOf, Completes
<1>6. ~Flushes(selected, word) /\ ~Pops(selected, word, granted)
  <2>1. selected \notin granted
    BY <1>3, <1>4, Grants
  <2> QED
    BY <1>3, <1>5, <2>1 DEF Flushes, Pops
<1>7. Valid(rx'[selected]) /\ Head(rx'[selected]) = Head(rx[selected])
  BY <1>1, <1>4, <1>6, RxAfter
<1> QED
  BY <1>2, <1>4, <1>5, <1>7

\* ... and the types.
LEMMA TypesKept ==
  ASSUME MoverInv, NEW w, NEW word, NEW pulls, NEW pushes, EdgeOf(w, word, pulls, pushes),
         NEW granted, granted = Granted(Eligible(w, word), rr)
  PROVE  MoverTypeOK' /\ Bounded' /\ Ordered'
<1> USE MoverAssumption
<1>1. word \in HostWords /\ w \in Windows
  BY DEF EdgeOf
<1>2. selected' \in Engines
  <2>1. ASSUME word.kind = "select"
        PROVE  word.engine \in Engines
    BY <1>1, <2>1 DEF HostWords, NoWord
  <2> QED
    BY <2>1 DEF EdgeOf, Edge, MoverInv, MoverTypeOK
<1>3. window' \in Windows /\ wordDone' \in BOOLEAN
  BY <1>1 DEF EdgeOf, Edge
<1>4. /\ tx' \in [Engines -> Seq(AllWords)] /\ rx' \in [Engines -> Seq(AllWords)]
      /\ Bounded' /\ Ordered'
  <2>1. tx' = [k \in Engines |-> tx'[k]] /\ rx' = [k \in Engines |-> rx'[k]]
    BY DEF EdgeOf, Edge, Queues
  <2>2. \A k \in Engines :
          /\ tx'[k] \in Seq(AllWords) /\ Len(tx'[k]) \in 0 .. Depth /\ Sorted(tx'[k])
          /\ rx'[k] \in Seq(AllWords) /\ Len(rx'[k]) \in 0 .. Depth /\ Sorted(rx'[k])
    BY TxAfter, RxAfter
  <2>3. tx' \in [Engines -> Seq(AllWords)] /\ rx' \in [Engines -> Seq(AllWords)]
    BY <2>1, <2>2
  <2>4. Bounded'
    BY <2>2 DEF Bounded
  <2>5. Ordered'
    BY <2>2 DEF Ordered, Sorted, Older
  <2> QED
    BY <2>3, <2>4, <2>5
<1>5. ASSUME word.kind = "route"
      PROVE  word.count \in 0 .. MaxRoute /\ word.dest \in Engines
  BY <1>1, <1>5 DEF HostWords, NoWord
<1>6. routeCount' \in [Engines -> 0 .. MaxRoute]
  <2>1. routeCount \in [Engines -> 0 .. MaxRoute]
    BY DEF MoverInv, MoverTypeOK
  <2>2. ASSUME NEW k \in granted, k \in Engines
        PROVE  routeCount[k] - 1 \in 0 .. MaxRoute
    <3>1. routeCount[k] # 0 /\ routeCount[k] \in 0 .. MaxRoute
      BY <2>1, <2>2, Grants
    <3> QED
      BY <3>1
  <2>3. routeCount' =
          [k \in Engines |->
             IF word.kind = "flush" /\ selected \in {k, routeDest[k]} THEN 0
             ELSE IF word.kind = "route" /\ word.source = k THEN word.count
             ELSE IF k \in granted THEN routeCount[k] - 1
             ELSE routeCount[k]]
    BY DEF EdgeOf, Edge, Routes
  <2>4. 0 \in 0 .. MaxRoute
    OBVIOUS
  <2> HIDE MoverAssumption
  <2> QED
    BY <1>5, <2>1, <2>2, <2>3, <2>4
<1>7. routeDest' \in [Engines -> Engines]
  BY <1>5 DEF EdgeOf, Edge, Routes, MoverInv, MoverTypeOK
<1>8. rr' \in Engines
  BY Grants DEF EdgeOf, Edge
<1>9. sent' \in [Origins -> Nat]
  BY SentGrows
<1> QED
  BY <1>2, <1>3, <1>4, <1>6, <1>7, <1>8, <1>9 DEF MoverTypeOK

\* An edge keeps the invariant.
LEMMA EdgeKeeps ==
  ASSUME MoverInv, NEW w, NEW word, NEW pulls, NEW pushes, EdgeOf(w, word, pulls, pushes)
  PROVE  MoverInv'
<1> DEFINE granted == Granted(Eligible(w, word), rr)
<1>1. granted = Granted(Eligible(w, word), rr)
  OBVIOUS
<1> HIDE DEF granted
<1>2. MoverTypeOK' /\ Bounded' /\ Ordered'
  BY <1>1, TypesKept
<1>3. OwnWords' /\ Behind' /\ Apart'
  BY <1>1, OwnWordsKept, BehindKept, ApartKept
<1>4. Kept' /\ HeldRead'
  BY <1>1, KeptKept, ReadStaysHeld
<1> QED
  BY <1>2, <1>3, <1>4 DEF MoverInv

\* The queues are empty at first.
LEMMA MoverStarts ==
  Init => MoverInv
<1> SUFFICES ASSUME Init PROVE MoverInv
  OBVIOUS
<1> USE MoverAssumption, CountAssumption
<1>1. 0 \in Engines /\ 0 \in 0 .. MaxRoute /\ 0 \in Windows
  BY DEF Engines, Windows
<1>2. \A k \in Engines : tx[k] = << >> /\ rx[k] = << >>
  BY DEF Init
<1>3. MoverTypeOK
  BY <1>1 DEF Init, MoverTypeOK
<1>4. Bounded /\ Ordered
  BY <1>2 DEF Bounded, Ordered, Sorted
<1>5. \A k \in Engines : InQueue(tx[k]) = {} /\ InQueue(rx[k]) = {}
  BY <1>2 DEF InQueue
<1>6. OwnWords /\ Behind /\ Apart
  BY <1>5 DEF OwnWords, Behind, Apart
<1>7. SentWords = {}
  BY DEF Init, SentWords
<1>8. Kept
  BY <1>5, <1>7 DEF Init, Kept, Held
<1>9. HeldRead
  BY DEF Init, HeldRead
<1> QED
  BY <1>3, <1>4, <1>6, <1>8, <1>9 DEF MoverInv

\* A reset empties them.
LEMMA ResetKeeps ==
  ASSUME MoverInv, Reset
  PROVE  MoverInv'
<1> USE MoverAssumption, CountAssumption
<1>1. 0 \in Engines /\ 0 \in 0 .. MaxRoute /\ 0 \in Windows
  BY DEF Engines, Windows
<1>2. \A k \in Engines : tx'[k] = << >> /\ rx'[k] = << >>
  BY DEF Reset
<1>3. MoverTypeOK'
  <2>1. sent' = sent /\ sent \in [Origins -> Nat]
    BY DEF Reset, MoverTypeOK, MoverInv
  <2>2. /\ selected' \in Engines /\ window' \in Windows /\ wordDone' \in BOOLEAN
        /\ tx' \in [Engines -> Seq(AllWords)] /\ rx' \in [Engines -> Seq(AllWords)]
        /\ routeCount' \in [Engines -> 0 .. MaxRoute] /\ routeDest' \in [Engines -> Engines]
        /\ rr' \in Engines
    BY <1>1 DEF Reset
  <2> QED
    BY <2>1, <2>2 DEF MoverTypeOK
<1>4. Bounded' /\ Ordered'
  BY <1>2 DEF Bounded, Ordered, Sorted
<1>5. \A k \in Engines : InQueue(tx'[k]) = {} /\ InQueue(rx'[k]) = {}
  BY <1>2 DEF InQueue
<1>6. OwnWords' /\ Behind' /\ Apart'
  BY <1>5 DEF OwnWords, Behind, Apart, InQueue
<1>7. SentWords' = SentWords /\ gone' = SentWords
  BY DEF Reset, SentWords
<1>8. Kept'
  <2>1. \A v : v \notin Held'
    BY <1>5, HeldAreNext
  <2> QED
    BY <1>7, <2>1 DEF Kept
<1>9. HeldRead'
  BY DEF Reset, HeldRead
<1> QED
  BY <1>3, <1>4, <1>6, <1>8, <1>9 DEF MoverInv

\* A step elsewhere changes none.
LEMMA StutterKeeps ==
  ASSUME MoverInv, UNCHANGED vars
  PROVE  MoverInv'
<1>1. /\ selected' = selected /\ window' = window /\ snapshot' = snapshot
      /\ wordDone' = wordDone /\ tx' = tx /\ rx' = rx /\ routeCount' = routeCount
      /\ routeDest' = routeDest /\ rr' = rr /\ sent' = sent /\ gone' = gone
  BY DEF vars, routeVars
<1>2. MoverTypeOK' /\ Bounded' /\ Ordered'
  BY <1>1 DEF MoverInv, MoverTypeOK, Bounded, Ordered, Sorted
<1>3. OwnWords' /\ Behind' /\ Apart'
  BY <1>1 DEF MoverInv, OwnWords, Behind, Apart, InQueue
<1>4. SentWords' = SentWords
  BY <1>1 DEF SentWords
<1>5. Held' = Held
  BY <1>1 DEF Held, InQueue
<1>6. Kept'
  BY <1>1, <1>4, <1>5 DEF MoverInv, Kept
<1>7. HeldRead'
  BY <1>1 DEF MoverInv, HeldRead, Valid
<1> QED
  BY <1>2, <1>3, <1>6, <1>7 DEF MoverInv

(* Every reachable state of the queues satisfies the invariant.            *)
LEMMA MoverInvariant == Spec => []MoverInv
<1>1. Init => MoverInv
  BY MoverStarts
<1>2. MoverInv /\ [Next]_vars => MoverInv'
  BY MoverSteps, EdgeKeeps, ResetKeeps, StutterKeeps
<1> QED
  BY <1>1, <1>2, PTL DEF Spec

-----------------------------------------------------------------------------
(* TypeOK: every register keeps its width, no queue outgrows its depth and *)
(* every word in a queue was put in by someone (processor.ml 171-189,      *)
(* 231-283).                                                               *)
THEOREM QueuesTyped == Spec => []TypeOK
<1>1. ASSUME MoverInv
      PROVE  TypeOK
  <2>1. \A k \in Engines :
          /\ Len(tx[k]) \in 0 .. Depth /\ InQueue(tx[k]) \subseteq SentWords
          /\ Len(rx[k]) \in 0 .. Depth /\ InQueue(rx[k]) \subseteq SentWords
    BY <1>1, HeldWords
  <2>2. snapshot \in SentWords \cup {None}
    <3>1. ASSUME snapshot # None
          PROVE  snapshot \in SentWords
      <4>1. selected \in Engines /\ Valid(rx[selected]) /\ snapshot = Head(rx[selected])
        BY <1>1, <3>1 DEF MoverInv, MoverTypeOK, HeldRead
      <4>2. rx[selected] \in Seq(AllWords)
        BY <1>1, <4>1, HeldWords
      <4>3. snapshot \in InQueue(rx[selected])
        BY <4>1, <4>2, QueueWords
      <4> QED
        BY <2>1, <4>1, <4>3
    <3> QED
      BY <3>1
  <2> QED
    BY <1>1, <2>1, <2>2 DEF TypeOK, MoverInv, MoverTypeOK, Kept
<1> QED
  BY <1>1, MoverInvariant, PTL

(* HeldRead: the word the host is reading nibble by nibble is still the    *)
(* oldest of the selected RX queue when its last nibble pops it, whatever  *)
(* the mover and the engines do meanwhile (host.ml 10-11, 46, 79;          *)
(* processor.ml 231-246).                                                  *)
THEOREM HeldReadsHold == Spec => []HeldRead
<1>1. MoverInv => HeldRead
  BY DEF MoverInv
<1> QED
  BY <1>1, MoverInvariant, PTL

-----------------------------------------------------------------------------
(* Counting the places of a word.                                          *)
LEMMA CopiesOf ==
  ASSUME NEW queues,
         \A k \in Engines :
           queues[k] \in Seq(AllWords) /\ Len(queues[k]) \in 0 .. Depth /\ Sorted(queues[k]),
         NEW v,
         \A d, e \in Engines :
           v \in InQueue(queues[d]) /\ v \in InQueue(queues[e]) => d = e
  PROVE  Copies(queues, v) = IF \E k \in Engines : v \in InQueue(queues[k]) THEN 1 ELSE 0
<1> USE MoverAssumption
<1> DEFINE places == {place \in Engines \X (1 .. Depth) :
                        LET queue == queues[place[1]]
                        IN  place[2] \in DOMAIN queue /\ queue[place[2]] = v}
<1>1. ASSUME NEW place \in places
      PROVE  /\ place[1] \in Engines /\ place = <<place[1], place[2]>>
             /\ place[2] \in DOMAIN queues[place[1]] /\ queues[place[1]][place[2]] = v
             /\ v \in InQueue(queues[place[1]])
  BY DEF InQueue
<1>2. ASSUME NEW k \in Engines, NEW i \in DOMAIN queues[k], queues[k][i] = v
      PROVE  <<k, i>> \in places
  <2>1. Len(queues[k]) \in 0 .. Depth /\ DOMAIN queues[k] = 1 .. Len(queues[k])
    BY QueueWords
  <2>2. i \in 1 .. Depth
    BY <2>1
  <2> QED
    BY <1>2, <2>2
<1>3. Copies(queues, v) = Cardinality(places)
  BY DEF Copies
<1> HIDE DEF places
<1>4. CASE \A k \in Engines : v \notin InQueue(queues[k])
  <2>1. places = {}
    BY <1>1, <1>4
  <2> QED
    BY <1>3, <1>4, <2>1, FS_EmptySet
<1>5. CASE \E k \in Engines : v \in InQueue(queues[k])
  <2>1. PICK k \in Engines : v \in InQueue(queues[k])
    BY <1>5
  <2>2. PICK i \in DOMAIN queues[k] : queues[k][i] = v
    BY <2>1 DEF InQueue
  <2>3. ASSUME NEW place \in places
        PROVE  place = <<k, i>>
    <3>1. place[1] = k
      BY <1>1, <2>1
    <3> DEFINE j == place[2]
    <3>2. j \in DOMAIN queues[k] /\ queues[k][j] = v
      BY <1>1, <3>1
    <3>3. DOMAIN queues[k] = 1 .. Len(queues[k]) /\ v \in AllWords
      BY <2>1, QueueWords
    <3>4. ~Older(v, v)
      BY <3>3, OlderDiffers
    <3>5. ~(i < j) /\ ~(j < i)
      BY <2>2, <3>2, <3>4 DEF Sorted
    <3>6. i = j
      BY <2>2, <3>2, <3>3, <3>5
    <3> QED
      BY <1>1, <3>1, <3>6
  <2>4. places = {<<k, i>>}
    BY <1>2, <2>2, <2>3
  <2>5. Cardinality(places) = 1
    BY <2>4, FS_Singleton
  <2> QED
    BY <1>3, <1>5, <2>5
<1> QED
  BY <1>4, <1>5

(* WordsKept: whatever the host, the engines and the mover do on the same  *)
(* edges, each word accepted is in exactly one place of one queue until    *)
(* its reader, a FLUSH or a reset takes it, and the words of one origin    *)
(* keep their order, forwarded ones included (processor.ml 171-189,        *)
(* 231-246, 277-283).                                                      *)
THEOREM WordsAreKept == Spec => []WordsKept
<1>1. ASSUME MoverInv
      PROVE  Conservation
  <2> SUFFICES ASSUME NEW v \in SentWords
               PROVE  Copies(tx, v) + Copies(rx, v) = IF v \in gone THEN 0 ELSE 1
    BY DEF Conservation
  <2>1. \A k \in Engines :
          /\ tx[k] \in Seq(AllWords) /\ Len(tx[k]) \in 0 .. Depth /\ Sorted(tx[k])
          /\ rx[k] \in Seq(AllWords) /\ Len(rx[k]) \in 0 .. Depth /\ Sorted(rx[k])
    BY <1>1, HeldWords
  <2>2. \A d, e \in Engines :
          /\ v \in InQueue(tx[d]) /\ v \in InQueue(tx[e]) => d = e
          /\ v \in InQueue(tx[d]) => v \notin InQueue(rx[e])
          /\ v \in InQueue(rx[d]) /\ v \in InQueue(rx[e]) => d = e
    BY <1>1, OnePlace
  <2>3. Copies(tx, v) = IF \E k \in Engines : v \in InQueue(tx[k]) THEN 1 ELSE 0
    BY <2>1, <2>2, CopiesOf
  <2>4. Copies(rx, v) = IF \E k \in Engines : v \in InQueue(rx[k]) THEN 1 ELSE 0
    BY <2>1, <2>2, CopiesOf
  <2>5. v \in gone <=> ~\E k \in Engines : v \in InQueue(tx[k]) \/ v \in InQueue(rx[k])
    BY <1>1, HeldAre DEF MoverInv, Kept
  <2> QED
    BY <2>2, <2>3, <2>4, <2>5
<1>2. MoverInv => InOrder
  BY DEF MoverInv, Ordered, Sorted, Behind, InOrder
<1> QED
  BY <1>1, <1>2, MoverInvariant, PTL DEF WordsKept
=============================================================================

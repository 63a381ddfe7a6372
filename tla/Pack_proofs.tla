---------------------------- MODULE Pack_proofs -----------------------------
(***************************************************************************)
(* What is proved of Pack, for all sizes of frames and any number of       *)
(* calls. The invariant says that the list has the frames Sort finds, and  *)
(* that each frame placed in the attempt under way has a node of the tree  *)
(* to itself; of the tree, only what is proved of cNode is used.           *)
(* PackAssumption is a hypothesis of the lemmas that need it, because Pack *)
(* is used with other constants elsewhere.                                 *)
(***************************************************************************)
EXTENDS Pack, ListLemmas

(* The for loop of one pass of cFrame::Sort over n frames with keys K, of  *)
(* which those in L are listed already: g[f] is what it has found after f  *)
(* frames.                                                                 *)
Pass(n, K, L, g) ==
  g = [f \in 0 .. n |->
        CASE f = 0 -> [frame |-> 0, key |-> -1]
          [] f # 0 /\ f \notin L /\ K[f] > g[f - 1].key -> [frame |-> f, key |-> K[f]]
          [] OTHER -> g[f - 1]]

(* There is such a function: Best is what it says it is.                   *)
LEMMA PassExists ==
  ASSUME NEW n \in Nat, NEW K, NEW L
  PROVE  \E g : Pass(n, K, L, g)
<1> DEFINE S == {k \in Nat : \E g : Pass(k, K, L, g)}
<1>1. 0 \in S
  <2> DEFINE g == [f \in 0 .. 0 |-> [frame |-> 0, key |-> -1]]
  <2>1. Pass(0, K, L, g)
    BY DEF Pass
  <2> QED
    BY <2>1
<1>2. ASSUME NEW k \in Nat, k \in S PROVE k + 1 \in S
  <2>1. PICK g : Pass(k, K, L, g)
    BY <1>2
  <2>2. g = [f \in 0 .. k |->
        CASE f = 0 -> [frame |-> 0, key |-> -1]
          [] f # 0 /\ f \notin L /\ K[f] > g[f - 1].key -> [frame |-> f, key |-> K[f]]
          [] OTHER -> g[f - 1]]
    BY <2>1 DEF Pass
  <2> DEFINE E(f, p) == CASE f = 0 -> [frame |-> 0, key |-> -1]
          [] f # 0 /\ f \notin L /\ K[f] > p.key -> [frame |-> f, key |-> K[f]]
          [] OTHER -> p
             h == [f \in 0 .. k + 1 |-> IF f = k + 1 THEN E(k + 1, g[k]) ELSE g[f]]
  <2>3. \A f \in 0 .. k : g[f] = E(f, g[f - 1])
    BY <2>2
  <2>4. \A f \in 0 .. k : f # 0 => f - 1 \in 0 .. k
    OBVIOUS
  <2>5. \A p, q : E(0, p) = E(0, q)
    OBVIOUS
  <2> HIDE DEF E
  <2>6. ASSUME NEW f \in 0 .. k + 1 PROVE h[f] = E(f, h[f - 1])
    <3>1. CASE f = k + 1
      <4>1. k \in 0 .. k + 1 /\ k # k + 1 /\ k + 1 - 1 = k /\ k + 1 \in 0 .. k + 1
        OBVIOUS
      <4> QED
        BY <3>1, <4>1
    <3>2. CASE f # k + 1
      <4>1. f \in 0 .. k /\ h[f] = g[f]
        BY <3>2
      <4>2. CASE f = 0
        BY <4>1, <4>2, <2>3, <2>5
      <4>3. CASE f # 0
        <5>1. f - 1 \in 0 .. k + 1 /\ f - 1 # k + 1
          BY <4>3
        <5>2. h[f - 1] = g[f - 1]
          BY <5>1
        <5> QED
          BY <4>1, <5>2, <2>3
      <4> QED
        BY <4>2, <4>3
    <3> QED
      BY <3>1, <3>2
  <2>7. h = [f \in 0 .. k + 1 |-> E(f, h[f - 1])]
    <3> DEFINE hh == [f \in 0 .. k + 1 |-> E(f, h[f - 1])]
    <3>1. \A f \in 0 .. k + 1 : h[f] = hh[f]
      BY <2>6
    <3> QED
      BY <3>1
  <2>8. Pass(k + 1, K, L, h)
    <3> HIDE DEF h
    <3> USE DEF E
    <3> QED
      BY <2>7 DEF Pass
  <2> QED
    BY <2>8
<1> HIDE DEF S
<1>3. Nat \subseteq S
  BY <1>1, <1>2, NatSetInduction
<1> QED
  BY <1>3 DEF S

(* The loop finds the frame with the largest key that is not listed yet,   *)
(* the first of them if there are more.  It finds none only if all the     *)
(* others have keys below 0, which -1, the key it begins with, is not      *)
(* below.                                                                  *)
LEMMA PassFindsBest ==
  ASSUME NEW n \in Nat, NEW K \in [1 .. n -> Int], NEW L, NEW g, Pass(n, K, L, g)
  PROVE  LET b == g[n].frame IN
           \/ b = 0 /\ \A f \in 1 .. n : f \in L \/ K[f] < 0
           \/ /\ b \in (1 .. n) \ L /\ K[b] >= 0
              /\ \A f \in (1 .. n) \ L : K[b] > K[f] \/ (K[b] = K[f] /\ b <= f)
<1> DEFINE Seen(k) ==
      \/ /\ g[k].frame = 0 /\ g[k].key = -1
         /\ \A f \in 1 .. k : f \in L \/ K[f] < 0
      \/ /\ g[k].frame \in (1 .. k) \ L
         /\ g[k].key = K[g[k].frame] /\ g[k].key >= 0
         /\ \A f \in (1 .. k) \ L :
              g[k].key > K[f] \/ (g[k].key = K[f] /\ g[k].frame <= f)
    S == {k \in Nat : k <= n => Seen(k)}
<1>1. /\ g[0] = [frame |-> 0, key |-> -1]
      /\ \A f \in 1 .. n : g[f] = IF f \notin L /\ K[f] > g[f - 1].key
                                  THEN [frame |-> f, key |-> K[f]] ELSE g[f - 1]
  BY DEF Pass
<1>2. 0 \in S
  BY <1>1
<1>3. ASSUME NEW k \in Nat, k \in S PROVE k + 1 \in S
  <2>1. CASE k + 1 > n
    BY <2>1
  <2>2. CASE k + 1 <= n
    <3> DEFINE p == g[k]
               q == g[k + 1]
    <3>1. k + 1 \in 1 .. n /\ k + 1 - 1 = k /\ k <= n
      BY <2>2
    <3>2. q = IF k + 1 \notin L /\ K[k + 1] > p.key
              THEN [frame |-> k + 1, key |-> K[k + 1]] ELSE p
      BY <3>1, <1>1
    <3>3. Seen(k)
      BY <1>3, <3>1
    <3>4. \A f \in 1 .. n : K[f] \in Int
      OBVIOUS
    <3>5. 1 .. k + 1 = (1 .. k) \cup {k + 1} /\ \A f \in 1 .. k : f \in 1 .. n /\ f < k + 1
      BY <3>1
    <3>6. p.key \in Int
      BY <3>3, <3>4, <3>5
    <3>7. CASE k + 1 \in L
      <4>1. q = p
        BY <3>2, <3>7
      <4> HIDE DEF p, q
      <4>2. Seen(k + 1)
        BY <4>1, <3>3, <3>5, <3>7 DEF p, q
      <4> QED
        BY <4>2
    <3>8. CASE k + 1 \notin L /\ K[k + 1] > p.key
      <4>1. q.frame = k + 1 /\ q.key = K[k + 1]
        BY <3>2, <3>8
      <4>2. \A f \in (1 .. k) \ L : q.key > K[f]
        <5> TAKE f \in (1 .. k) \ L
        <5>1. K[f] \in Int /\ K[k + 1] \in Int /\ q.key = K[k + 1] /\ K[k + 1] > p.key
          BY <4>1, <3>8, <3>4, <3>5, <3>1
        <5>2. p.key > K[f] \/ p.key = K[f]
          <6>1. (p.key = -1 /\ K[f] < 0) \/ p.key > K[f] \/ p.key = K[f]
            BY <3>3
          <6> HIDE DEF p, q
          <6> QED
            BY <5>1, <6>1
        <5> HIDE DEF p, q
        <5> QED
          BY <5>1, <5>2, <3>6
      <4>3. \A f \in (1 .. k + 1) \ L : q.key > K[f] \/ (q.key = K[f] /\ q.frame <= f)
        BY <4>1, <4>2, <3>5, <3>1, <3>4
      <4>4. q.key >= 0
        <5>1. p.key = -1 \/ p.key >= 0
          BY <3>3
        <5> HIDE DEF p, q
        <5> QED
          BY <4>1, <5>1, <3>6, <3>8, <3>4, <3>1
      <4>5. Seen(k + 1)
        BY <4>1, <4>3, <4>4, <3>8, <3>1
      <4> QED
        BY <4>5
    <3>9. CASE k + 1 \notin L /\ ~(K[k + 1] > p.key)
      <4>1. q = p
        BY <3>2, <3>9
      <4>2. K[k + 1] \in Int /\ p.key >= K[k + 1]
        BY <3>9, <3>4, <3>1, <3>6
      <4>3. CASE p.key = -1
        <5>1. p.frame = 0 /\ \A f \in 1 .. k : f \in L \/ K[f] < 0
          BY <4>3, <3>3
        <5>2. K[k + 1] < 0
          BY <4>2, <4>3
        <5>3. \A f \in 1 .. k + 1 : f \in L \/ K[f] < 0
          BY <5>1, <5>2, <3>5
        <5>4. Seen(k + 1)
          BY <4>1, <4>3, <5>1, <5>3
        <5> QED
          BY <5>4
      <4>4. CASE p.key # -1
        <5>1. /\ p.frame \in (1 .. k) \ L
              /\ p.key = K[p.frame] /\ p.key >= 0
              /\ \A f \in (1 .. k) \ L : p.key > K[f] \/ (p.key = K[f] /\ p.frame <= f)
          BY <4>4, <3>3
        <5>2. p.key > K[k + 1] \/ (p.key = K[k + 1] /\ p.frame <= k + 1)
          BY <4>2, <5>1, <3>6
        <5>3. \A f \in (1 .. k + 1) \ L : q.key > K[f] \/ (q.key = K[f] /\ q.frame <= f)
          BY <4>1, <5>1, <5>2, <3>5
        <5>4. Seen(k + 1)
          BY <4>1, <5>1, <5>3, <3>5
        <5> QED
          BY <5>4
      <4> QED
        BY <4>3, <4>4
    <3> QED
      BY <3>7, <3>8, <3>9
  <2> QED
    BY <2>1, <2>2
<1> HIDE DEF S
<1>4. n \in S
  BY <1>2, <1>3, NatSetInduction
<1>5. Seen(n)
  BY <1>4 DEF S
<1> QED
  BY <1>5

(* The elements of a sequence.                                             *)
LEMMA ElementsOf ==
  ASSUME NEW S, NEW s \in Seq(S)
  PROVE  /\ Len(s) \in Nat /\ DOMAIN s = 1 .. Len(s)
         /\ \A f \in 1 .. Len(s) : s[f] \in S
OBVIOUS

(* For the keys: products of widths and heights.                           *)
LEMMA ProductIsNat == \A a, b \in Nat : a * b \in Nat
OBVIOUS

(* What a number of bits holds is an integer,                              *)
LEMMA SignedIsInt ==
  ASSUME NEW bits \in Nat \ {0}, NEW x \in Int
  PROVE  Signed(bits, x) \in Int
<1> DEFINE M == TwoTo[bits]
           H == TwoTo[bits - 1]
<1>1. M \in Nat \ {0}
  BY TwoToIsNat
<1>2. Signed(bits, x) = LET m == x % M IN IF m >= H THEN m - M ELSE m
  BY DEF Signed
<1> HIDE DEF M, H
<1>3. x % M \in Int
  BY <1>1
<1> QED
  BY <1>1, <1>2, <1>3

(* and the number itself if it needs fewer bits.                           *)
LEMMA SignedExact ==
  ASSUME NEW bits \in Nat \ {0}, NEW x \in Nat, x < TwoTo[bits - 1]
  PROVE  Signed(bits, x) = x
<1> DEFINE M == TwoTo[bits]
           H == TwoTo[bits - 1]
<1>1. bits - 1 \in Nat /\ (bits - 1) + 1 = bits
  OBVIOUS
<1>2. M \in Nat \ {0} /\ M = 2 * H /\ H \in Nat \ {0}
  BY <1>1, TwoToNext, TwoToIsNat
<1>3. Signed(bits, x) = LET m == x % M IN IF m >= H THEN m - M ELSE m
  BY DEF Signed
<1> HIDE DEF M, H
<1>4. x % M = x
  <2>1. x < H
    BY DEF H
  <2> QED
    BY <1>2, <2>1
<1>5. x < H
  BY DEF H
<1> QED
  BY <1>2, <1>3, <1>4, <1>5

(* A key is an integer: it may have wrapped.                               *)
LEMMA KeyIsInt ==
  ASSUME PackAssumption, NEW s \in [w : Nat, h : Nat], NEW m \in Methods
  PROVE  Key(s, m) \in Int
<1>1. s.w \in Nat /\ s.h \in Nat
  OBVIOUS
<1>2. s.w * s.h \in Nat /\ s.w * s.w \in Nat /\ s.h * s.h \in Nat
  BY <1>1, ProductIsNat
<1>3. (s.w * s.w) * (s.h * s.h) \in Nat
  BY <1>2, ProductIsNat
<1>4. 2 * LongBits \in Nat \ {0}
  BY DEF PackAssumption
<1>5. LongLong(s.w * s.h) \in Int /\ LongLong((s.w * s.w) * (s.h * s.h)) \in Int
  BY <1>2, <1>3, <1>4, SignedIsInt DEF LongLong
<1>6. m \in {0, 1, 2, 3}
  BY DEF Methods
<1> QED
  BY <1>1, <1>5, <1>6 DEF Key

(* What a pass of cFrame::Sort finds.                                      *)
LEMMA BestOfRest ==
  ASSUME PackAssumption, NEW list, NEW m \in Methods, size \in Seq([w : Nat, h : Nat])
  PROVE  LET b == Best(list, m) IN
           \/ b = 0 /\ \A f \in Frames : f \in ToSet(list) \/ Key(size[f], m) < 0
           \/ /\ b \in Frames \ ToSet(list) /\ Key(size[b], m) >= 0
              /\ \A f \in Frames \ ToSet(list) :
                   \/ Key(size[b], m) > Key(size[f], m)
                   \/ Key(size[b], m) = Key(size[f], m) /\ b <= f
<1> DEFINE n == Len(size)
           L == ToSet(list)
           K == [f \in 1 .. n |-> Key(size[f], m)]
<1>1. n \in Nat /\ Frames = 1 .. n /\ \A f \in 1 .. n : size[f] \in [w : Nat, h : Nat]
  BY ElementsOf DEF Frames
<1>2. K \in [1 .. n -> Int]
  BY <1>1, KeyIsInt
<1> DEFINE Body(g) == [f \in 0 .. n |->
        CASE f = 0 -> [frame |-> 0, key |-> -1]
          [] f # 0 /\ f \notin L /\ Key(size[f], m) > g[f - 1].key ->
               [frame |-> f, key |-> Key(size[f], m)]
          [] OTHER -> g[f - 1]]
<1>3. ASSUME NEW g PROVE (g = Body(g)) <=> Pass(n, K, L, g)
  <2> DEFINE B2 == [f \in 0 .. n |->
        CASE f = 0 -> [frame |-> 0, key |-> -1]
          [] f # 0 /\ f \notin L /\ K[f] > g[f - 1].key ->
               [frame |-> f, key |-> K[f]]
          [] OTHER -> g[f - 1]]
  <2>1. \A f \in 0 .. n : f # 0 => K[f] = Key(size[f], m)
    BY <1>1
  <2> HIDE DEF K, L
  <2>2. \A f \in 0 .. n : Body(g)[f] = B2[f]
    BY <2>1
  <2>3. Body(g) = B2
    BY <2>2
  <2> QED
    BY <2>3 DEF Pass
<1>4. PICK h : h = Body(h)
  BY <1>1, <1>3, PassExists
<1> DEFINE best == CHOOSE g : g = Body(g)
<1>5. best = Body(best)
  BY <1>4
<1>6. Best(list, m) = best[n].frame
  BY DEF Best
<1>7. Pass(n, K, L, best)
  BY <1>5, <1>3
<1> HIDE DEF best
<1>8. LET b == best[n].frame IN
           \/ b = 0 /\ \A f \in 1 .. n : f \in L \/ K[f] < 0
           \/ /\ b \in (1 .. n) \ L /\ K[b] >= 0
              /\ \A f \in (1 .. n) \ L : K[b] > K[f] \/ (K[b] = K[f] /\ b <= f)
  <2> HIDE DEF n, K, L
  <2> QED
    BY <1>1, <1>2, <1>7, PassFindsBest
<1> QED
  BY <1>1, <1>6, <1>8

(* Roots and boxes of any size: what is proved of cNode is used for these, *)
(* so that nothing has to be known of the sides that doubling and overflow *)
(* lead to.                                                                *)
Boxes == [w : Nat \ {0}, h : Nat \ {0}]

(* The theorems about cNode                                                *)
T == INSTANCE cNode_proofs WITH RootSizes <- Boxes, BoxSizes <- Boxes

(* The assumption of cNode holds for them.                                 *)
LEMMA BoxesAreSizes == Boxes \subseteq T!Size
BY DEF Boxes, T!Size

(* The tree of Pack is that tree.                                          *)
LEMMA TreeVisit == Tree!Visit <=> T!Visit
BY DEF Tree!Visit, T!Visit, Tree!Descend, T!Descend, Tree!Refuse, T!Refuse,
       Tree!Take, T!Take, Tree!Split, T!Split, Tree!IsLeaf, T!IsLeaf,
       Tree!Fits, T!Fits, Tree!FitsExactly, T!FitsExactly, Tree!Null, T!Null,
       Tree!Halves, T!Halves, Tree!NewNode, T!NewNode, Tree!Larger, T!Larger, Larger

(* The same for Insert,                                                    *)
LEMMA TreeInsert == \A b : Tree!Insert(b) <=> T!Insert(b)
BY DEF Tree!Insert, T!Insert, Tree!Root, T!Root

(* and for a new root.                                                     *)
LEMMA TreeRoot == \A r : Tree!SetRoot(r) <=> T!SetRoot(r)
BY DEF Tree!SetRoot, T!SetRoot, Tree!NewNode, T!NewNode, Tree!Null, T!Null

(* What is proved of cNode                                                 *)
TreeOK == T!TypeOK /\ T!InsideRoot /\ T!LeavesTile

(* It holds of a new tree,                                                 *)
LEMMA TreeInit == T!Init => TreeOK
BY T!TypeInit, T!InsideInit, T!TileInit, BoxesAreSizes DEF TreeOK

(* also if it is made by a step,                                           *)
LEMMA TreeInitNext == T!Init' => TreeOK'
BY TreeInit, PTL

(* and after each step.                                                    *)
LEMMA TreeStep == TreeOK /\ [T!Next]_T!vars => TreeOK'
BY T!TypeStep, T!InsideStep, T!TileStep, BoxesAreSizes DEF TreeOK

(* Two records that cover the same pixels                                  *)
SameRect(r, s) == r.x = s.x /\ r.y = s.y /\ r.w = s.w /\ r.h = s.h

(* Visiting a node moves none, and what is used stays used.                *)
LEMMA VisitKeeps ==
  ASSUME TreeOK, T!Visit
  PROVE  /\ TreeOK'
         /\ \A m \in T!Nodes : /\ m \in T!Nodes'
                               /\ SameRect(heap'[m], heap[m])
                               /\ heap[m].used => heap'[m].used
<1>1. [T!Next]_T!vars
  BY DEF T!Next
<1>2. TreeOK'
  BY <1>1, TreeStep
<1>3. ~ \E r \in Boxes : T!SetRoot(r)
  BY DEF T!Visit, T!SetRoot
<1>4. ASSUME NEW m \in T!Nodes
      PROVE  m \in T!Nodes' /\ SameRect(heap'[m], heap[m])
  BY <1>1, <1>3, T!NodesStay, BoxesAreSizes DEF TreeOK, T!SamePlace, SameRect
<1>5. PICK n \in T!Nodes : T!Descend(n) \/ T!Refuse(n) \/ T!Take(n) \/ T!Split(n)
  BY T!VisitedNode, BoxesAreSizes DEF TreeOK, T!Visit
<1>6. ASSUME NEW m \in T!Nodes, heap[m].used
      PROVE  heap'[m].used
  <2>1. CASE T!Descend(n) \/ T!Refuse(n)
    BY <1>6, <2>1 DEF T!Descend, T!Refuse
  <2>2. CASE T!Take(n)
    BY <1>6, <2>2, T!TakeNode, BoxesAreSizes DEF TreeOK
  <2>3. CASE T!Split(n)
    <3>1. T!UsedNodes' = T!UsedNodes
      BY <2>3, T!SplitUsed, BoxesAreSizes DEF TreeOK
    <3> QED
      BY <1>6, <3>1 DEF T!UsedNodes
  <2> QED
    BY <1>5, <2>1, <2>2, <2>3
<1> QED
  BY <1>2, <1>4, <1>6

(* When Insert returns a node, it is one that was free before, it has the  *)
(* size of the box, and no node that was in use shares a pixel with it.    *)
LEMMA VisitReturns ==
  ASSUME TreeOK, T!Visit, stack' = <<>>, ret' # 0
  PROVE  /\ ret' \in T!Nodes'
         /\ heap'[ret'].used
         /\ heap'[ret'].w = call.w /\ heap'[ret'].h = call.h
         /\ \A m \in T!Nodes : heap[m].used => Disjoint(heap[m], heap'[ret'])
<1>1. PICK n \in T!Nodes : T!Descend(n) \/ T!Refuse(n) \/ T!Take(n) \/ T!Split(n)
  BY T!VisitedNode, BoxesAreSizes DEF TreeOK, T!Visit
<1>2. T!Take(n)
  <2>1. ~T!Refuse(n)
    BY DEF T!Refuse, T!Null
  <2>2. ~T!Split(n)
    BY DEF T!Split, T!Visit
  <2>3. ~T!Descend(n)
    <3>1. SUFFICES ASSUME T!Descend(n) PROVE FALSE
      OBVIOUS
    <3>2. stack \in Seq(T!Nodes) /\ stack # <<>>
      BY DEF T!Visit, TreeOK, T!TypeOK
    <3>4. heap[n].kid \in T!Nodes /\ heap[n].kid + 1 \in T!Nodes
      BY <3>1, T!InnerKids, BoxesAreSizes DEF TreeOK, T!Descend
    <3>3. <<heap[n].kid, heap[n].kid + 1>> \o Tail(stack) # <<>>
      BY <3>2, <3>4, T!ReplaceHead
    <3> QED
      BY <3>1, <3>3 DEF T!Descend
  <2> QED
    BY <1>1, <2>1, <2>2, <2>3
<1>3. ret' = n /\ n \in T!Nodes' /\ heap'[n].used
  <2>1. T!Nodes' = T!Nodes /\ heap'[n].used
    BY <1>2, T!TakeNode, BoxesAreSizes DEF TreeOK
  <2> QED
    BY <1>2, <2>1 DEF T!Take
<1>4. SameRect(heap'[n], heap[n])
  BY VisitKeeps
<1>5. heap[n].w = call.w /\ heap[n].h = call.h /\ ~heap[n].used /\ T!IsLeaf(n)
  BY <1>2 DEF T!Take, T!FitsExactly
<1>6. ASSUME NEW m \in T!Nodes, heap[m].used
      PROVE  Disjoint(heap[m], heap'[n])
  <2>1. m # n
    BY <1>5, <1>6
  <2>2. T!IsLeaf(m)
    BY <1>6 DEF TreeOK, T!TypeOK
  <2>3. T!Disjoint(heap[m], heap[n])
    BY <2>1, <2>2, <1>5 DEF TreeOK, T!LeavesTile, T!Leaves
  <2> QED
    BY <2>3, <1>4 DEF T!Disjoint, Disjoint, SameRect
<1> QED
  BY <1>3, <1>4, <1>5, <1>6 DEF SameRect

(* After the side has overflowed the root may have no pixels at all: then  *)
(* nothing is ever put into it.                                            *)
NoRoot ==
  /\ \E w \in Int : w <= 0 /\ heap = <<T!NewNode(0, 0, w, w)>>
  /\ call \in Boxes
  /\ stack \in {<<>>, <<1>>}
  /\ ret = 0

(* The tree at any time                                                    *)
TreeInv == TreeOK \/ NoRoot

(* A tree of one node.                                                     *)
LEMMA OneNode ==
  ASSUME NEW w, heap = <<T!NewNode(0, 0, w, w)>>
  PROVE  /\ T!Nodes = {1}
         /\ heap[1].x = 0 /\ heap[1].y = 0 /\ heap[1].w = w /\ heap[1].h = w
         /\ ~heap[1].used /\ T!IsLeaf(1)
<1> DEFINE e == T!NewNode(0, 0, w, w)
<1>1. heap = <<e>>
  OBVIOUS
<1>2. e.x = 0 /\ e.y = 0 /\ e.w = w /\ e.h = w /\ ~e.used /\ e.kid = 0
  BY DEF T!NewNode, T!Null
<1> HIDE DEF e
<1>3. heap[1] = e /\ 1 .. Len(heap) = {1}
  BY <1>1
<1> QED
  BY <1>2, <1>3 DEF T!Nodes, T!IsLeaf, T!Null

(* Insert is only called with boxes.                                       *)
LEMMA CallIsBox ==
  ASSUME TreeInv
  PROVE  call \in Boxes
BY DEF TreeInv, TreeOK, NoRoot, T!TypeOK

(* What is in use lies in the root.                                        *)
LEMMA UsedInside ==
  ASSUME TreeInv, NEW m \in T!Nodes, heap[m].used
  PROVE  Inside(heap[m], heap[1]) /\ heap[m] \in T!Node
<1>1. CASE TreeOK
  BY <1>1, T!NodeType, BoxesAreSizes DEF TreeOK, T!InsideRoot, T!Inside, Inside, T!Root
<1>2. CASE NoRoot
  BY <1>2, OneNode DEF NoRoot
<1> QED
  BY <1>1, <1>2 DEF TreeInv

(* cFrame::Pack_TrySize starts a new tree,                                 *)
LEMMA RootStep ==
  ASSUME TreeInv, NEW w \in Int, T!SetRoot([w |-> w, h |-> w])
  PROVE  /\ TreeInv'
         /\ heap'[1].x = 0 /\ heap'[1].y = 0 /\ heap'[1].w = w /\ heap'[1].h = w
<1>1. /\ heap' = <<T!NewNode(0, 0, w, w)>> /\ stack = <<>> /\ stack' = <<>>
      /\ ret' = 0 /\ claimed' = 0 /\ call' \in Boxes
  <2>1. [w |-> w, h |-> w].w = w /\ [w |-> w, h |-> w].h = w
    OBVIOUS
  <2> QED
    BY <2>1, CallIsBox DEF T!SetRoot, T!Null
<1>2. /\ heap'[1].x = 0 /\ heap'[1].y = 0 /\ heap'[1].w = w /\ heap'[1].h = w
  <2> DEFINE e == T!NewNode(0, 0, w, w)
  <2>1. e.x = 0 /\ e.y = 0 /\ e.w = w /\ e.h = w
    BY DEF T!NewNode
  <2>2. heap'[1] = e
    BY <1>1
  <2> QED
    BY <2>1, <2>2
<1>3. CASE w <= 0
  BY <1>1, <1>2, <1>3 DEF TreeInv, NoRoot
<1>4. CASE w > 0
  <2> DEFINE r == [w |-> w, h |-> w]
  <2>1. r \in Boxes /\ heap' = <<T!NewNode(0, 0, r.w, r.h)>>
    BY <1>1, <1>4 DEF Boxes
  <2> HIDE DEF r
  <2>2. T!Init'
    BY <2>1, <1>1 DEF T!Init, T!Null
  <2> QED
    BY <1>2, <2>2, TreeInitNext DEF TreeInv
<1> QED
  BY <1>2, <1>3, <1>4

(* inserts a frame,                                                        *)
LEMMA InsertStep ==
  ASSUME TreeInv, NEW b \in Boxes, T!Insert(b)
  PROVE  TreeInv' /\ heap' = heap /\ call' = b /\ stack' # <<>> /\ ret' = ret
<1>1. heap' = heap /\ call' = b /\ stack' = <<1>> /\ stack' # <<>> /\ ret' = ret
  BY DEF T!Insert, T!Root
<1>2. CASE TreeOK
  <2>1. [T!Next]_T!vars
    BY DEF T!Next
  <2> QED
    BY <1>1, <1>2, <2>1, TreeStep DEF TreeInv
<1>3. CASE NoRoot
  BY <1>1, <1>3 DEF TreeInv, NoRoot
<1> QED
  BY <1>1, <1>2, <1>3 DEF TreeInv

(* and cNode::Insert works.                                                *)
LEMMA VisitStep ==
  ASSUME TreeInv, T!Visit
  PROVE  /\ TreeInv' /\ call' = call
         /\ 1 \in T!Nodes
         /\ \A m \in T!Nodes : /\ m \in T!Nodes'
                               /\ SameRect(heap'[m], heap[m])
                               /\ heap[m].used => heap'[m].used
         /\ stack' = <<>> /\ ret' # 0 =>
              /\ ret' \in T!Nodes'
              /\ heap'[ret'].used
              /\ heap'[ret'].w = call.w /\ heap'[ret'].h = call.h
              /\ \A m \in T!Nodes : heap[m].used => Disjoint(heap[m], heap'[ret'])
<1>1. call' = call
  BY DEF T!Visit, T!Descend, T!Refuse, T!Take, T!Split
<1>2. CASE TreeOK
  <2>1. 1 \in T!Nodes
    BY <1>2, T!RootNode, BoxesAreSizes DEF TreeOK, T!Root
  <2> QED
    BY <1>1, <1>2, <2>1, VisitKeeps, VisitReturns DEF TreeInv
<1>3. CASE NoRoot
  <2>1. PICK w \in Int : w <= 0 /\ heap = <<T!NewNode(0, 0, w, w)>>
    BY <1>3 DEF NoRoot
  <2>2. T!Nodes = {1} /\ heap[1].w = w /\ ~heap[1].used /\ T!IsLeaf(1)
    BY <2>1, OneNode
  <2>3. stack = <<1>> /\ Head(stack) = 1 /\ Tail(stack) = <<>>
    <3>1. stack # <<>>
      BY DEF T!Visit
    <3>2. stack = <<1>>
      BY <1>3, <3>1 DEF NoRoot
    <3> QED
      BY <3>2
  <2>4. ~T!Fits(call, 1)
    <3>1. call.w \in Nat \ {0}
      BY <1>3 DEF NoRoot, Boxes
    <3>2. ~(call.w <= w)
      BY <3>1, <2>1
    <3> QED
      BY <3>2, <2>2 DEF T!Fits
  <2>5. T!Refuse(1)
    <3>1. ~T!FitsExactly(call, 1)
      <4>1. call.w \in Nat \ {0}
        BY <1>3 DEF NoRoot, Boxes
      <4> QED
        BY <4>1, <2>1, <2>2 DEF T!FitsExactly
    <3> QED
      BY <2>2, <2>3, <2>4, <3>1 DEF T!Visit, T!Descend, T!Take, T!Split
  <2>6. heap' = heap /\ stack' = <<>> /\ ret' = 0
    BY <2>3, <2>5 DEF T!Refuse, T!Null
  <2>7. NoRoot'
    BY <1>1, <1>3, <2>6 DEF NoRoot
  <2> QED
    BY <1>1, <2>2, <2>6, <2>7 DEF TreeInv, SameRect, T!Nodes
<1> QED
  BY <1>2, <1>3 DEF TreeInv

(* A long has an even number of bits; the first side is less than half of  *)
(* them can hold.                                                          *)
LEMMA BitsFacts ==
  ASSUME PackAssumption
  PROVE  /\ LongBits \div 2 \in Nat \ {0} /\ LongBits = 2 * (LongBits \div 2)
         /\ LongBits \in Nat /\ LongBits - 1 \in Nat /\ LongBits >= 2
         /\ TwoTo[LongBits] = 2 * TwoTo[LongBits - 1]
         /\ TwoTo[LongBits - 1] \in Nat \ {0}
         /\ TwoTo[LongBits \div 2] = 2 * SideMax /\ SideMax \in Nat \ {0}
         /\ \E k \in 0 .. LongBits \div 2 - 1 : StartSide = TwoTo[k]
<1>1. LongBits \in Nat \ {0} /\ LongBits % 2 = 0
  BY DEF PackAssumption
<1>2. LongBits \div 2 \in Nat \ {0} /\ LongBits = 2 * (LongBits \div 2)
  BY <1>1
<1> DEFINE m == LongBits - 1
           k == LongBits \div 2 - 1
<1>3. m \in Nat /\ m + 1 = LongBits /\ k \in Nat /\ k + 1 = LongBits \div 2
  BY <1>1, <1>2
<1>4. TwoTo[m + 1] = 2 * TwoTo[m] /\ TwoTo[m] \in Nat \ {0}
      /\ TwoTo[k + 1] = 2 * TwoTo[k] /\ TwoTo[k] \in Nat \ {0}
  BY <1>3, TwoToNext, TwoToIsNat
<1>5. \E n \in 0 .. LongBits \div 2 - 1 : StartSide = TwoTo[n]
  BY DEF PackAssumption
<1> QED
  BY <1>1, <1>2, <1>3, <1>4, <1>5 DEF SideMax

(* It is a positive number.                                                *)
LEMMA StartSideIsNat ==
  ASSUME PackAssumption
  PROVE  StartSide \in Nat \ {0}
<1>1. PICK k \in 0 .. LongBits \div 2 - 1 : StartSide = TwoTo[k]
  BY BitsFacts
<1>2. k \in Nat
  BY <1>1
<1> QED
  BY <1>1, <1>2, TwoToIsNat

(* A long is an integer.                                                   *)
LEMMA LongIsInt ==
  ASSUME PackAssumption, NEW x \in Int
  PROVE  Long(x) \in Int
BY SignedIsInt DEF Long, PackAssumption

(* The lists of frames Pack_All may be called with.                        *)
LEMMA BoundedSeqType ==
  ASSUME NEW S, NEW n \in Nat, NEW s \in BoundedSeq(S, n)
  PROVE  s \in Seq(S) /\ Len(s) \in 0 .. n /\ DOMAIN s = 1 .. Len(s)
<1>1. PICK k \in 0 .. n : s \in [1 .. k -> S]
  BY DEF BoundedSeq, SeqOf
<1> QED
  BY <1>1

(* A sequence over a set is one over a larger set.                         *)
LEMMA SeqOfMore ==
  ASSUME NEW S, NEW S2, S \subseteq S2, NEW s \in Seq(S)
  PROVE  s \in Seq(S2)
OBVIOUS

(* What TypeOK says of a frame.                                            *)
LEMMA FramesType ==
  ASSUME PackAssumption, TypeOK
  PROVE  /\ size \in Seq([w : Nat, h : Nat])
         /\ Frames = 1 .. Len(size) /\ Len(size) \in Nat
         /\ \A f \in Frames : /\ size[f].w \in Nat /\ size[f].h \in Nat
                              /\ size[f].w # 0 => size[f].h # 0
         /\ border \in Nat
<1>1. /\ FrameSizes \subseteq [w : Nat, h : Nat]
      /\ \A z \in FrameSizes : z.w # 0 => z.h # 0
      /\ BorderMax \in Nat
  BY DEF PackAssumption
<1>2. size \in Seq(FrameSizes) /\ border \in Nat
  BY <1>1 DEF TypeOK
<1>3. Frames = 1 .. Len(size) /\ Len(size) \in Nat /\ \A f \in Frames : size[f] \in FrameSizes
  BY <1>2, ElementsOf DEF Frames
<1>4. size \in Seq([w : Nat, h : Nat])
  BY <1>1, <1>2, SeqOfMore
<1>5. \A z \in [w : Nat, h : Nat] : z.w \in Nat /\ z.h \in Nat
  OBVIOUS
<1>6. ASSUME NEW f \in Frames
      PROVE  /\ size[f].w \in Nat /\ size[f].h \in Nat
             /\ size[f].w # 0 => size[f].h # 0
  BY <1>1, <1>3, <1>5
<1> QED
  BY <1>2, <1>3, <1>4, <1>6

(* The border is between 0 and BorderMax.                                  *)
LEMMA ClampType ==
  ASSUME PackAssumption, NEW b \in Int
  PROVE  Clamp(b) \in 0 .. BorderMax
BY DEF PackAssumption, Clamp, Smaller

(* The next order and side.                                                *)
LEMMA NextTryType ==
  ASSUME PackAssumption, TypeOK, NextTry
  PROVE  method' \in Methods /\ side' \in Int /\ pc' = "try"
<1>1. method \in {0, 1, 2, 3} /\ side \in Int /\ 2 * side \in Int
  BY DEF TypeOK, Methods
<1>2. Long(2 * side) \in Int
  BY <1>1, LongIsInt
<1>3. side' \in Int
  BY <1>1, <1>2 DEF NextTry
<1>4. (method + 1) % 4 \in Methods
  BY <1>1 DEF Methods
<1> QED
  BY <1>3, <1>4 DEF NextTry

(* Steps that do not touch the tree.                                       *)
LEMMA UnchangedTree ==
  ASSUME TreeInv, UNCHANGED tree
  PROVE  TreeInv'
<1>1. heap' = heap /\ call' = call /\ stack' = stack /\ ret' = ret /\ claimed' = claimed
  BY DEF tree
<1>2. CASE TreeOK
  <2>1. UNCHANGED T!vars
    BY <1>1 DEF T!vars
  <2> QED
    BY <1>2, <2>1, TreeStep DEF TreeInv
<1>3. CASE NoRoot
  BY <1>1, <1>3 DEF NoRoot, TreeInv
<1> QED
  BY <1>2, <1>3 DEF TreeInv

(* The boxes of frames are boxes.                                          *)
LEMMA BoxesOfFrames ==
  ASSUME PackAssumption
  PROVE  BoxSizes # {} /\ BoxSizes \subseteq Boxes
<1>1. PICK z \in FrameSizes : z.w # 0
  BY DEF PackAssumption
<1>2. 0 \in 0 .. BorderMax
  BY DEF PackAssumption
<1>3. BoxSizes # {}
  <2>1. z \in {y \in FrameSizes : y.w # 0}
    BY <1>1
  <2>2. [w |-> z.w + 0, h |-> z.h + 0] \in BoxSizes
    BY <2>1, <1>2 DEF BoxSizes
  <2> QED
    BY <2>2
<1>4. ASSUME NEW y \in FrameSizes, y.w # 0, NEW b \in 0 .. BorderMax
      PROVE  [w |-> y.w + b, h |-> y.h + b] \in Boxes
  <2>1. y \in [w : Nat, h : Nat] /\ y.h # 0 /\ b \in Nat
    BY <1>4 DEF PackAssumption
  <2>2. y.w \in Nat /\ y.h \in Nat
    BY <2>1
  <2> QED
    BY <2>1, <2>2, <1>4 DEF Boxes
<1>5. BoxSizes \subseteq Boxes
  BY <1>4 DEF BoxSizes
<1> QED
  BY <1>3, <1>5

(* The tree in the initial state.                                          *)
LEMMA TreeInvInit ==
  ASSUME PackAssumption, call \in Boxes, stack = <<>>, ret = 0, claimed = 0,
         heap = <<Tree!NewNode(0, 0, StartSide, StartSide)>>
  PROVE  TreeInv
<1>3. StartSide \in Int
  BY StartSideIsNat
<1>4. heap = <<T!NewNode(0, 0, StartSide, StartSide)>> /\ stack = <<>> /\ ret = 0
      /\ claimed = 0
  BY DEF Tree!NewNode, T!NewNode, Tree!Null, T!Null
<1>5. CASE StartSide <= 0
  <2>1. NoRoot
    BY <1>3, <1>4, <1>5 DEF NoRoot
  <2> QED
    BY <2>1 DEF TreeInv
<1>6. CASE StartSide > 0
  <2> DEFINE r == [w |-> StartSide, h |-> StartSide]
  <2>1. r \in Boxes /\ r.w = StartSide /\ r.h = StartSide
    BY <1>3, <1>6 DEF Boxes
  <2> HIDE DEF r
  <2>2. T!Init
    BY <1>4, <2>1 DEF T!Init, T!Null
  <2> QED
    BY <2>2, TreeInit DEF TreeInv
<1> QED
  BY <1>3, <1>5, <1>6

(* Pack_TrySize is at work.                                                *)
Trying == pc \in {"first", "sort", "insert", "search"}

(* The root of the tree is the texture with one border on the right and    *)
(* below.                                                                  *)
RootAt ==
  Trying => /\ heap[1].x = 0 /\ heap[1].y = 0
            /\ heap[1].w = side + border /\ heap[1].h = side + border

(* Frame f comes before g in the order of the method.                      *)
Before(f, g) ==
  \/ Key(size[f], method) > Key(size[g], method)
  \/ Key(size[f], method) = Key(size[g], method) /\ f < g

(* Frame f is not in the list.                                             *)
Unlisted(f) == \A j \in DOMAIN order : order[j] # f

(* The list is one of frames of this texture, none twice, although it may  *)
(* be left of an earlier attempt.                                          *)
Listed ==
  pc # "done" =>
    /\ \A j \in DOMAIN order : order[j] \in Frames
    /\ \A j, k \in DOMAIN order : order[j] = order[k] => j = k

(* Once Sort has found a frame the list is sorted, its frames are some     *)
(* that Sort finds, and none that is not in it comes before one that is.   *)
Sorted ==
  pc \in {"sort", "insert", "search"} /\ Found # {} =>
    /\ \A j \in DOMAIN order : order[j] \in Found
    /\ \A j, k \in DOMAIN order : j < k => Before(order[j], order[k])
    /\ \A j \in DOMAIN order, f \in Frames : Unlisted(f) => Before(order[j], f)

(* When frames are inserted all that Sort finds are listed.                *)
AllListed == pc \in {"insert", "search"} => \A f \in Found : ~Unlisted(f)

(* Frames are inserted from the first of the list on.                      *)
FromFirst == pc \in {"first", "sort"} => i = 1

(* Insert is called with the size of frame order[i] and its border.        *)
Calling ==
  pc = "search" =>
    /\ i \in DOMAIN order /\ size[order[i]].w # 0
    /\ call.w = size[order[i]].w + border /\ call.h = size[order[i]].h + border

(* The positions of the frames that have been placed in this attempt       *)
Earlier == {j \in DOMAIN order : j < i /\ size[order[j]].w # 0}

(* The box of frame f is a node in use.                                    *)
Held(f) ==
  \E n \in T!Nodes : heap[n].used /\ SameRect(heap[n], Box(f))

(* The frames placed in this attempt have nodes of their own. This is what *)
(* a position left over from an attempt that failed, or from the texture   *)
(* before, does not have.                                                  *)
Own ==
  pc \in {"insert", "search"} =>
    /\ \A j \in Earlier : Held(order[j])
    /\ \A j, k \in Earlier : j # k => Disjoint(Box(order[j]), Box(order[k]))

(* The node Insert returned is apart from the boxes of all frames placed   *)
(* before.                                                                 *)
Handed ==
  pc = "search" /\ stack = <<>> /\ ret # 0 =>
    /\ ret \in T!Nodes /\ heap[ret].used
    /\ heap[ret].w = call.w /\ heap[ret].h = call.h
    /\ \A j \in Earlier : Disjoint(Box(order[j]), heap[ret])

(* The inductive invariant                                                 *)
Inv == /\ TypeOK /\ TreeInv
       /\ RootAt /\ Listed /\ Sorted /\ AllListed /\ FromFirst /\ Calling /\ Own /\ Handed
       /\ FramesApart

(* What TypeOK says of the list.                                           *)
LEMMA OrderType ==
  ASSUME TypeOK
  PROVE  /\ Len(order) \in Nat /\ DOMAIN order = 1 .. Len(order)
         /\ \A j \in DOMAIN order : order[j] \in Slots
         /\ i \in Nat \ {0} /\ method \in Methods /\ side \in Int
BY ElementsOf DEF TypeOK

-----------------------------------------------------------------------------

(* The steps that begin another attempt, or another texture:               *)
LEMMA AgainStep ==
  ASSUME TypeOK', TreeInv', Listed', pc' = "try"
  PROVE  Inv'
BY DEF Inv, RootAt, Sorted, AllListed, FromFirst, Calling, Own, Handed,
       FramesApart, Trying

(* Pack_All is called;                                                     *)
LEMMA PackAllStep ==
  ASSUME PackAssumption, Inv,
         NEW s \in BoundedSeq(FrameSizes, FrameMax), NEW b \in Borders, PackAll(s, b)
  PROVE  Inv'
<1>1. FrameMax \in Nat /\ b \in Int /\ StartSide \in Int
  BY StartSideIsNat DEF PackAssumption
<1>2. s \in Seq(FrameSizes) /\ DOMAIN s \subseteq Slots
  BY <1>1, BoundedSeqType DEF Slots
<1>3. Clamp(b) \in 0 .. BorderMax
  BY <1>1, ClampType
<1>4. TypeOK'
  BY <1>1, <1>2, <1>3 DEF Inv, TypeOK, PackAll, Frames, Methods
<1>5. TreeInv' /\ pc' = "try"
  BY UnchangedTree DEF PackAll, Inv
<1>6. Listed'
  BY DEF PackAll, Listed
<1> QED
  BY <1>4, <1>5, <1>6, AgainStep

(* an attempt has failed, or was not worth making.                         *)
LEMMA NextTryStep ==
  ASSUME PackAssumption, Inv, pc # "done", NextTry,
         UNCHANGED <<tree, size, dest, order, i, border>>
  PROVE  Inv'
<1>1. method' \in Methods /\ side' \in Int /\ pc' = "try"
  BY NextTryType DEF Inv
<1>2. TypeOK'
  BY <1>1 DEF Inv, TypeOK, Frames
<1>3. TreeInv'
  BY UnchangedTree DEF Inv
<1>4. Listed'
  BY DEF Inv, Listed, Frames
<1> QED
  BY <1>1, <1>2, <1>3, <1>4, AgainStep

(* A new attempt begins with the list of the last and a new tree.          *)
LEMMA StartTryStep ==
  ASSUME PackAssumption, Inv, StartTry
  PROVE  Inv'
<1> DEFINE w == side + border
<1>1. w \in Int
  BY FramesType, OrderType DEF Inv
<1>2. T!SetRoot([w |-> w, h |-> w])
  BY TreeRoot DEF StartTry
<1> HIDE DEF w
<1>3. /\ TreeInv'
      /\ heap'[1].x = 0 /\ heap'[1].y = 0 /\ heap'[1].w = w /\ heap'[1].h = w
  BY <1>1, <1>2, RootStep DEF Inv
<1>4. /\ pc = "try" /\ i' = 1 /\ pc' = "first"
      /\ UNCHANGED <<size, dest, order, method, side, border>>
  BY DEF StartTry
<1>5. TypeOK'
  BY <1>4 DEF Inv, TypeOK, Frames
<1>6. RootAt'
  BY <1>3, <1>4 DEF RootAt, w
<1>7. Listed'
  BY <1>4 DEF Inv, Listed, Frames
<1>8. Sorted' /\ AllListed' /\ FromFirst' /\ Calling' /\ Own' /\ Handed' /\ FramesApart'
  BY <1>4 DEF Sorted, AllListed, FromFirst, Calling, Own, Handed, FramesApart
<1> QED
  BY <1>3, <1>5, <1>6, <1>7, <1>8 DEF Inv

(* The first pass leaves either a list of one frame, the best of all,      *)
LEMMA FirstStep ==
  ASSUME PackAssumption, Inv, FirstPass, pc' = "sort"
  PROVE  Inv'
<1> DEFINE b == Best(<<>>, method)
<1>1. /\ pc = "first" /\ b # 0 /\ order' = <<b>>
      /\ UNCHANGED <<tree, size, dest, i, method, side, border>>
  BY DEF FirstPass
<1>2. TypeOK /\ Frames \subseteq Slots
  BY DEF Inv, TypeOK
<1>3. /\ b \in Frames /\ Key(size[b], method) >= 0
      /\ \A f \in Frames :
           \/ Key(size[b], method) > Key(size[f], method)
           \/ Key(size[b], method) = Key(size[f], method) /\ b <= f
  <2>1. ToSet(<<>>) = {}
    BY DEF ToSet
  <2> QED
    BY <1>1, <1>2, <2>1, BestOfRest, FramesType, OrderType
<1> HIDE DEF b
<1>4. DOMAIN order' = {1} /\ order'[1] = b /\ order' \in Seq(Slots)
  BY <1>1, <1>2, <1>3
<1>5. TypeOK'
  BY <1>1, <1>4 DEF Inv, TypeOK, Frames
<1>6. TreeInv'
  BY <1>1, UnchangedTree DEF Inv
<1>7. RootAt'
  BY <1>1 DEF Inv, RootAt, Trying, tree
<1>8. Listed'
  BY <1>1, <1>3, <1>4 DEF Listed, Frames
<1>9. Sorted'
  <2>1. b \in Found
    BY <1>3 DEF Found
  <2>2. ASSUME NEW f \in Frames, f # b PROVE Before(b, f)
    <3>1. b \in Nat /\ f \in Nat
      BY <1>2, <1>3, FramesType
    <3>2. b <= f => b < f
      BY <2>2, <3>1
    <3> QED
      BY <1>3, <3>2 DEF Before
  <2>3. Frames' = Frames /\ Found' = Found /\ \A f, g : Before(f, g)' <=> Before(f, g)
    BY <1>1 DEF Frames, Found, Before
  <2>4. \A f : Unlisted(f)' => f # b
    BY <1>4 DEF Unlisted
  <2>5. \A j, k \in DOMAIN order' : ~(j < k)
    BY <1>4
  <2> QED
    BY <1>4, <2>1, <2>2, <2>3, <2>4, <2>5 DEF Sorted
<1>10. AllListed' /\ FromFirst' /\ Calling' /\ Own' /\ Handed' /\ FramesApart'
  BY <1>1 DEF Inv, AllListed, FromFirst, Calling, Own, Handed, FramesApart
<1> QED
  BY <1>5, <1>6, <1>7, <1>8, <1>9, <1>10 DEF Inv

(* No position is before the first.                                        *)
LEMMA NoneEarlier ==
  ASSUME TypeOK, i = 1
  PROVE  Earlier = {}
BY OrderType DEF Earlier

(* or, when there is no frame to be found, the list as it was.             *)
LEMMA NothingFoundStep ==
  ASSUME PackAssumption, Inv, FirstPass, pc' # "sort"
  PROVE  Inv'
<1>1. /\ pc = "first" /\ Best(<<>>, method) = 0 /\ pc' = "insert"
      /\ UNCHANGED <<tree, size, dest, order, i, method, side, border>>
  BY DEF FirstPass
<1>2. TypeOK
  BY DEF Inv
<1>3. Found' = {} /\ Found = {}
  <2>1. ToSet(<<>>) = {} /\ 0 \notin Frames
    BY <1>2, FramesType DEF ToSet
  <2>2. \A f \in Frames : Key(size[f], method) < 0
    BY <1>1, <1>2, <2>1, BestOfRest, FramesType, OrderType
  <2>3. \A f \in Frames : Key(size[f], method) \in Int
    BY <1>2, FramesType, ElementsOf, KeyIsInt, OrderType
  <2> QED
    BY <1>1, <2>2, <2>3 DEF Found, Frames
<1>4. TypeOK'
  BY <1>1 DEF Inv, TypeOK, Frames
<1>5. TreeInv'
  BY <1>1, UnchangedTree DEF Inv
<1>6. RootAt'
  BY <1>1 DEF Inv, RootAt, Trying, tree
<1>7. Listed'
  BY <1>1 DEF Inv, Listed, Frames
<1>8. Earlier' = {}
  <2>1. Earlier = {}
    BY <1>1, <1>2, NoneEarlier DEF Inv, FromFirst
  <2> QED
    BY <1>1, <2>1 DEF Earlier
<1>9. Sorted' /\ AllListed'
  BY <1>3 DEF Sorted, AllListed
<1>10. FromFirst' /\ Calling' /\ Own' /\ Handed' /\ FramesApart'
  BY <1>1, <1>8 DEF FromFirst, Calling, Own, Handed, FramesApart
<1> QED
  BY <1>4, <1>5, <1>6, <1>7, <1>9, <1>10 DEF Inv

(* What Append does.                                                       *)
LEMMA AppendOne ==
  ASSUME NEW S, NEW s \in Seq(S), NEW e \in S
  PROVE  /\ Append(s, e) \in Seq(S)
         /\ DOMAIN Append(s, e) = 1 .. Len(s) + 1
         /\ \A j \in DOMAIN s : j \in DOMAIN Append(s, e) /\ Append(s, e)[j] = s[j]
         /\ Append(s, e)[Len(s) + 1] = e
OBVIOUS

(* Best leaves out the frames in the list.                                 *)
LEMMA NotListed ==
  ASSUME TypeOK, NEW f
  PROVE  f \in ToSet(order) <=> ~Unlisted(f)
BY DEF ToSet, Unlisted

(* A later pass of cFrame::Sort links the best of those that are left.     *)
LEMMA LinkStep ==
  ASSUME PackAssumption, Inv, SortPass, order' # order
  PROVE  Inv'
<1> DEFINE b == Best(order, method)
<1>1. /\ pc = "sort" /\ pc' = "sort" /\ b # 0 /\ order' = Append(order, b)
      /\ UNCHANGED <<tree, size, dest, i, method, side, border>>
  BY DEF SortPass
<1>2. TypeOK
  BY DEF Inv
<1>3. /\ b \in Frames /\ b \notin ToSet(order) /\ Key(size[b], method) >= 0
      /\ \A f \in Frames \ ToSet(order) :
           \/ Key(size[b], method) > Key(size[f], method)
           \/ Key(size[b], method) = Key(size[f], method) /\ b <= f
  BY <1>1, <1>2, BestOfRest, FramesType, OrderType
<1> HIDE DEF b
<1>4. Unlisted(b) /\ \A f \in Frames : Unlisted(f) /\ f # b => Before(b, f)
  <2>1. Unlisted(b)
    BY <1>2, <1>3, NotListed
  <2>2. ASSUME NEW f \in Frames, Unlisted(f), f # b PROVE Before(b, f)
    <3>1. f \in Frames \ ToSet(order)
      BY <1>2, <2>2, NotListed
    <3>2. b \in Nat /\ f \in Nat
      BY <1>2, <1>3, FramesType
    <3>3. b <= f => b < f
      BY <3>2, <2>2
    <3> QED
      BY <1>3, <3>1, <3>3 DEF Before
  <2> QED
    BY <2>1, <2>2
<1>5. /\ order \in Seq(Slots) /\ b \in Slots
      /\ DOMAIN order = 1 .. Len(order) /\ Len(order) \in Nat
  BY <1>2, <1>3, OrderType DEF TypeOK
<1> DEFINE n == Len(order) + 1
<1>6. /\ order' \in Seq(Slots)
      /\ DOMAIN order' = (DOMAIN order) \cup {n} /\ n \notin DOMAIN order
      /\ \A j \in DOMAIN order : order'[j] = order[j] /\ j < n
      /\ order'[n] = b
  <2>1. 1 .. Len(order) + 1 = (1 .. Len(order)) \cup {Len(order) + 1}
    BY <1>5
  <2>2. /\ order' \in Seq(Slots) /\ DOMAIN order' = 1 .. Len(order) + 1
        /\ \A j \in DOMAIN order : order'[j] = order[j]
        /\ order'[Len(order) + 1] = b
    <3>1. order \in Seq(Slots) /\ b \in Slots
      BY <1>5
    <3>2. /\ Append(order, b) \in Seq(Slots)
          /\ DOMAIN Append(order, b) = 1 .. Len(order) + 1
          /\ \A j \in DOMAIN order : Append(order, b)[j] = order[j]
          /\ Append(order, b)[Len(order) + 1] = b
      BY <3>1, AppendOne
    <3>3. order' = Append(order, b)
      BY <1>1
    <3> QED
      BY ONLY <3>2, <3>3
  <2>3. Len(order) + 1 \notin DOMAIN order /\ \A j \in DOMAIN order : j < Len(order) + 1
    BY <1>5
  <2> QED
    BY <1>5, <2>1, <2>2, <2>3
<1>7. TypeOK'
  BY <1>1, <1>6 DEF Inv, TypeOK, Frames
<1>8. TreeInv'
  BY <1>1, UnchangedTree DEF Inv
<1>9. RootAt'
  BY <1>1 DEF Inv, RootAt, Trying, tree
<1>10. Sorted'
  <2>1. Frames' = Frames /\ Found' = Found /\ \A f, g : Before(f, g)' <=> Before(f, g)
    BY <1>1 DEF Frames, Found, Before
  <2>2. pc \in {"sort", "insert", "search"} /\ Found # {}
    BY <1>1, <1>3 DEF Found
  <2>3. \A j \in DOMAIN order' : order'[j] \in Found
    <3>1. b \in Found
      BY <1>3 DEF Found
    <3> QED
      BY <3>1, <1>6, <2>2 DEF Inv, Sorted
  <2>4. ASSUME NEW j \in DOMAIN order', NEW k \in DOMAIN order', j < k
        PROVE  Before(order'[j], order'[k])
    <3>1. CASE k = n
      <4>1. j \in DOMAIN order
        <5>1. j # k
          BY <2>4, <1>5, <1>6
        <5> QED
          BY <1>6, <3>1, <5>1
      <4>2. Before(order[j], b)
        BY <4>1, <1>3, <1>4, <2>2 DEF Inv, Sorted
      <4> QED
        BY <1>6, <3>1, <4>1, <4>2
    <3>2. CASE k # n
      <4>1. k \in DOMAIN order
        BY <1>6, <3>2
      <4>2. j \in DOMAIN order
        BY <1>5, <4>1, <1>6, <2>4
      <4> QED
        BY <1>6, <2>2, <2>4, <4>1, <4>2 DEF Inv, Sorted
    <3> QED
      BY <3>1, <3>2
  <2>5. ASSUME NEW j \in DOMAIN order', NEW f \in Frames, Unlisted(f)'
        PROVE  Before(order'[j], f)
    <3>1. Unlisted(f) /\ f # b
      BY <1>6, <2>5 DEF Unlisted
    <3>2. CASE j = n
      BY <1>4, <1>6, <3>1, <3>2
    <3>3. CASE j # n
      <4>1. j \in DOMAIN order
        BY <1>6, <3>3
      <4> QED
        BY <1>6, <2>2, <3>1, <4>1 DEF Inv, Sorted
    <3> QED
      BY <3>2, <3>3
  <2> HIDE DEF n
  <2> QED
    BY <2>1, <2>3, <2>4, <2>5 DEF Sorted
<1>11. Listed'
  <2>1. \A j \in DOMAIN order : order[j] \in Frames /\ order[j] # b
    BY <1>1, <1>4 DEF Inv, Listed, Unlisted
  <2>2. \A j, k \in DOMAIN order : order[j] = order[k] => j = k
    BY <1>1 DEF Inv, Listed
  <2>3. \A j \in DOMAIN order' : order'[j] \in Frames
    BY <1>3, <1>6, <2>1
  <2>4. \A j, k \in DOMAIN order' : order'[j] = order'[k] => j = k
    BY <1>6, <2>1, <2>2
  <2> QED
    BY <1>1, <2>3, <2>4 DEF Listed, Frames
<1>12. AllListed' /\ FromFirst' /\ Calling' /\ Own' /\ Handed' /\ FramesApart'
  BY <1>1 DEF Inv, AllListed, FromFirst, Calling, Own, Handed, FramesApart
<1> QED
  BY <1>7, <1>8, <1>9, <1>10, <1>11, <1>12 DEF Inv

(* The last pass finds no frame.                                           *)
LEMMA SortedStep ==
  ASSUME PackAssumption, Inv, SortPass, order' = order
  PROVE  Inv'
<1>1. pc = "sort" /\ TypeOK
  BY DEF Inv, SortPass
<1>2. Best(order, method) = 0 /\ pc' = "insert"
  <2>1. \A e \in Slots : Append(order, e) # order
    <3>1. ASSUME NEW e \in Slots, Append(order, e) = order PROVE FALSE
      <4>1. order \in Seq(Slots) /\ Len(order) \in Nat
        BY <1>1, OrderType DEF TypeOK
      <4>2. Len(Append(order, e)) = Len(order) + 1
        BY <4>1
      <4> QED
        BY <3>1, <4>1, <4>2
    <3> QED
      BY <3>1
  <2>2. Best(order, method) # 0 => Best(order, method) \in Slots
    BY <1>1, BestOfRest, FramesType, OrderType DEF TypeOK
  <2> QED
    BY <2>1, <2>2 DEF SortPass
<1>3. UNCHANGED <<tree, size, dest, order, i, method, side, border>>
  BY DEF SortPass
<1>4. 0 \notin Frames
  BY <1>1, FramesType
<1>5. \A f \in Found : f \in ToSet(order)
  <2>1. \A f \in Frames : f \in ToSet(order) \/ Key(size[f], method) < 0
    BY <1>1, <1>2, <1>4, BestOfRest, FramesType, OrderType
  <2>2. \A f \in Frames : Key(size[f], method) \in Int
    BY <1>1, FramesType, ElementsOf, KeyIsInt, OrderType
  <2> QED
    BY <2>1, <2>2 DEF Found
<1>6. AllListed'
  <2>1. \A f \in Found : ~Unlisted(f)
    BY <1>1, <1>5, NotListed
  <2> QED
    BY <1>3, <2>1 DEF AllListed, Frames, Found, Unlisted
<1>7. TypeOK'
  BY <1>2, <1>3 DEF Inv, TypeOK, Frames
<1>8. TreeInv'
  BY <1>3, UnchangedTree DEF Inv
<1>9. RootAt'
  BY <1>1, <1>3 DEF Inv, RootAt, Trying, tree
<1>10. Sorted' /\ Listed'
  BY <1>1, <1>3 DEF Inv, Sorted, Listed, Frames, Found, Before, Unlisted
<1>11. Earlier' = {}
  <2>1. Earlier = {}
    BY <1>1, NoneEarlier DEF Inv, FromFirst
  <2> QED
    BY <1>3, <2>1 DEF Earlier
<1>12. FromFirst' /\ Calling' /\ Own' /\ Handed' /\ FramesApart'
  BY <1>2, <1>11 DEF FromFirst, Calling, Own, Handed, FramesApart
<1> QED
  BY <1>6, <1>7, <1>8, <1>9, <1>10, <1>12 DEF Inv

(* An empty frame is passed over.                                          *)
LEMMA SkipStep ==
  ASSUME PackAssumption, Inv, SkipFrame
  PROVE  Inv'
<1>1. /\ pc = "insert" /\ pc' = "insert" /\ size[order[i]].w = 0 /\ i' = i + 1
      /\ UNCHANGED <<tree, size, dest, order, method, side, border>>
  BY DEF SkipFrame
<1>2. TypeOK /\ i \in Nat \ {0} /\ \A j \in DOMAIN order : j \in Nat
  BY OrderType DEF Inv
<1>3. TypeOK'
  <2>1. i' \in Nat \ {0}
    BY <1>1, <1>2
  <2> QED
    BY <1>1, <1>2, <2>1 DEF TypeOK, Frames
<1>4. TreeInv'
  BY <1>1, UnchangedTree DEF Inv
<1>5. RootAt'
  BY <1>1 DEF Inv, RootAt, Trying, tree
<1>6. Sorted' /\ Listed'
  BY <1>1 DEF Inv, Sorted, Listed, Frames, Found, Before, Unlisted
<1>7. AllListed'
  BY <1>1 DEF Inv, AllListed, Frames, Found, Unlisted
<1>8. Earlier' = Earlier
  <2>1. \A j \in DOMAIN order : size[order[j]].w # 0 => (j < i + 1 <=> j < i)
    BY <1>1, <1>2
  <2> QED
    BY <1>1, <2>1 DEF Earlier
<1>9. Own'
  <2>1. \A f : Held(f) => Held(f)'
    BY <1>1 DEF Held, tree, SameRect, Box, T!Nodes
  <2>2. \A f : Box(f)' = Box(f)
    BY <1>1 DEF Box
  <2> QED
    BY <1>1, <1>8, <2>1, <2>2 DEF Inv, Own
<1>10. FromFirst' /\ Calling' /\ Handed' /\ FramesApart'
  BY <1>1 DEF FromFirst, Calling, Handed, FramesApart
<1> QED
  BY <1>3, <1>4, <1>5, <1>6, <1>7, <1>9, <1>10 DEF Inv

(* Insert is called for a frame.                                           *)
LEMMA InsertFrameStep ==
  ASSUME PackAssumption, Inv, InsertFrame
  PROVE  Inv'
<1> DEFINE b == [w |-> size[order[i]].w + border, h |-> size[order[i]].h + border]
<1>1. /\ pc = "insert" /\ pc' = "search" /\ i <= Len(order) /\ size[order[i]].w # 0
      /\ T!Insert(b)
      /\ UNCHANGED <<size, dest, order, i, method, side, border>>
  BY TreeInsert DEF InsertFrame
<1>2. TypeOK /\ i \in DOMAIN order
  BY <1>1, OrderType DEF Inv
<1>3. /\ order[i] \in Frames
      /\ size[order[i]].w \in Nat \ {0} /\ size[order[i]].h \in Nat \ {0} /\ border \in Nat
  <2>1. order[i] \in Frames
    BY <1>1, <1>2 DEF Inv, Listed
  <2> QED
    BY <1>1, <1>2, <2>1, FramesType
<1>4. b \in Boxes /\ b.w = size[order[i]].w + border /\ b.h = size[order[i]].h + border
  BY <1>3 DEF Boxes
<1> HIDE DEF b
<1>5. TreeInv' /\ heap' = heap /\ call' = b /\ stack' # <<>> /\ ret' = ret
  BY <1>1, <1>4, InsertStep DEF Inv
<1>6. TypeOK'
  BY <1>1, <1>2 DEF TypeOK, Frames
<1>7. RootAt'
  BY <1>1, <1>5 DEF Inv, RootAt, Trying
<1>8. Sorted' /\ Listed'
  BY <1>1 DEF Inv, Sorted, Listed, Frames, Found, Before, Unlisted
<1>9. AllListed'
  BY <1>1 DEF Inv, AllListed, Frames, Found, Unlisted
<1>10. Calling'
  BY <1>1, <1>2, <1>4, <1>5 DEF Calling
<1>11. Own'
  <2>1. \A f : Held(f) => Held(f)'
    BY <1>1, <1>5 DEF Held, SameRect, Box, T!Nodes
  <2>2. \A f : Box(f)' = Box(f)
    BY <1>1 DEF Box
  <2>3. Earlier' = Earlier
    BY <1>1 DEF Earlier
  <2> QED
    BY <1>1, <2>1, <2>2, <2>3 DEF Inv, Own
<1>12. FromFirst' /\ Handed' /\ FramesApart'
  BY <1>1, <1>5 DEF FromFirst, Handed, FramesApart
<1> QED
  BY <1>5, <1>6, <1>7, <1>8, <1>9, <1>10, <1>11, <1>12 DEF Inv

(* Disjoint looks at the four numbers only.                                *)
LEMMA MovedDisjoint ==
  ASSUME NEW r, NEW s, NEW t, NEW u, SameRect(r, t), SameRect(s, u)
  PROVE  Disjoint(r, s) <=> Disjoint(t, u)
BY DEF SameRect, Disjoint

(* cNode::Insert at work: it moves no node in use, and the one it returns  *)
(* is apart from all of them.                                              *)
LEMMA SearchStep ==
  ASSUME PackAssumption, Inv, Search
  PROVE  Inv'
<1>1. /\ pc = "search" /\ pc' = "search" /\ T!Visit
      /\ UNCHANGED <<size, dest, order, i, method, side, border>>
  BY TreeVisit DEF Search
<1>2. /\ TreeInv' /\ call' = call
      /\ 1 \in T!Nodes
      /\ \A m \in T!Nodes : /\ m \in T!Nodes'
                            /\ SameRect(heap'[m], heap[m])
                            /\ heap[m].used => heap'[m].used
  BY <1>1, VisitStep DEF Inv
<1>3. TypeOK'
  BY <1>1 DEF Inv, TypeOK, Frames
<1>4. RootAt'
  BY <1>1, <1>2 DEF Inv, RootAt, Trying, SameRect
<1>5. Sorted' /\ Listed'
  BY <1>1 DEF Inv, Sorted, Listed, Frames, Found, Before, Unlisted
<1>6. AllListed'
  BY <1>1 DEF Inv, AllListed, Frames, Found, Unlisted
<1>7. Calling'
  BY <1>1, <1>2 DEF Inv, Calling
<1>8. Earlier' = Earlier /\ \A f : Box(f)' = Box(f)
  BY <1>1 DEF Earlier, Box
<1>9. Own'
  <2>1. \A f : Held(f) => Held(f)'
    <3>1. TAKE f
    <3>2. SUFFICES ASSUME Held(f) PROVE Held(f)'
      OBVIOUS
    <3>3. PICK n \in T!Nodes : heap[n].used /\ SameRect(heap[n], Box(f))
      BY <3>2 DEF Held
    <3>4. n \in T!Nodes' /\ heap'[n].used /\ SameRect(heap'[n], heap[n])
      BY <1>2, <3>3
    <3>5. SameRect(heap'[n], Box(f))
      BY <3>3, <3>4 DEF SameRect
    <3> QED
      BY <1>8, <3>4, <3>5 DEF Held, SameRect
  <2> QED
    BY <1>1, <1>8, <2>1 DEF Inv, Own
<1>10. Handed'
  <2>1. SUFFICES ASSUME stack' = <<>>, ret' # 0
        PROVE  /\ ret' \in T!Nodes' /\ heap'[ret'].used
               /\ heap'[ret'].w = call'.w /\ heap'[ret'].h = call'.h
               /\ \A j \in Earlier' : Disjoint(Box(order[j]), heap'[ret'])
    BY <1>1, <1>8 DEF Handed
  <2>2. /\ ret' \in T!Nodes'
        /\ heap'[ret'].used
        /\ heap'[ret'].w = call.w /\ heap'[ret'].h = call.h
        /\ \A m \in T!Nodes : heap[m].used => Disjoint(heap[m], heap'[ret'])
    BY <1>1, <2>1, VisitStep DEF Inv
  <2>3. ASSUME NEW j \in Earlier
        PROVE  Disjoint(Box(order[j]), heap'[ret'])
    <3>1. PICK n \in T!Nodes : heap[n].used /\ SameRect(heap[n], Box(order[j]))
      BY <1>1, <2>3 DEF Inv, Own, Held
    <3>2. Disjoint(heap[n], heap'[ret'])
      BY <2>2, <3>1
    <3> QED
      BY <3>1, <3>2, MovedDisjoint DEF SameRect
  <2> QED
    BY <1>2, <1>8, <2>2, <2>3
<1>11. FromFirst' /\ FramesApart'
  BY <1>1 DEF FromFirst, FramesApart
<1> QED
  BY <1>2, <1>3, <1>4, <1>5, <1>6, <1>7, <1>9, <1>10, <1>11 DEF Inv

(* The frame gets the place of the node.                                   *)
LEMMA PlacedStep ==
  ASSUME PackAssumption, Inv, Placed
  PROVE  Inv'
<1>0. PICK f0 : f0 = order[i]
  OBVIOUS
<1>1. /\ pc = "search" /\ pc' = "insert" /\ stack = <<>> /\ ret # 0 /\ i' = i + 1
      /\ dest' = [dest EXCEPT ![f0] = [x |-> heap[ret].x, y |-> heap[ret].y]]
      /\ UNCHANGED <<tree, size, order, method, side, border>>
  BY <1>0 DEF Placed, Tree!Null
<1>2. /\ i \in DOMAIN order /\ size[f0].w # 0
      /\ call.w = size[f0].w + border /\ call.h = size[f0].h + border
  BY <1>0, <1>1 DEF Inv, Calling
<1>3. /\ ret \in T!Nodes /\ heap[ret].used
      /\ heap[ret].w = call.w /\ heap[ret].h = call.h
      /\ \A j \in Earlier : Disjoint(Box(order[j]), heap[ret])
  BY <1>1 DEF Inv, Handed
<1>4. /\ TypeOK /\ f0 \in Slots
      /\ i \in Nat \ {0} /\ \A j \in DOMAIN order : j \in Nat /\ order[j] \in Slots
  BY <1>0, <1>2, OrderType DEF Inv
<1>5. heap[ret].x \in Nat /\ heap[ret].y \in Nat
  <2>1. heap[ret] \in T!Node
    BY <1>3, UsedInside DEF Inv
  <2> QED
    BY <2>1 DEF T!Node
<1>6. dest \in [Slots -> [x : Nat, y : Nat]]
  BY <1>4 DEF TypeOK
<1> DEFINE p == [x |-> heap[ret].x, y |-> heap[ret].y]
<1>7. p \in [x : Nat, y : Nat] /\ p.x = heap[ret].x /\ p.y = heap[ret].y
  BY <1>5
<1> HIDE DEF p
<1>8. /\ dest' \in [Slots -> [x : Nat, y : Nat]]
      /\ dest'[f0] = p
      /\ \A f \in Slots \ {f0} : dest'[f] = dest[f]
  BY <1>1, <1>4, <1>6, <1>7 DEF p
<1>9. TypeOK'
  <2>1. i' \in Nat \ {0}
    BY <1>1, <1>4
  <2> QED
    BY <1>1, <1>4, <1>8, <2>1 DEF TypeOK, Frames
<1>10. TreeInv'
  BY <1>1, UnchangedTree DEF Inv
<1>11. RootAt'
  BY <1>1 DEF Inv, RootAt, Trying, tree
<1>12. Sorted' /\ Listed'
  BY <1>1 DEF Inv, Sorted, Listed, Frames, Found, Before, Unlisted
<1>13. AllListed'
  BY <1>1 DEF Inv, AllListed, Frames, Found, Unlisted
<1>14. Earlier' = Earlier \cup {i} /\ i \notin Earlier
  <2>1. \A j \in DOMAIN order : j < i + 1 <=> (j < i \/ j = i)
    BY <1>4
  <2>2. size'[order'[i]].w # 0
    BY <1>0, <1>1, <1>2
  <2>3. ~(i < i)
    BY <1>4
  <2> QED
    BY <1>1, <1>2, <2>1, <2>2, <2>3 DEF Earlier
<1>15. \A j \in Earlier : Box(order[j])' = Box(order[j]) /\ order'[j] = order[j]
  <2>1. TAKE j \in Earlier
  <2>2. j \in DOMAIN order /\ j # i
    BY <1>14 DEF Earlier
  <2>3. order[j] # f0 /\ order[j] \in Slots
    BY <1>0, <1>1, <1>2, <1>4, <2>2 DEF Inv, Listed
  <2>4. dest'[order[j]] = dest[order[j]]
    BY <1>8, <2>3
  <2> QED
    BY <1>1, <2>4 DEF Box
<1>16. SameRect(heap[ret], Box(f0)')
  BY <1>1, <1>2, <1>3, <1>7, <1>8 DEF SameRect, Box
<1>17. Own'
  <2>1. Held(f0)'
    <3>1. ret \in T!Nodes' /\ heap'[ret].used /\ SameRect(heap'[ret], Box(f0)')
      BY <1>1, <1>3, <1>16 DEF tree, T!Nodes
    <3> QED
      BY <3>1 DEF Held, SameRect
  <2>2. ASSUME NEW j \in Earlier PROVE Held(order[j])'
    <3>1. PICK n \in T!Nodes : heap[n].used /\ SameRect(heap[n], Box(order[j]))
      BY <1>1, <2>2 DEF Inv, Own, Held
    <3>2. n \in T!Nodes' /\ heap'[n].used /\ SameRect(heap'[n], Box(order[j])')
      BY <1>1, <1>15, <2>2, <3>1 DEF tree, T!Nodes
    <3> QED
      BY <3>2 DEF Held, SameRect
  <2>3. ASSUME NEW j \in Earlier
        PROVE  Disjoint(Box(order[j])', Box(f0)') /\ Disjoint(Box(f0)', Box(order[j])')
    <3>1. Disjoint(Box(order[j]), heap[ret])
      BY <1>3, <2>3
    <3>2. Disjoint(Box(order[j]), Box(f0)') /\ Disjoint(Box(f0)', Box(order[j]))
      BY <1>16, <3>1 DEF SameRect, Disjoint
    <3> QED
      BY <1>15, <2>3, <3>2
  <2>4. ASSUME NEW j \in Earlier, NEW k \in Earlier, j # k
        PROVE  Disjoint(Box(order[j])', Box(order[k])')
    <3>1. Disjoint(Box(order[j]), Box(order[k]))
      BY <1>1, <2>4 DEF Inv, Own
    <3> QED
      BY <1>15, <2>4, <3>1
  <2>5. order' = order /\ order'[i] = f0
    BY <1>0, <1>1
  <2>6. \A j \in Earlier' : Held(order[j])'
    BY <1>14, <2>1, <2>2, <2>5
  <2>7. \A j, k \in Earlier' : j # k => Disjoint(Box(order[j])', Box(order[k])')
    BY <1>14, <2>3, <2>4, <2>5
  <2> QED
    BY <2>6, <2>7 DEF Own
<1>18. FromFirst' /\ Calling' /\ Handed' /\ FramesApart'
  BY <1>1 DEF FromFirst, Calling, Handed, FramesApart
<1> QED
  BY <1>9, <1>10, <1>11, <1>12, <1>13, <1>17, <1>18 DEF Inv

(* All frames found are placed: they are apart, and in the texture.        *)
LEMMA FinishStep ==
  ASSUME PackAssumption, Inv, Finish
  PROVE  Inv'
<1>1. /\ pc = "insert" /\ i > Len(order) /\ pc' = "done"
      /\ UNCHANGED <<tree, size, dest, order, i, method, side, border>>
  BY DEF Finish
<1>2. TypeOK'
  BY <1>1 DEF Inv, TypeOK, Frames
<1>3. TreeInv'
  BY <1>1, UnchangedTree DEF Inv
<1>4. ASSUME NEW f \in Visible \cap Found
      PROVE  /\ f \in Frames /\ \E j \in Earlier : order[j] = f
  <2>1. f \in Found /\ f \in Frames /\ size[f].w # 0
    BY DEF Visible
  <2>2. PICK j \in DOMAIN order : order[j] = f
    BY <1>1, <2>1 DEF Inv, AllListed, Unlisted
  <2>3. j < i
    BY <1>1, <2>2, OrderType DEF Inv
  <2> QED
    BY <2>1, <2>2, <2>3 DEF Earlier
<1>5. ASSUME NEW f \in Visible \cap Found
      PROVE  /\ dest[f].x + size[f].w <= side
             /\ dest[f].y + size[f].h <= side
  <2>1. PICK n \in T!Nodes : heap[n].used /\ SameRect(heap[n], Box(f))
    BY <1>1, <1>4 DEF Inv, Own, Held
  <2>2. Inside(heap[n], heap[1]) /\ heap[n] \in T!Node
    BY <2>1, UsedInside DEF Inv
  <2> DEFINE x == dest[f].x
             y == dest[f].y
             w == size[f].w
             h == size[f].h
  <2>3. /\ heap[n].x = x /\ heap[n].y = y
        /\ heap[n].w = w + border /\ heap[n].h = h + border
    BY <2>1 DEF SameRect, Box
  <2>4. heap[n].x \in Nat /\ heap[n].y \in Nat
    BY <2>2 DEF T!Node
  <2>5. w \in Nat /\ h \in Nat /\ border \in Nat /\ side \in Int
    BY <1>4, FramesType, OrderType DEF Inv
  <2>6. /\ heap[1].x = 0 /\ heap[1].y = 0
        /\ heap[1].w = side + border /\ heap[1].h = side + border
    BY <1>1 DEF Inv, RootAt, Trying
  <2>7. /\ heap[n].x + heap[n].w <= heap[1].x + heap[1].w
        /\ heap[n].y + heap[n].h <= heap[1].y + heap[1].h
    BY <2>2 DEF Inside
  <2> HIDE DEF x, y, w, h
  <2>8. x + (w + border) <= 0 + (side + border) /\ y + (h + border) <= 0 + (side + border)
    BY <2>3, <2>6, <2>7
  <2>9. x \in Nat /\ y \in Nat
    BY <2>3, <2>4
  <2>10. x + w <= side /\ y + h <= side
    BY ONLY <2>5, <2>8, <2>9
  <2> QED
    BY <2>10 DEF x, y, w, h
<1>6. ASSUME NEW f \in Visible \cap Found, NEW g \in (Visible \cap Found) \ {f}
      PROVE  Disjoint(Box(f), Box(g))
  <2>1. PICK j \in Earlier : order[j] = f
    BY <1>4
  <2>2. PICK k \in Earlier : order[k] = g
    BY <1>4
  <2>3. j # k
    BY <2>1, <2>2
  <2> QED
    BY <1>1, <2>1, <2>2, <2>3 DEF Inv, Own
<1>7. FramesApart'
  <2>1. Visible' = Visible /\ Found' = Found /\ \A f : Box(f)' = Box(f)
    BY <1>1 DEF Visible, Found, Box, Frames
  <2> QED
    BY <1>1, <1>5, <1>6, <2>1 DEF FramesApart
<1>8. RootAt' /\ Listed' /\ Sorted' /\ AllListed' /\ FromFirst' /\ Calling' /\ Own' /\ Handed'
  BY <1>1 DEF RootAt, Listed, Sorted, AllListed, FromFirst, Calling, Own, Handed, Trying
<1> QED
  BY <1>2, <1>3, <1>7, <1>8 DEF Inv

(* A step that changes nothing.                                            *)
LEMMA Stutter ==
  ASSUME PackAssumption, Inv, UNCHANGED vars
  PROVE  Inv'
<1>1. UNCHANGED <<tree, size, dest, order, i, method, side, border, pc>>
  BY DEF vars
<1>2. UNCHANGED <<heap, call, stack, ret, claimed>>
  BY <1>1 DEF tree
<1>3. TypeOK'
  BY <1>1 DEF Inv, TypeOK, Frames
<1>4. TreeInv'
  BY <1>1, UnchangedTree DEF Inv
<1>5. RootAt'
  BY <1>1, <1>2 DEF Inv, RootAt, Trying
<1>6. Listed' /\ Sorted' /\ AllListed'
  BY <1>1 DEF Inv, Listed, Sorted, AllListed, Frames, Found, Before, Unlisted
<1>7. FromFirst' /\ Calling'
  BY <1>1, <1>2 DEF Inv, FromFirst, Calling
<1>8. Earlier' = Earlier /\ (\A f : Box(f)' = Box(f)) /\ \A f : Held(f)' <=> Held(f)
  BY <1>1, <1>2 DEF Earlier, Box, Held, SameRect, T!Nodes
<1>9. Own' /\ Handed'
  BY <1>1, <1>2, <1>8 DEF Inv, Own, Handed, T!Nodes
<1>10. FramesApart'
  BY <1>1, <1>8 DEF Inv, FramesApart, Visible, Found, Frames
<1> QED
  BY <1>3, <1>4, <1>5, <1>6, <1>7, <1>9, <1>10 DEF Inv

(* The invariant holds of frames, list and tree as they are at the start,  *)
LEMMA InvStart ==
  ASSUME PackAssumption, call \in Boxes, stack = <<>>, ret = 0, claimed = 0,
         heap = <<Tree!NewNode(0, 0, StartSide, StartSide)>>,
         size = <<>>, dest = [f \in Slots |-> [x |-> 0, y |-> 0]], order = <<>>,
         i = 1, method = 0, side = StartSide, border = 0, pc = "done"
  PROVE  Inv
<1>1. StartSide \in Int /\ BorderMax \in Nat /\ FrameMax \in Nat
  BY StartSideIsNat DEF PackAssumption
<1>2. dest \in [Slots -> [x : Nat, y : Nat]]
  OBVIOUS
<1>3. Frames = {}
  BY DEF Frames
<1>4. TypeOK
  BY <1>1, <1>2, <1>3 DEF TypeOK, Methods
<1>5. FramesApart
  BY <1>3 DEF FramesApart, Visible
<1>6. RootAt /\ Listed /\ Sorted /\ AllListed /\ FromFirst /\ Calling /\ Own /\ Handed
  BY DEF RootAt, Listed, Sorted, AllListed, FromFirst, Calling, Own, Handed, Trying
<1>7. TreeInv
  BY TreeInvInit
<1> QED
  BY <1>4, <1>5, <1>6, <1>7 DEF Inv

(* so initially.                                                           *)
LEMMA InvInit ==
  ASSUME PackAssumption, Init
  PROVE  Inv
<1>1. call \in Boxes
  BY BoxesOfFrames DEF Init
<1> QED
  BY <1>1, InvStart DEF Init, Tree!Null

(* Pack_All at work keeps it,                                              *)
LEMMA WorkStep ==
  ASSUME PackAssumption, Inv, Work
  PROVE  Inv'
<1>1. CASE QuickReject
  BY <1>1, NextTryStep DEF QuickReject
<1>2. CASE StartTry
  BY <1>2, StartTryStep
<1>3. CASE FirstPass
  BY <1>3, FirstStep, NothingFoundStep
<1>4. CASE SortPass
  BY <1>4, LinkStep, SortedStep
<1>5. CASE SkipFrame
  BY <1>5, SkipStep
<1>6. CASE InsertFrame
  BY <1>6, InsertFrameStep
<1>7. CASE Search
  BY <1>7, SearchStep
<1>8. CASE Placed
  BY <1>8, PlacedStep
<1>9. CASE NoRoom
  BY <1>9, NextTryStep DEF NoRoom
<1>10. CASE Finish
  BY <1>10, FinishStep
<1> QED
  BY <1>1, <1>2, <1>3, <1>4, <1>5, <1>6, <1>7, <1>8, <1>9, <1>10 DEF Work

(* and so does every step.                                                 *)
LEMMA InvStep ==
  ASSUME PackAssumption, Inv, [Next]_vars
  PROVE  Inv'
<1>1. ASSUME NEW s \in BoundedSeq(FrameSizes, FrameMax), NEW b \in Borders, PackAll(s, b)
      PROVE  Inv'
  BY <1>1, PackAllStep
<1>2. CASE Work
  BY <1>2, WorkStep
<1>3. CASE UNCHANGED vars
  BY <1>3, Stutter
<1> QED
  BY <1>1, <1>2, <1>3 DEF Next

(* Whatever frames, borders and sides there are and however often Pack_All *)
(* is called, the invariant holds.                                         *)
THEOREM PackInvariant == ASSUME PackAssumption PROVE Spec => []Inv
<1>1. Init => Inv
  BY InvInit
<1>2. Inv /\ [Next]_vars => Inv'
  BY InvStep
<1> QED
  BY <1>1, <1>2, PTL DEF Spec

(* The packing fields keep their types; no frame ever gets a negative      *)
(* position.                                                               *)
THEOREM PackTypeCorrect == ASSUME PackAssumption PROVE Spec => []TypeOK
<1>1. Inv => TypeOK
  BY DEF Inv
<1> QED
  BY <1>1, PackInvariant, PTL

(* When Pack_All returns, all frames with pixels that Sort has found are   *)
(* inside the texture and a border apart, whatever attempts failed before  *)
(* and even if the side has overflowed.  Sort does not find a frame whose  *)
(* key has wrapped below 0.                                                *)
THEOREM PackedApart == ASSUME PackAssumption PROVE Spec => []FramesApart
<1>1. Inv => FramesApart
  BY DEF Inv
<1> QED
  BY <1>1, PackInvariant, PTL

(* A product of numbers below a bound                                      *)
LEMMA ProductBelow ==
  ASSUME NEW a \in Nat, NEW b \in Nat, a < b
  PROVE  a * a < b * b
<1>1. a * a <= a * b /\ a * b < b * b
  OBVIOUS
<1> QED
  BY <1>1, ProductIsNat

(* Sort finds every frame if a long can count the pixels: the key of       *)
(* method 1 is the square of a number of pixels, and a long long has twice *)
(* as many bits as a long.                                                 *)
LEMMA CountedFound ==
  ASSUME PackAssumption, TypeOK, PixelsCounted
  PROVE  Found = Frames
<1> DEFINE areas == [f \in Frames |-> size[f].w * size[f].h]
           H == TwoTo[LongBits - 1]
           HH == TwoTo[2 * LongBits - 1]
<1>1. /\ Frames = 1 .. Len(size) /\ Len(size) \in Nat
      /\ \A f \in Frames : size[f].w \in Nat /\ size[f].h \in Nat
  BY FramesType
<1>2. \A f \in Frames : areas[f] = size[f].w * size[f].h /\ areas[f] \in Nat
  BY <1>1, ProductIsNat
<1>3. areas \in Seq(Nat) /\ Len(areas) = Len(size)
  <2> DEFINE n == Len(size)
  <2>1. n \in Nat /\ Frames = 1 .. n
    BY <1>1
  <2>2. areas \in [1 .. n -> Nat]
    BY <1>2, <2>1
  <2> HIDE DEF areas, n
  <2>3. areas \in Seq(Nat) /\ Len(areas) = n
    BY <2>1, <2>2
  <2> QED
    BY <2>3 DEF n
<1>4. SumOf(areas) \in Nat /\ SumOf(areas) < H
  BY <1>3, SumIsNat DEF PixelsCounted
<1>5. H \in Nat /\ H * H <= HH /\ H <= HH /\ HH \in Nat
  <2>1. LongBits \in Nat \ {0} /\ LongBits - 1 \in Nat
        /\ (LongBits - 1) + (LongBits - 1) \in Nat /\ 2 * LongBits - 1 \in Nat
        /\ (LongBits - 1) + (LongBits - 1) <= 2 * LongBits - 1
        /\ LongBits - 1 <= 2 * LongBits - 1
    BY DEF PackAssumption
  <2>2. H * H = TwoTo[(LongBits - 1) + (LongBits - 1)]
    BY <2>1, TwoToSum
  <2> QED
    BY <2>1, <2>2, TwoToGrows, TwoToIsNat
<1> HIDE DEF areas, H, HH
<1>6. ASSUME NEW f \in Frames PROVE Key(size[f], method) >= 0
  <2> DEFINE w == size[f].w
             h == size[f].h
  <2>1. w \in Nat /\ h \in Nat /\ w * h \in Nat
    BY <1>1, ProductIsNat
  <2>2. w * h < H
    <3>1. f \in 1 .. Len(areas) /\ areas[f] = w * h
      BY <1>1, <1>2, <1>3
    <3>2. areas[f] <= SumOf(areas)
      BY <1>3, <3>1, SumAtLeast
    <3> HIDE DEF w, h
    <3> QED
      BY <1>4, <1>5, <2>1, <3>1, <3>2
  <2>3. (w * w) * (h * h) = (w * h) * (w * h)
    <3> HIDE DEF w, h
    <3> QED
      BY <2>1
  <2>4. (w * h) * (w * h) \in Nat /\ (w * h) * (w * h) < HH
    <3> DEFINE p == w * h
    <3>1. p \in Nat /\ p < H
      BY <2>1, <2>2
    <3> HIDE DEF p
    <3>2. p * p < H * H /\ p * p \in Nat /\ H * H \in Nat
      BY <1>5, <3>1, ProductBelow, ProductIsNat
    <3>3. p * p \in Nat /\ p * p < HH
      BY <1>5, <3>2
    <3> QED
      BY <3>3 DEF p
  <2>5. 2 * LongBits \in Nat \ {0}
    BY DEF PackAssumption
  <2>6. LongLong(w * h) = w * h
    <3>1. w * h < TwoTo[2 * LongBits - 1]
      BY <1>5, <2>1, <2>2 DEF HH
    <3> HIDE DEF w, h
    <3> QED
      BY <2>1, <2>5, <3>1, SignedExact DEF LongLong
  <2>7. LongLong((w * w) * (h * h)) = (w * h) * (w * h)
    <3> HIDE DEF w, h
    <3> QED
      BY <2>3, <2>4, <2>5, SignedExact DEF LongLong, HH
  <2>8. method \in {0, 1, 2, 3}
    BY DEF TypeOK, Methods
  <2>9. \/ method = 0 /\ Key(size[f], method) = LongLong(w * h)
        \/ method = 1 /\ Key(size[f], method) = LongLong((w * w) * (h * h))
        \/ method = 2 /\ Key(size[f], method) = w
        \/ method = 3 /\ Key(size[f], method) = h
    BY <2>8 DEF Key
  <2> HIDE DEF w, h
  <2> QED
    BY <2>1, <2>4, <2>6, <2>7, <2>9
<1> QED
  BY <1>6 DEF Found

(* At the time frames are inserted the list has each frame that Sort finds *)
(* once, if there are any.                                                 *)
LEMMA InvSorted ==
  ASSUME PackAssumption, Inv
  PROVE  SortedList
<1>1. SUFFICES ASSUME pc \in {"insert", "search"} PROVE
        /\ IsInjective(order) /\ ToSet(order) \subseteq Frames
        /\ PixelsCounted => Found = Frames
        /\ Found # {} =>
             /\ ToSet(order) = Found
             /\ \A j, k \in DOMAIN order : j < k => Before(order[j], order[k])
  BY DEF SortedList, Before
<1>2. TypeOK /\ Sorted /\ Listed
  BY DEF Inv
<1>3. IsInjective(order)
  BY <1>1, <1>2 DEF Listed, IsInjective
<1>4. ToSet(order) \subseteq Frames
  BY <1>1, <1>2 DEF Listed, ToSet
<1>5. ASSUME Found # {}
      PROVE  /\ ToSet(order) = Found
             /\ \A j, k \in DOMAIN order : j < k => Before(order[j], order[k])
  <2>1. \A j \in DOMAIN order : order[j] \in Found
    BY <1>1, <1>2, <1>5 DEF Sorted
  <2>2. \A f \in Found : \E j \in DOMAIN order : order[j] = f
    BY <1>1 DEF Inv, AllListed, Unlisted
  <2>3. ToSet(order) = Found
    BY <2>1, <2>2 DEF ToSet
  <2>4. \A j, k \in DOMAIN order : j < k => Before(order[j], order[k])
    BY <1>1, <1>2, <1>5 DEF Sorted
  <2> QED
    BY <2>3, <2>4
<1> QED
  BY <1>2, <1>3, <1>4, <1>5, CountedFound

(* The list Sort links is every frame it finds once, the largest first,    *)
(* and it finds all frames if a long can count their pixels; where it      *)
(* finds none the list of an earlier attempt stays, with no frame twice.   *)
THEOREM ListIsSorted == ASSUME PackAssumption PROVE Spec => []SortedList
<1>1. Inv => SortedList
  BY InvSorted
<1> QED
  BY <1>1, PackInvariant, PTL

(* Frames whose pixels a long can count are all packed: inside the texture *)
(* and a border apart.                                                     *)
CountedApart ==
  pc = "done" /\ PixelsCounted =>
    \A f \in Visible :
      /\ dest[f].x + size[f].w <= side
      /\ dest[f].y + size[f].h <= side
      /\ \A g \in Visible \ {f} : Disjoint(Box(f), Box(g))

(* When Pack_All returns, no frame has been left out as long as a long can *)
(* count the pixels.                                                       *)
THEOREM CountedFramesApart == ASSUME PackAssumption PROVE Spec => []CountedApart
<1>1. ASSUME Inv PROVE CountedApart
  <2>1. SUFFICES ASSUME pc = "done", PixelsCounted
        PROVE  \A f \in Visible :
                 /\ dest[f].x + size[f].w <= side
                 /\ dest[f].y + size[f].h <= side
                 /\ \A g \in Visible \ {f} : Disjoint(Box(f), Box(g))
    BY DEF CountedApart
  <2>2. Visible \cap Found = Visible
    BY <1>1, <2>1, CountedFound DEF Inv, Visible
  <2> QED
    BY <1>1, <2>1, <2>2 DEF Inv, FramesApart
<1> QED
  BY <1>1, PackInvariant, PTL
-----------------------------------------------------------------------------
(* The width of long. What Pack_All does is right up to the side whose     *)
(* square a long can hold. It goes on to larger ones only after frames     *)
(* whose pixels a long cannot count: they are excluded from here on.       *)

(* A division of a multiple leaves nothing.                                *)
LEMMA MultipleRest ==
  ASSUME NEW M \in Nat \ {0}, NEW q \in Nat
  PROVE  (M * q) % M = 0
OBVIOUS

(* A long holds a number of fewer bits,                                    *)
LEMMA LongExact ==
  ASSUME PackAssumption, NEW x \in Nat, x < TwoTo[LongBits - 1]
  PROVE  Long(x) = x
BY SignedExact DEF Long, PackAssumption

(* drops the bits of a power of two that is too large,                     *)
LEMMA LongOfPower ==
  ASSUME PackAssumption, NEW n \in Nat, LongBits <= n
  PROVE  Long(TwoTo[n]) = 0
<1> DEFINE M == TwoTo[LongBits]
           H == TwoTo[LongBits - 1]
           q == TwoTo[n - LongBits]
<1>1. M \in Nat \ {0} /\ M = 2 * H /\ H \in Nat \ {0} /\ LongBits \in Nat
  BY BitsFacts
<1>2. n - LongBits \in Nat /\ LongBits + (n - LongBits) = n
  BY <1>1
<1>3. q \in Nat /\ TwoTo[n] = M * q
  BY <1>1, <1>2, TwoToIsNat, TwoToSum
<1>4. Long(TwoTo[n]) = LET m == (M * q) % M IN IF m >= H THEN m - M ELSE m
  BY <1>3 DEF Long, Signed
<1> HIDE DEF M, H, q
<1>5. (M * q) % M = 0
  BY <1>1, <1>3, MultipleRest
<1> QED
  BY <1>1, <1>4, <1>5

(* and takes its last bit for the sign.                                    *)
LEMMA LongOfSign ==
  ASSUME PackAssumption
  PROVE  Long(TwoTo[LongBits - 1]) = -TwoTo[LongBits - 1]
<1> DEFINE M == TwoTo[LongBits]
           H == TwoTo[LongBits - 1]
<1>1. M \in Nat \ {0} /\ M = 2 * H /\ H \in Nat \ {0}
  BY BitsFacts
<1>2. Long(H) = LET m == H % M IN IF m >= H THEN m - M ELSE m
  BY DEF Long, Signed
<1> HIDE DEF M, H
<1>3. H % M = H
  BY <1>1
<1>4. Long(H) = -H
  BY <1>1, <1>2, <1>3
<1> QED
  BY <1>4 DEF H

LEMMA LongOfMinus ==
  ASSUME PackAssumption
  PROVE  Long(-TwoTo[LongBits]) = 0
<1> DEFINE M == TwoTo[LongBits]
           H == TwoTo[LongBits - 1]
<1>1. M \in Nat \ {0} /\ M = 2 * H /\ H \in Nat \ {0}
  BY BitsFacts
<1>2. Long(-M) = LET m == (-M) % M IN IF m >= H THEN m - M ELSE m
  BY DEF Long, Signed
<1> HIDE DEF M, H
<1>3. (-M) % M = 0
  BY <1>1
<1>4. Long(-M) = 0
  BY <1>1, <1>2, <1>3
<1> QED
  BY <1>4 DEF M

(* The sides doubling leads to: powers of two, the sign, and then 0.       *)
Doubled ==
  \/ \E s, k \in Nat : /\ StartSide = TwoTo[s] /\ s + k <= LongBits - 2
                       /\ side = TwoTo[s + k]
  \/ side = -TwoTo[LongBits - 1]
  \/ side = 0

(* Pack_All begins with one.                                               *)
LEMMA FirstSide ==
  ASSUME PackAssumption
  PROVE  \E s, k \in Nat : /\ StartSide = TwoTo[s] /\ s + k <= LongBits - 2
                           /\ StartSide = TwoTo[s + k]
<1>1. PICK s \in 0 .. LongBits \div 2 - 1 : StartSide = TwoTo[s]
  BY BitsFacts
<1>2. s \in Nat /\ s + 0 <= LongBits - 2 /\ s + 0 = s /\ 0 \in Nat
  BY <1>1, BitsFacts
<1> QED
  BY <1>1, <1>2

(* After every one comes another.                                          *)
LEMMA NextSide ==
  ASSUME PackAssumption, Doubled, side' = Long(2 * side)
  PROVE  Doubled'
<1> DEFINE H == TwoTo[LongBits - 1]
<1>1. LongBits \in Nat /\ LongBits - 1 \in Nat /\ LongBits >= 2
      /\ TwoTo[LongBits] = 2 * H /\ H \in Nat \ {0}
  BY BitsFacts
<1>2. ASSUME NEW s \in Nat, NEW k \in Nat, StartSide = TwoTo[s], s + k <= LongBits - 2,
             side = TwoTo[s + k]
      PROVE  Doubled'
  <2>1. s + k \in Nat /\ 2 * side = TwoTo[(s + k) + 1]
    BY <1>2, TwoToNext
  <2>2. CASE s + k < LongBits - 2
    <3>1. (s + k) + 1 \in Nat /\ (s + k) + 1 <= LongBits - 2 /\ k + 1 \in Nat
          /\ s + (k + 1) = (s + k) + 1 /\ LongBits - 2 \in Nat
          /\ (LongBits - 2) + 1 = LongBits - 1
      BY <1>1, <2>1, <2>2
    <3>2. TwoTo[(s + k) + 1] \in Nat /\ TwoTo[(s + k) + 1] <= TwoTo[LongBits - 2]
      BY <3>1, TwoToGrows, TwoToIsNat
    <3>3. H = 2 * TwoTo[LongBits - 2] /\ TwoTo[LongBits - 2] \in Nat \ {0}
      BY <3>1, TwoToNext, TwoToIsNat
    <3>4. TwoTo[(s + k) + 1] < H
      BY <3>2, <3>3
    <3>5. side' = TwoTo[s + (k + 1)]
      BY <2>1, <3>1, <3>2, <3>4, LongExact
    <3> QED
      BY <1>2, <3>1, <3>5 DEF Doubled
  <2>3. CASE s + k = LongBits - 2
    <3>1. (s + k) + 1 = LongBits - 1
      BY <1>1, <2>3
    <3>2. side' = -H
      BY <2>1, <3>1, LongOfSign
    <3> QED
      BY <3>2 DEF Doubled
  <2> QED
    BY <1>1, <1>2, <2>1, <2>2, <2>3
<1>3. CASE side = -H
  <2>1. 2 * side = -TwoTo[LongBits]
    BY <1>1, <1>3
  <2>2. side' = 0
    BY <2>1, LongOfMinus
  <2> QED
    BY <2>2 DEF Doubled
<1>4. CASE side = 0
  <2>1. 2 * side = 0 /\ 0 \in Nat /\ 0 < H
    BY <1>1, <1>4
  <2>2. side' = 0
    BY <2>1, LongExact
  <2> QED
    BY <2>2 DEF Doubled
<1> QED
  BY <1>2, <1>3, <1>4 DEF Doubled

(* The quick check lets pass no frame with a pixel once the square of the  *)
(* side is more than a long can hold.                                      *)
LEMMA SquareOfSide ==
  ASSUME PackAssumption, Doubled, Long(side * side) > 0
  PROVE  side \in 1 .. SideMax /\ side \in Sides
<1> DEFINE H == TwoTo[LongBits - 1]
           b == LongBits \div 2
<1>1. b \in Nat \ {0} /\ LongBits = 2 * b
      /\ LongBits \in Nat /\ LongBits - 1 \in Nat /\ LongBits >= 2
      /\ TwoTo[LongBits] = 2 * H /\ H \in Nat \ {0}
  BY BitsFacts
<1>2. ASSUME NEW s \in Nat, NEW k \in Nat, StartSide = TwoTo[s], s + k <= LongBits - 2,
             side = TwoTo[s + k]
      PROVE  side \in 1 .. SideMax /\ side \in Sides
  <2>1. s + k \in Nat /\ (s + k) + (s + k) \in Nat
    BY <1>2
  <2>2. side * side = TwoTo[(s + k) + (s + k)]
    BY <1>2, <2>1, TwoToSum
  <2>3. ~(LongBits <= (s + k) + (s + k))
    BY <2>1, <2>2, LongOfPower
  <2>4. s + k <= b - 1 /\ b - 1 \in Nat
    BY <1>1, <2>1, <2>3
  <2>5. TwoTo[s + k] <= TwoTo[b - 1] /\ TwoTo[s + k] \in Nat \ {0}
    BY <2>1, <2>4, TwoToGrows, TwoToIsNat
  <2>6. side = StartSide * TwoTo[k] /\ k \in 0 .. LongBits
    <3>1. TwoTo[s + k] = TwoTo[s] * TwoTo[k]
      BY TwoToSum
    <3> QED
      BY <1>1, <1>2, <3>1
  <2>7. TwoTo[b - 1] \in Nat
    BY <2>4, TwoToIsNat
  <2> QED
    BY <1>2, <2>5, <2>6, <2>7 DEF SideMax, Sides
<1>3. CASE side = -H
  <2>1. side * side = H * H
    BY <1>1, <1>3
  <2>2. H * H = TwoTo[(LongBits - 1) + (LongBits - 1)]
    BY <1>1, TwoToSum
  <2>3. LongBits <= (LongBits - 1) + (LongBits - 1) /\ (LongBits - 1) + (LongBits - 1) \in Nat
    BY <1>1
  <2>4. Long(side * side) = 0
    BY <2>1, <2>2, <2>3, LongOfPower
  <2> QED
    BY <2>4
<1>4. CASE side = 0
  <2>1. side * side = 0 /\ 0 \in Nat /\ 0 < H
    BY <1>1, <1>4
  <2>2. Long(side * side) = 0
    BY <2>1, LongExact
  <2> QED
    BY <2>2
<1> QED
  BY <1>2, <1>3, <1>4 DEF Doubled

(* A frame with pixels counts at least one,                                *)
LEMMA SomePixels ==
  ASSUME PackAssumption, TypeOK, PixelsCounted
  PROVE  /\ Pixels \in Nat
         /\ Visible # {} => Pixels >= 1
         /\ Visible = {} => Pixels = 0
<1> DEFINE areas == [f \in Frames |-> size[f].w * size[f].h]
<1>1. /\ Frames = 1 .. Len(size) /\ Len(size) \in Nat
      /\ \A f \in Frames : /\ size[f].w \in Nat /\ size[f].h \in Nat
                           /\ size[f].w # 0 => size[f].h # 0
  BY FramesType
<1>2. \A f \in Frames : areas[f] = size[f].w * size[f].h /\ areas[f] \in Nat
  BY <1>1, ProductIsNat
<1>3. areas \in Seq(Nat) /\ Len(areas) = Len(size)
  <2> DEFINE n == Len(size)
  <2>1. n \in Nat /\ Frames = 1 .. n
    BY <1>1
  <2>2. areas \in [1 .. n -> Nat]
    BY <1>2, <2>1
  <2> HIDE DEF areas, n
  <2>3. areas \in Seq(Nat) /\ Len(areas) = n
    BY <2>1, <2>2
  <2> QED
    BY <2>3 DEF n
<1>4. SumOf(areas) \in Nat /\ SumOf(areas) < TwoTo[LongBits - 1]
  BY <1>3, SumIsNat DEF PixelsCounted
<1>5. Pixels = SumOf(areas)
  <2>1. Pixels = Long(SumOf(areas))
    BY DEF Pixels
  <2> HIDE DEF areas
  <2> QED
    BY <1>4, <2>1, LongExact
<1> HIDE DEF areas
<1>6. ASSUME NEW f \in Visible PROVE Pixels >= 1
  <2>1. f \in Frames /\ size[f].w # 0
    BY DEF Visible
  <2>2. size[f].w \in Nat \ {0} /\ size[f].h \in Nat \ {0}
    BY <1>1, <2>1
  <2>3. size[f].w * size[f].h >= 1
    BY <2>2
  <2>4. areas[f] >= 1 /\ areas[f] \in Nat /\ f \in 1 .. Len(areas)
    BY <1>1, <1>2, <1>3, <2>1, <2>3
  <2>5. areas[f] <= SumOf(areas)
    BY <1>3, <2>4, SumAtLeast
  <2> QED
    BY <1>4, <1>5, <2>4, <2>5
<1>7. CASE Visible = {}
  <2>1. ASSUME NEW f \in Frames PROVE areas[f] = 0
    <3>1. size[f].w = 0 /\ size[f].h \in Nat
      BY <1>1, <1>7, <2>1 DEF Visible
    <3>2. size[f].w * size[f].h = 0
      BY <3>1
    <3> QED
      BY <1>2, <2>1, <3>2
  <2>2. \A f \in 1 .. Len(areas) : areas[f] = 0
    BY <1>1, <1>3, <2>1
  <2>3. SumOf(areas) = 0
    BY <1>3, <2>2, SumOfZeros
  <2> QED
    BY <1>5, <1>7, <2>3
<1> QED
  BY <1>4, <1>5, <1>6, <1>7

(* The first side is one whose square a long can hold.                     *)
LEMMA FirstSquare ==
  ASSUME PackAssumption
  PROVE  Long(StartSide * StartSide) >= 0 /\ StartSide \in Sides
<1>1. PICK s \in 0 .. LongBits \div 2 - 1 : StartSide = TwoTo[s]
  BY BitsFacts
<1>2. s \in Nat /\ s + s \in Nat /\ s + s + 1 <= LongBits - 1 /\ LongBits - 1 \in Nat
      /\ s + s + 1 \in Nat
  BY <1>1, BitsFacts
<1>3. StartSide * StartSide = TwoTo[s + s]
  BY <1>1, <1>2, TwoToSum
<1>4. TwoTo[s + s] \in Nat \ {0} /\ TwoTo[s + s + 1] = 2 * TwoTo[s + s]
      /\ TwoTo[s + s + 1] <= TwoTo[LongBits - 1] /\ TwoTo[LongBits - 1] \in Nat
  BY <1>2, TwoToGrows, TwoToNext, TwoToIsNat
<1>5. TwoTo[s + s] < TwoTo[LongBits - 1]
  BY <1>4
<1>6. Long(TwoTo[s + s]) = TwoTo[s + s]
  BY <1>4, <1>5, LongExact
<1>7. StartSide \in Sides
  <2>1. StartSide = StartSide * TwoTo[0] /\ 0 \in 0 .. LongBits
    BY TwoToNext, StartSideIsNat, BitsFacts
  <2> QED
    BY <2>1 DEF Sides
<1> QED
  BY <1>3, <1>4, <1>6, <1>7

(* What is known of side and positions.  A square that holds a frame with  *)
(* pixels is of a side that a long can square; without such frames the     *)
(* first one does.  No position ever is outside of the largest square.     *)
SideInv ==
  /\ Doubled
  /\ Visible # {} /\ pc # "try" => side \in 1 .. SideMax /\ side \in Sides
  /\ Visible = {} => side = StartSide
  /\ \A f \in Slots : dest[f].x < SideMax /\ dest[f].y < SideMax

(* Pack_All is called.                                                     *)
LEMMA SidePackAll ==
  ASSUME PackAssumption, SideInv, NEW s, NEW b, PackAll(s, b)
  PROVE  SideInv'
<1>1. side' = StartSide /\ pc' = "try" /\ dest' = dest
  BY DEF PackAll
<1>2. Doubled'
  BY <1>1, FirstSide DEF Doubled
<1> QED
  BY <1>1, <1>2 DEF SideInv

(* An attempt is given up.                                                 *)
LEMMA SideNextTry ==
  ASSUME PackAssumption, SideInv, Visible # {}, NextTry, UNCHANGED <<size, dest>>
  PROVE  SideInv'
<1>1. Doubled'
  <2>1. CASE side' = side
    BY <2>1 DEF SideInv, Doubled
  <2>2. CASE side' = Long(2 * side)
    BY <2>2, NextSide DEF SideInv
  <2> QED
    BY <2>1, <2>2 DEF NextTry
<1>2. Visible' = Visible /\ pc' = "try" /\ dest' = dest
  BY DEF Visible, Frames, NextTry
<1> QED
  BY <1>1, <1>2 DEF SideInv

(* Steps that change neither side nor positions.                           *)
LEMMA SideSame ==
  ASSUME SideInv, UNCHANGED <<size, dest, side>>, pc' # "try" => pc # "try"
  PROVE  SideInv'
<1>1. Visible' = Visible
  BY DEF Visible, Frames
<1> QED
  BY <1>1 DEF SideInv, Doubled

(* The quick check rejects, and only if there is a frame with pixels.      *)
LEMMA SideReject ==
  ASSUME PackAssumption, TypeOK, PixelsCounted, SideInv, QuickReject
  PROVE  SideInv'
<1>1. Visible # {}
  <2>1. SUFFICES ASSUME Visible = {} PROVE FALSE
    OBVIOUS
  <2>2. Pixels = 0 /\ side = StartSide
    BY <2>1, SomePixels DEF SideInv
  <2>3. Long(StartSide * StartSide) >= 0 /\ Long(StartSide * StartSide) \in Int
    <3>1. StartSide \in Nat
      BY StartSideIsNat
    <3>2. StartSide * StartSide \in Int
      BY <3>1
    <3> QED
      BY <3>2, FirstSquare, LongIsInt
  <2> QED
    BY <2>2, <2>3 DEF QuickReject
<1> QED
  BY <1>1, SideNextTry DEF QuickReject

(* It lets a side pass.                                                    *)
LEMMA SideTry ==
  ASSUME PackAssumption, TypeOK, PixelsCounted, SideInv, StartTry
  PROVE  /\ SideInv' /\ side \in Sides
<1>1. UNCHANGED <<size, dest, side>> /\ Pixels <= Long(side * side) /\ pc' = "first"
  BY DEF StartTry
<1>2. CASE Visible = {}
  <2>1. side = StartSide
    BY <1>2 DEF SideInv
  <2>2. Visible' = Visible
    BY <1>1 DEF Visible, Frames
  <2> QED
    BY <1>1, <1>2, <2>1, <2>2, FirstSquare DEF SideInv, Doubled
<1>3. CASE Visible # {}
  <2>1. Pixels >= 1 /\ Pixels \in Nat
    BY <1>3, SomePixels
  <2>2. Long(side * side) \in Int
    <3>1. side * side \in Int
      BY DEF TypeOK
    <3> QED
      BY <3>1, LongIsInt
  <2>3. Long(side * side) > 0
    BY <1>1, <2>1, <2>2
  <2>4. side \in 1 .. SideMax /\ side \in Sides
    BY <2>3, SquareOfSide DEF SideInv
  <2>5. Visible' = Visible
    BY <1>1 DEF Visible, Frames
  <2> QED
    BY <1>1, <1>3, <2>4, <2>5 DEF SideInv, Doubled
<1> QED
  BY <1>2, <1>3

(* While a frame is searched a place for, it is there.                     *)
LEMMA SearchVisible ==
  ASSUME PackAssumption, Inv, pc = "search"
  PROVE  order[i] \in Visible /\ order[i] \in Slots
<1>1. i \in DOMAIN order /\ size[order[i]].w # 0
  BY DEF Inv, Calling
<1>2. order[i] \in Frames
  BY <1>1 DEF Inv, Listed
<1> QED
  BY <1>1, <1>2 DEF Visible, Inv, TypeOK

(* The place of a frame is a box inside the root, and not an empty one.    *)
LEMMA SidePlaced ==
  ASSUME PackAssumption, Inv, SideInv, Placed
  PROVE  SideInv'
<1>0. PICK f0 : f0 = order[i]
  OBVIOUS
<1>1. /\ pc = "search" /\ pc' = "insert" /\ stack = <<>> /\ ret # 0
      /\ dest' = [dest EXCEPT ![f0] = [x |-> heap[ret].x, y |-> heap[ret].y]]
      /\ UNCHANGED <<tree, size, order, method, side, border>>
  BY <1>0 DEF Placed, Tree!Null
<1>2. f0 \in Visible /\ f0 \in Slots /\ f0 \in Frames /\ size[f0].w # 0
  BY <1>0, <1>1, SearchVisible DEF Visible
<1>3. /\ call.w = size[f0].w + border /\ call.h = size[f0].h + border
      /\ ret \in T!Nodes /\ heap[ret].used
      /\ heap[ret].w = call.w /\ heap[ret].h = call.h
  BY <1>0, <1>1 DEF Inv, Calling, Handed
<1>4. /\ size[f0].w \in Nat \ {0} /\ size[f0].h \in Nat \ {0} /\ border \in Nat
  BY <1>2, FramesType DEF Inv
<1>5. Inside(heap[ret], heap[1]) /\ heap[ret].x \in Nat /\ heap[ret].y \in Nat
  <2>1. Inside(heap[ret], heap[1]) /\ heap[ret] \in T!Node
    BY <1>3, UsedInside DEF Inv
  <2> QED
    BY <2>1 DEF T!Node
<1>6. /\ heap[1].x = 0 /\ heap[1].y = 0
      /\ heap[1].w = side + border /\ heap[1].h = side + border
  BY <1>1 DEF Inv, RootAt, Trying
<1>7. side \in Nat /\ side <= SideMax /\ SideMax \in Nat
  BY <1>1, <1>2, BitsFacts DEF SideInv
<1>8. /\ heap[ret].x + (size[f0].w + border) <= 0 + (side + border)
      /\ heap[ret].y + (size[f0].h + border) <= 0 + (side + border)
  BY <1>3, <1>5, <1>6 DEF Inside
<1>9. heap[ret].x < SideMax /\ heap[ret].y < SideMax
  BY <1>4, <1>5, <1>7, <1>8
<1>10. dest \in [Slots -> [x : Nat, y : Nat]]
  BY DEF Inv, TypeOK
<1>11. \A f \in Slots : dest'[f].x < SideMax /\ dest'[f].y < SideMax
  BY <1>1, <1>2, <1>9, <1>10 DEF SideInv
<1>12. Visible' = Visible
  BY <1>1 DEF Visible, Frames
<1> QED
  BY <1>1, <1>11, <1>12 DEF SideInv, Doubled

(* No step can break it.                                                   *)
LEMMA SideWork ==
  ASSUME PackAssumption, Inv, PixelsCounted, SideInv, Work
  PROVE  SideInv'
<1>1. TypeOK
  BY DEF Inv
<1>2. CASE QuickReject
  BY <1>1, <1>2, SideReject
<1>3. CASE StartTry
  BY <1>1, <1>3, SideTry
<1>4. CASE FirstPass
  BY <1>4, SideSame DEF FirstPass
<1>5. CASE SortPass
  BY <1>5, SideSame DEF SortPass
<1>6. CASE SkipFrame
  BY <1>6, SideSame DEF SkipFrame
<1>7. CASE InsertFrame
  BY <1>7, SideSame DEF InsertFrame
<1>8. CASE Search
  BY <1>8, SideSame DEF Search
<1>9. CASE Placed
  BY <1>9, SidePlaced
<1>10. CASE NoRoom
  BY <1>10, SearchVisible, SideNextTry DEF NoRoom
<1>11. CASE Finish
  BY <1>11, SideSame DEF Finish
<1> QED
  BY <1>2, <1>3, <1>4, <1>5, <1>6, <1>7, <1>8, <1>9, <1>10, <1>11 DEF Work

(* nor one of PackAll, nor none.                                           *)
LEMMA SideStep ==
  ASSUME PackAssumption, Inv, PixelsCounted, SideInv, [Next]_vars
  PROVE  SideInv'
<1>1. ASSUME NEW s \in BoundedSeq(FrameSizes, FrameMax), NEW b \in Borders, PackAll(s, b)
      PROVE  SideInv'
  BY <1>1, SidePackAll
<1>2. CASE UNCHANGED vars
  BY <1>2, SideSame DEF vars
<1> QED
  BY <1>1, <1>2, SideWork DEF Next

(* It holds at the start.                                                  *)
LEMMA SideStart ==
  ASSUME PackAssumption, size = <<>>, side = StartSide,
         dest = [f \in Slots |-> [x |-> 0, y |-> 0]]
  PROVE  SideInv
<1>1. Visible = {}
  BY DEF Visible, Frames
<1>2. \A f \in Slots : dest[f].x < SideMax /\ dest[f].y < SideMax
  BY BitsFacts
<1>3. Doubled
  BY FirstSide DEF Doubled
<1> QED
  BY <1>1, <1>2, <1>3 DEF SideInv

(* As long as a long can count the pixels of the frames, every side that   *)
(* is accepted can be squared in a long, and all positions are on such a   *)
(* texture: they fit a WORD and a short.                                   *)
THEOREM SidesFit ==
  ASSUME PackAssumption
  PROVE  Spec /\ []PixelsCounted => []SideInv
<1>1. Init => SideInv
  BY SideStart DEF Init
<1>2. Inv /\ PixelsCounted /\ SideInv /\ [Next]_vars => SideInv'
  BY SideStep
<1>3. Spec => []Inv
  BY PackInvariant
<1> QED
  BY <1>1, <1>2, <1>3, PTL DEF Spec

(* What Pack_All does with its tree is what cNode specifies,               *)
LEMMA TreeUse ==
  ASSUME PackAssumption, Inv, PixelsCounted, SideInv, [Next]_vars
  PROVE  [Tree!Next]_Tree!vars
<1>1. ASSUME UNCHANGED tree PROVE UNCHANGED Tree!vars
  BY <1>1 DEF tree, Tree!vars
<1>2. CASE QuickReject \/ FirstPass \/ SortPass \/ SkipFrame \/ Placed \/ NoRoom \/ Finish
  BY <1>1, <1>2 DEF QuickReject, FirstPass, SortPass, SkipFrame, Placed, NoRoom, Finish
<1>3. CASE StartTry
  <2>1. side \in Sides /\ border \in 0 .. BorderMax
    BY <1>3, SideTry DEF Inv, TypeOK
  <2>2. [w |-> side + border, h |-> side + border] \in RootSizes
    BY <2>1 DEF RootSizes
  <2> QED
    BY <1>3, <2>2 DEF StartTry, Tree!Next
<1>4. CASE InsertFrame
  <2> DEFINE z == size[order[i]]
  <2>1. pc = "insert" /\ i <= Len(order) /\ z.w # 0
        /\ Tree!Insert([w |-> z.w + border, h |-> z.h + border])
    BY <1>4 DEF InsertFrame
  <2>2. order[i] \in Frames
    <3>1. i \in DOMAIN order
      BY <2>1, OrderType DEF Inv
    <3> QED
      BY <2>1, <3>1 DEF Inv, Listed
  <2>3. z \in FrameSizes /\ border \in 0 .. BorderMax
    BY <2>2 DEF Inv, TypeOK, Frames
  <2>4. [w |-> z.w + border, h |-> z.h + border] \in BoxSizes
    <3> HIDE DEF z
    <3>1. z \in {y \in FrameSizes : y.w # 0}
      BY <2>1, <2>3
    <3> QED
      BY <2>3, <3>1 DEF BoxSizes
  <2> QED
    BY <2>1, <2>4 DEF Tree!Next
<1>5. CASE Search
  BY <1>5 DEF Search, Tree!Next
<1>6. ASSUME NEW s, NEW b, PackAll(s, b) PROVE UNCHANGED Tree!vars
  BY <1>1, <1>6 DEF PackAll
<1>7. CASE UNCHANGED vars
  BY <1>1, <1>7 DEF vars
<1> QED
  BY <1>2, <1>3, <1>4, <1>5, <1>6, <1>7 DEF Next, Work

(* from the start,                                                         *)
LEMMA TreeUseInit ==
  ASSUME PackAssumption, Init
  PROVE  Tree!Init
<1>1. call \in BoxSizes
  BY BoxesOfFrames DEF Init
<1>2. [w |-> StartSide + 0, h |-> StartSide + 0] \in RootSizes
  BY FirstSquare DEF RootSizes, PackAssumption
<1>3. StartSide + 0 = StartSide
  BY StartSideIsNat
<1> QED
  BY <1>1, <1>2, <1>3 DEF Init, Tree!Init, Tree!Null

(* so all that is proved of cNode holds of the tree in every attempt.      *)
THEOREM TreeUsedAsSpecified ==
  ASSUME PackAssumption
  PROVE  Spec /\ []PixelsCounted => TreeSpec
<1>1. Init => Tree!Init
  BY TreeUseInit
<1>2. Inv /\ PixelsCounted /\ SideInv /\ [Next]_vars => [Tree!Next]_Tree!vars
  BY TreeUse
<1>3. Spec => []Inv
  BY PackInvariant
<1>4. Spec /\ []PixelsCounted => []SideInv
  BY SidesFit
<1> QED
  BY <1>1, <1>2, <1>3, <1>4, PTL DEF Spec, TreeSpec, Tree!Spec
=============================================================================

---------------------------- MODULE cNode_proofs ----------------------------
(***************************************************************************)
(* Proofs about the tree of cNode.tla, for roots and boxes of every size   *)
(* and any number of calls.                                                *)
(***************************************************************************)
EXTENDS cNode, TLAPS

USE DEF Null, Root

-----------------------------------------------------------------------------
(* The sequence operators the actions are built from. *)
LEMMA AppendTwo ==
  ASSUME NEW S, NEW s \in Seq(S), NEW a \in S, NEW b \in S
  PROVE  /\ s \o <<a, b>> \in Seq(S)
         /\ Len(s \o <<a, b>>) = Len(s) + 2
         /\ \A i \in 1 .. Len(s) : (s \o <<a, b>>)[i] = s[i]
         /\ (s \o <<a, b>>)[Len(s) + 1] = a
         /\ (s \o <<a, b>>)[Len(s) + 2] = b
OBVIOUS

LEMMA ReplaceAt ==
  ASSUME NEW S, NEW s \in Seq(S), NEW i \in 1 .. Len(s), NEW a \in S
  PROVE  /\ [s EXCEPT ![i] = a] \in Seq(S)
         /\ Len([s EXCEPT ![i] = a]) = Len(s)
         /\ \A j \in (1 .. Len(s)) \ {i} : [s EXCEPT ![i] = a][j] = s[j]
         /\ [s EXCEPT ![i] = a][i] = a
OBVIOUS

LEMMA ReplaceHead ==
  ASSUME NEW S, NEW s \in Seq(S), s # <<>>, NEW a \in S, NEW b \in S
  PROVE  /\ <<a, b>> \o Tail(s) \in Seq(S)
         /\ Len(<<a, b>> \o Tail(s)) = Len(s) + 1
         /\ \A i \in 2 .. Len(s) : (<<a, b>> \o Tail(s))[i + 1] = s[i]
         /\ (<<a, b>> \o Tail(s))[1] = a
         /\ (<<a, b>> \o Tail(s))[2] = b
OBVIOUS

LEMMA HeadTail ==
  ASSUME NEW S, NEW s \in Seq(S), s # <<>>
  PROVE  /\ Tail(s) \in Seq(S)
         /\ Len(Tail(s)) = Len(s) - 1
         /\ \A i \in 2 .. Len(s) : Tail(s)[i - 1] = s[i]
         /\ Head(s) = s[1]
         /\ Head(s) \in S
         /\ Len(s) \in Nat \ {0}
OBVIOUS

(* Two more nodes. *)
LEMMA TwoMore ==
  ASSUME NEW k \in Nat
  PROVE  1 .. k + 2 = (1 .. k) \cup {k + 1, k + 2}
OBVIOUS

-----------------------------------------------------------------------------
(* Rectangles. *)
LEMMA InsideTrans ==
  ASSUME NEW r \in Node, NEW s \in Node, NEW t \in Node,
         Inside(r, s), Inside(s, t)
  PROVE  Inside(r, t)
BY DEF Inside, Node

LEMMA DisjointInside ==
  ASSUME NEW r \in Node, NEW s \in Node, NEW t \in Node,
         Inside(r, s), Disjoint(s, t)
  PROVE  Disjoint(r, t) /\ Disjoint(t, r)
BY DEF Inside, Disjoint, Node

LEMMA InsideMeets ==
  ASSUME NEW r \in Node, NEW s \in Node, Inside(r, s)
  PROVE  ~Disjoint(r, s)
BY DEF Inside, Disjoint, Node

(* Two nodes that cover the same pixels. *)
SamePlace(r, s) == r.x = s.x /\ r.y = s.y /\ r.w = s.w /\ r.h = s.h

LEMMA SamePlaces ==
  ASSUME NEW r \in Node, NEW s \in Node, NEW t \in Node, NEW u \in Node,
         SamePlace(r, t), SamePlace(s, u)
  PROVE  /\ Inside(r, s) <=> Inside(t, u)
         /\ Disjoint(r, s) <=> Disjoint(t, u)
BY DEF SamePlace, Inside, Disjoint, Node

(* The halves of a node lie in it and have no pixel in common. *)
LEMMA HalvesApart ==
  ASSUME NEW e \in Node, NEW b \in Size, b.w <= e.w, b.h <= e.h,
         ~(b.w = e.w /\ b.h = e.h)
  PROVE  LET c == Halves(e, b)[1]
             d == Halves(e, b)[2]
         IN  /\ c \in Node /\ d \in Node
             /\ c.kid = 0 /\ d.kid = 0
             /\ Inside(c, e) /\ Inside(d, e)
             /\ Disjoint(c, d) /\ Disjoint(d, c)
<1>1. CASE e.w - b.w > e.h - b.h
  <2>1. /\ Halves(e, b)[1] = NewNode(e.x, e.y, b.w, e.h)
        /\ Halves(e, b)[2] = NewNode(e.x + b.w, e.y, e.w - b.w, e.h)
    BY <1>1 DEF Halves
  <2>2. /\ NewNode(e.x, e.y, b.w, e.h) \in Node
        /\ NewNode(e.x + b.w, e.y, e.w - b.w, e.h) \in Node
    BY <1>1 DEF NewNode, Node, Size
  <2>3. /\ Inside(NewNode(e.x, e.y, b.w, e.h), e)
        /\ Inside(NewNode(e.x + b.w, e.y, e.w - b.w, e.h), e)
    BY <1>1 DEF NewNode, Node, Size, Inside
  <2>4. /\ Disjoint(NewNode(e.x, e.y, b.w, e.h),
                    NewNode(e.x + b.w, e.y, e.w - b.w, e.h))
        /\ Disjoint(NewNode(e.x + b.w, e.y, e.w - b.w, e.h),
                    NewNode(e.x, e.y, b.w, e.h))
    BY <1>1 DEF NewNode, Node, Size, Disjoint
  <2> QED BY <2>1, <2>2, <2>3, <2>4 DEF NewNode
<1>2. CASE ~(e.w - b.w > e.h - b.h)
  <2>1. /\ Halves(e, b)[1] = NewNode(e.x, e.y, e.w, b.h)
        /\ Halves(e, b)[2] = NewNode(e.x, e.y + b.h, e.w, e.h - b.h)
    BY <1>2 DEF Halves
  <2>2. /\ NewNode(e.x, e.y, e.w, b.h) \in Node
        /\ NewNode(e.x, e.y + b.h, e.w, e.h - b.h) \in Node
    BY <1>2 DEF NewNode, Node, Size
  <2>3. /\ Inside(NewNode(e.x, e.y, e.w, b.h), e)
        /\ Inside(NewNode(e.x, e.y + b.h, e.w, e.h - b.h), e)
    BY <1>2 DEF NewNode, Node, Size, Inside
  <2>4. /\ Disjoint(NewNode(e.x, e.y, e.w, b.h),
                    NewNode(e.x, e.y + b.h, e.w, e.h - b.h))
        /\ Disjoint(NewNode(e.x, e.y + b.h, e.w, e.h - b.h),
                    NewNode(e.x, e.y, e.w, b.h))
    BY <1>2 DEF NewNode, Node, Size, Disjoint
  <2> QED BY <2>1, <2>2, <2>3, <2>4 DEF NewNode
<1> QED BY <1>1, <1>2

(* The first half has room for the box; the second keeps one side of the   *)
(* node and what the box leaves of the other.                              *)
LEMMA HalvesSizes ==
  ASSUME NEW e \in Node, NEW b \in Size, b.w <= e.w, b.h <= e.h
  PROVE  LET c == Halves(e, b)[1]
             d == Halves(e, b)[2]
         IN  /\ b.w <= c.w /\ b.h <= c.h /\ ~c.used /\ ~d.used
             /\ \/ d.w = e.w - b.w /\ d.h = e.h
                \/ d.w = e.w /\ d.h = e.h - b.h
<1>1. b.w \in Int /\ b.h \in Int
  BY DEF Size
<1>2. CASE e.w - b.w > e.h - b.h
  <2>1. /\ Halves(e, b)[1] = NewNode(e.x, e.y, b.w, e.h)
        /\ Halves(e, b)[2] = NewNode(e.x + b.w, e.y, e.w - b.w, e.h)
    BY <1>2 DEF Halves
  <2> QED BY <1>1, <2>1 DEF NewNode
<1>3. CASE ~(e.w - b.w > e.h - b.h)
  <2>1. /\ Halves(e, b)[1] = NewNode(e.x, e.y, e.w, b.h)
        /\ Halves(e, b)[2] = NewNode(e.x, e.y + b.h, e.w, e.h - b.h)
    BY <1>3 DEF Halves
  <2> QED BY <1>1, <2>1 DEF NewNode
<1> QED BY <1>2, <1>3

(* A node that gets children keeps all else. *)
LEMMA WithKid ==
  ASSUME NEW e \in Node, NEW k \in Nat,
         NEW f, f = [e EXCEPT !.kid = k]
  PROVE  /\ f \in Node /\ f.kid = k /\ (f.used <=> e.used)
         /\ SamePlace(f, e)
BY DEF Node, SamePlace

-----------------------------------------------------------------------------
(* What a split does to the sequence of nodes: node n gets the two new     *)
(* nodes as children, all other nodes are as before.                       *)
LEMMA SplitNodes ==
  ASSUME TypeOK, NEW n \in Nodes, Split(n)
  PROVE  /\ heap' \in Seq(Node)
         /\ Len(heap') = Len(heap) + 2
         /\ \A m \in Nodes \ {n} : heap'[m] = heap[m]
         /\ heap'[n] = [heap[n] EXCEPT !.kid = Len(heap) + 1]
         /\ heap'[Len(heap) + 1] = Halves(heap[n], call)[1]
         /\ heap'[Len(heap) + 2] = Halves(heap[n], call)[2]
<1> DEFINE e == [heap[n] EXCEPT !.kid = Len(heap) + 1]
           cut == [heap EXCEPT ![n] = e]
           a == Halves(heap[n], call)[1]
           b == Halves(heap[n], call)[2]
<1>1. /\ heap \in Seq(Node) /\ n \in 1 .. Len(heap) /\ Len(heap) \in Nat
      /\ call \in Size
  BY SizesAssumption DEF TypeOK, Nodes
<1>2. heap[n] \in Node /\ Len(heap) + 1 \in Nat
  BY <1>1
<1>3. e \in Node
  BY <1>2, WithKid
<1>4. Halves(heap[n], call) = <<a, b>>
  BY DEF Halves
<1>5. a \in Node /\ b \in Node
  <2>1. /\ call.w <= heap[n].w /\ call.h <= heap[n].h
        /\ ~(call.w = heap[n].w /\ call.h = heap[n].h)
    BY DEF Split, Fits, FitsExactly
  <2> QED BY <1>1, <1>2, <2>1, HalvesApart
<1>6. heap' = cut \o <<a, b>>
  BY <1>4 DEF Split
<1> HIDE DEF e, a, b
<1>7. /\ cut \in Seq(Node) /\ Len(cut) = Len(heap) /\ cut[n] = e
      /\ \A m \in Nodes \ {n} : cut[m] = heap[m]
  BY <1>1, <1>3, ReplaceAt DEF Nodes
<1> HIDE DEF cut
<1>8. /\ cut \o <<a, b>> \in Seq(Node)
      /\ Len(cut \o <<a, b>>) = Len(cut) + 2
      /\ \A m \in 1 .. Len(cut) : (cut \o <<a, b>>)[m] = cut[m]
      /\ (cut \o <<a, b>>)[Len(cut) + 1] = a
      /\ (cut \o <<a, b>>)[Len(cut) + 2] = b
  BY <1>5, <1>7, AppendTwo
<1>9. \A m \in Nodes : heap'[m] = cut[m]
  BY <1>6, <1>7, <1>8 DEF Nodes
<1> QED BY <1>6, <1>7, <1>8, <1>9 DEF a, b, e

-----------------------------------------------------------------------------
(* Visit always works on a node of the tree. *)
LEMMA VisitedNode ==
  ASSUME TypeOK, stack # <<>>
  PROVE  /\ Head(stack) \in Nodes
         /\ Head(stack) = stack[1]
         /\ Len(stack) \in Nat \ {0}
BY HeadTail DEF TypeOK

(* The two children of an inner node. *)
LEMMA InnerKids ==
  ASSUME TypeOK, NEW n \in Nodes, ~IsLeaf(n)
  PROVE  /\ heap[n].kid \in Nodes /\ heap[n].kid + 1 \in Nodes
         /\ heap[n].kid > n /\ ~heap[n].used
<1>1. heap[n].kid \in n + 1 .. Len(heap) - 1 /\ ~heap[n].used
  BY DEF TypeOK
<1> DEFINE k == heap[n].kid
           len == Len(heap)
<1>2. len \in Nat /\ n \in 1 .. len /\ k \in n + 1 .. len - 1
  BY <1>1 DEF TypeOK, Nodes
<1> HIDE DEF k, len
<1>3. k \in 1 .. len /\ k + 1 \in 1 .. len /\ k > n
  BY <1>2
<1> QED BY <1>1, <1>3 DEF Nodes, k, len

LEMMA RootType ==
  ASSUME NEW r \in RootSizes
  PROVE  /\ NewNode(0, 0, r.w, r.h) \in Node
         /\ <<NewNode(0, 0, r.w, r.h)>> \in Seq(Node)
         /\ Len(<<NewNode(0, 0, r.w, r.h)>>) = 1
         /\ <<NewNode(0, 0, r.w, r.h)>>[1] = NewNode(0, 0, r.w, r.h)
<1>1. NewNode(0, 0, r.w, r.h) \in Node
  BY SizesAssumption DEF NewNode, Node, Size
<1> QED BY <1>1

LEMMA TypeInit == Init => TypeOK
<1> SUFFICES ASSUME Init PROVE TypeOK
  OBVIOUS
<1>1. PICK r \in RootSizes : heap = <<NewNode(0, 0, r.w, r.h)>>
  BY DEF Init
<1>2. heap \in Seq(Node) /\ Len(heap) = 1 /\ heap[1].kid = 0
  BY <1>1, RootType DEF NewNode
<1> QED BY <1>2 DEF Init, TypeOK, Nodes, IsLeaf

LEMMA TypeStep == TypeOK /\ [Next]_vars => TypeOK'
<1> SUFFICES ASSUME TypeOK, [Next]_vars PROVE TypeOK'
  OBVIOUS
<1>1. CASE UNCHANGED vars
  BY <1>1 DEF vars, TypeOK, Nodes, IsLeaf
<1>2. ASSUME NEW r \in RootSizes, SetRoot(r)
      PROVE  TypeOK'
  <2>1. heap' \in Seq(Node) /\ Len(heap') = 1 /\ heap'[1].kid = 0
    BY <1>2, RootType DEF SetRoot, NewNode
  <2>2. stack' = <<>> /\ ret' = 0 /\ claimed' = 0 /\ call' = call
    BY <1>2 DEF SetRoot
  <2> QED BY <2>1, <2>2 DEF TypeOK, Nodes, IsLeaf
<1>3. ASSUME NEW b \in BoxSizes, Insert(b)
      PROVE  TypeOK'
  <2>1. stack' \in Seq(1 .. Len(heap))
    BY <1>3 DEF Insert, TypeOK
  <2> QED BY <1>3, <2>1 DEF Insert, TypeOK, Nodes, IsLeaf
<1>4. ASSUME NEW n \in Nodes, n = Head(stack), stack # <<>>, Descend(n)
      PROVE  TypeOK'
  <2>1. /\ Nodes' = Nodes /\ heap' = heap
        /\ heap[n].kid \in Nodes /\ heap[n].kid + 1 \in Nodes
    BY <1>4, InnerKids DEF Descend, Nodes
  <2>2. stack' \in Seq(Nodes')
    BY <1>4, <2>1, ReplaceHead DEF Descend, TypeOK
  <2> QED BY <1>4, <2>1, <2>2 DEF Descend, TypeOK, IsLeaf
<1>5. ASSUME NEW n \in Nodes, n = Head(stack), stack # <<>>, Refuse(n)
      PROVE  TypeOK'
  <2>1. stack' \in Seq(Nodes) /\ Nodes' = Nodes /\ heap' = heap
    BY <1>5, HeadTail DEF Refuse, TypeOK, Nodes
  <2> QED BY <1>5, <2>1 DEF Refuse, TypeOK, IsLeaf
<1>6. ASSUME NEW n \in Nodes, n = Head(stack), stack # <<>>, Take(n)
      PROVE  TypeOK'
  <2>1. heap[n] \in Node /\ [heap[n] EXCEPT !.used = TRUE] \in Node
    <3>1. heap[n] \in Node
      BY DEF TypeOK, Nodes
    <3> QED BY <3>1 DEF Node
  <2>2. heap' = [heap EXCEPT ![n] = [heap[n] EXCEPT !.used = TRUE]]
    BY <1>6 DEF Take
  <2>3. /\ heap' \in Seq(Node) /\ Len(heap') = Len(heap)
        /\ \A m \in Nodes \ {n} : heap'[m] = heap[m]
        /\ heap'[n] = [heap[n] EXCEPT !.used = TRUE]
    <3> DEFINE e == [heap[n] EXCEPT !.used = TRUE]
    <3>1. heap \in Seq(Node) /\ n \in 1 .. Len(heap) /\ e \in Node
      BY <2>1 DEF TypeOK, Nodes
    <3> HIDE DEF e
    <3>2. heap' = [heap EXCEPT ![n] = e]
      BY <2>2 DEF e
    <3>3. /\ heap' \in Seq(Node) /\ Len(heap') = Len(heap)
          /\ \A m \in Nodes \ {n} : heap'[m] = heap[m]
          /\ heap'[n] = e
      BY <3>1, <3>2, ReplaceAt DEF Nodes
    <3> QED BY <3>3 DEF e
  <2>4. heap'[n].kid = 0
    BY <1>6, <2>1, <2>3 DEF Take, IsLeaf, Node
  <2>5. Larger(call.w, call.h) \in Nat
    BY SizesAssumption DEF TypeOK, Size, Larger
  <2>6. Nodes' = Nodes
    BY <2>3 DEF Nodes
  <2>7. \A m \in Nodes : ~(heap'[m].kid = 0) =>
          heap'[m].kid \in m + 1 .. Len(heap') - 1 /\ ~heap'[m].used
    BY <2>3, <2>4 DEF TypeOK, IsLeaf
  <2>8. stack' = <<>> /\ ret' = n /\ call' = call /\ claimed' \in Nat
    BY <1>6, <2>5 DEF Take, TypeOK
  <2> QED BY <2>3, <2>6, <2>7, <2>8 DEF TypeOK, IsLeaf
<1>7. ASSUME NEW n \in Nodes, n = Head(stack), stack # <<>>, Split(n)
      PROVE  TypeOK'
  <2>1. /\ heap' \in Seq(Node)
        /\ Len(heap') = Len(heap) + 2
        /\ \A m \in Nodes \ {n} : heap'[m] = heap[m]
        /\ heap'[n] = [heap[n] EXCEPT !.kid = Len(heap) + 1]
        /\ heap'[Len(heap) + 1] = Halves(heap[n], call)[1]
        /\ heap'[Len(heap) + 2] = Halves(heap[n], call)[2]
    BY <1>7, SplitNodes
  <2>2. /\ heap'[Len(heap) + 1].kid = 0
        /\ heap'[Len(heap) + 2].kid = 0
    BY <2>1 DEF Halves, NewNode
  <2>3. heap[n] \in Node /\ Len(heap) \in Nat
    BY DEF TypeOK, Nodes
  <2>4. heap'[n].kid = Len(heap) + 1 /\ ~heap'[n].used
    BY <1>7, <2>1, <2>3 DEF Split, Node
  <2>5. \A m \in Nodes' : ~(heap'[m].kid = 0) =>
          heap'[m].kid \in m + 1 .. Len(heap') - 1 /\ ~heap'[m].used
    <3> SUFFICES ASSUME NEW m \in Nodes', ~(heap'[m].kid = 0)
                 PROVE  /\ heap'[m].kid \in m + 1 .. Len(heap') - 1
                        /\ ~heap'[m].used
      OBVIOUS
    <3>1. m \in Nodes
      BY <2>1, <2>2, <2>3 DEF Nodes
    <3>2. CASE m = n
      <4>1. Len(heap) + 1 \in n + 1 .. (Len(heap) + 2) - 1
        BY <2>3 DEF Nodes
      <4> QED BY <2>1, <2>4, <3>2, <4>1
    <3>3. CASE m # n
      <4>1. heap[m].kid \in m + 1 .. Len(heap) - 1 /\ ~heap[m].used
        BY <2>1, <3>1, <3>3 DEF TypeOK, IsLeaf
      <4> QED BY <2>1, <2>3, <3>1, <3>3, <4>1 DEF Nodes
    <3> QED BY <3>2, <3>3
  <2>6. Nodes \subseteq Nodes'
    BY <2>1, <2>3 DEF Nodes
  <2>7. stack' = stack /\ stack' \in Seq(Nodes')
    BY <1>7, <2>6 DEF Split, TypeOK
  <2>8. ret' = ret /\ call' = call /\ claimed' = claimed
    BY <1>7 DEF Split
  <2> QED BY <2>1, <2>3, <2>5, <2>6, <2>7, <2>8 DEF TypeOK, IsLeaf
<1> QED
  BY <1>1, <1>2, <1>3, <1>4, <1>5, <1>6, <1>7, VisitedNode DEF Next, Visit

(* The types of cNode's fields are respected whatever is inserted: no cut  *)
(* of cNode::Insert makes a node without pixels, no inner node is used.    *)
THEOREM TypeCorrect == Spec => []TypeOK
BY TypeInit, TypeStep, PTL DEF Spec

-----------------------------------------------------------------------------
(* The nodes lie in the root. *)
LEMMA NodeType ==
  ASSUME TypeOK, NEW n \in Nodes
  PROVE  heap[n] \in Node /\ n \in Nat \ {0} /\ Len(heap) \in Nat
BY DEF TypeOK, Nodes

(* What a split does to the places of the nodes. *)
LEMMA SplitPlaces ==
  ASSUME TypeOK, NEW n \in Nodes, Split(n)
  PROVE  LET a == heap'[Len(heap) + 1]
             b == heap'[Len(heap) + 2]
         IN  /\ Nodes' = Nodes \cup {Len(heap) + 1, Len(heap) + 2}
             /\ \A m \in Nodes : heap'[m] \in Node /\ SamePlace(heap'[m], heap[m])
             /\ \A m \in Nodes \ {n} : heap'[m] = heap[m]
             /\ heap'[n].kid = Len(heap) + 1
             /\ a \in Node /\ b \in Node /\ a.kid = 0 /\ b.kid = 0
             /\ Inside(a, heap[n]) /\ Inside(b, heap[n])
             /\ Disjoint(a, b) /\ Disjoint(b, a)
<1>1. /\ heap' \in Seq(Node)
      /\ Len(heap') = Len(heap) + 2
      /\ \A m \in Nodes \ {n} : heap'[m] = heap[m]
      /\ heap'[n] = [heap[n] EXCEPT !.kid = Len(heap) + 1]
      /\ heap'[Len(heap) + 1] = Halves(heap[n], call)[1]
      /\ heap'[Len(heap) + 2] = Halves(heap[n], call)[2]
  BY SplitNodes
<1>2. /\ heap[n] \in Node /\ call \in Size
      /\ Len(heap) \in Nat /\ Len(heap) + 1 \in Nat
  BY NodeType, SizesAssumption DEF TypeOK
<1>3. /\ call.w <= heap[n].w /\ call.h <= heap[n].h
      /\ ~(call.w = heap[n].w /\ call.h = heap[n].h)
  BY DEF Split, Fits, FitsExactly
<1>4. Nodes' = Nodes \cup {Len(heap) + 1, Len(heap) + 2}
  BY <1>1, <1>2, TwoMore DEF Nodes
<1>5. ASSUME NEW m \in Nodes
      PROVE  heap'[m] \in Node /\ SamePlace(heap'[m], heap[m])
  <2>1. heap'[m] \in Node
    BY <1>1, <1>2 DEF Nodes
  <2>2. SamePlace(heap'[n], heap[n])
    BY <1>1, <1>2, WithKid
  <2> QED BY <1>1, <2>1, <2>2 DEF SamePlace
<1>6. heap'[n].kid = Len(heap) + 1
  BY <1>1, <1>2, WithKid
<1> QED BY <1>1, <1>2, <1>3, <1>4, <1>5, <1>6, HalvesApart

-----------------------------------------------------------------------------
LEMMA InsideInit == Init => InsideRoot
<1> SUFFICES ASSUME Init, NEW n \in Nodes PROVE Inside(heap[n], heap[Root])
  BY DEF InsideRoot
<1>1. PICK r \in RootSizes : heap = <<NewNode(0, 0, r.w, r.h)>>
  BY DEF Init
<1>2. n = 1 /\ heap[1] \in Node
  BY <1>1, RootType DEF Nodes
<1> QED BY <1>2 DEF Inside, Node

(* The steps that cut nothing and use or visit a node at most. *)
LEMMA SameHeap ==
  ASSUME TypeOK, [Next]_vars,
         ~ \E r \in RootSizes : SetRoot(r),
         ~ \E n \in Nodes : Split(n)
  PROVE  /\ Nodes' = Nodes
         /\ \A m \in Nodes : /\ heap'[m] \in Node
                             /\ SamePlace(heap'[m], heap[m])
                             /\ heap'[m].kid = heap[m].kid
<1>1. CASE heap' = heap
  BY <1>1, NodeType DEF Nodes, SamePlace
<1>2. ASSUME NEW n \in Nodes, Take(n)
      PROVE  /\ Nodes' = Nodes
             /\ \A m \in Nodes : /\ heap'[m] \in Node
                                 /\ SamePlace(heap'[m], heap[m])
                                 /\ heap'[m].kid = heap[m].kid
  <2> DEFINE e == [heap[n] EXCEPT !.used = TRUE]
  <2>1. heap \in Seq(Node) /\ n \in 1 .. Len(heap) /\ heap[n] \in Node
    BY NodeType DEF TypeOK, Nodes
  <2>2. e \in Node /\ SamePlace(e, heap[n]) /\ e.kid = heap[n].kid
    BY <2>1 DEF Node, SamePlace
  <2>3. heap' = [heap EXCEPT ![n] = e]
    BY <1>2 DEF Take
  <2> HIDE DEF e
  <2>4. /\ Len(heap') = Len(heap)
        /\ \A m \in Nodes \ {n} : heap'[m] = heap[m]
        /\ heap'[n] = e
    BY <2>1, <2>2, <2>3, ReplaceAt DEF Nodes
  <2>5. Nodes' = Nodes
    BY <2>4 DEF Nodes
  <2> QED BY <2>2, <2>4, <2>5, NodeType DEF SamePlace
<1>3. heap' = heap \/ \E n \in Nodes : Take(n)
  <2>1. CASE Visit
    BY <2>1, VisitedNode DEF Visit, Descend, Refuse
  <2> QED BY <2>1 DEF Next, Insert, vars
<1> QED BY <1>1, <1>2, <1>3

LEMMA InsideStep == TypeOK /\ InsideRoot /\ [Next]_vars => InsideRoot'
<1> SUFFICES ASSUME TypeOK, InsideRoot, [Next]_vars PROVE InsideRoot'
  OBVIOUS
<1>0. Root \in Nodes
  BY DEF TypeOK, Nodes
<1>1. ASSUME NEW r \in RootSizes, SetRoot(r)
      PROVE  InsideRoot'
  <2>1. Nodes' = {1} /\ heap'[1] \in Node
    BY <1>1, RootType DEF SetRoot, Nodes
  <2>2. Inside(heap'[1], heap'[1])
    BY <2>1 DEF Inside, Node
  <2> QED BY <2>1, <2>2 DEF InsideRoot
<1>2. ASSUME NEW n \in Nodes, Split(n)
      PROVE  InsideRoot'
  <2> SUFFICES ASSUME NEW m \in Nodes' PROVE Inside(heap'[m], heap'[Root])
    BY DEF InsideRoot
  <2>1. heap[n] \in Node /\ heap[Root] \in Node /\ Inside(heap[n], heap[Root])
    BY <1>0, NodeType DEF InsideRoot
  <2>2. SamePlace(heap'[Root], heap[Root]) /\ heap'[Root] \in Node
    BY <1>0, <1>2, SplitPlaces
  <2>3. heap'[m] \in Node /\ Inside(heap'[m], heap[Root])
    <3>1. CASE m \in Nodes
      <4>1. heap'[m] \in Node /\ SamePlace(heap'[m], heap[m]) /\ heap[m] \in Node
        BY <1>2, <3>1, SplitPlaces, NodeType
      <4>2. Inside(heap[m], heap[Root])
        BY <3>1 DEF InsideRoot
      <4> QED BY <2>1, <4>1, <4>2, SamePlaces DEF SamePlace
    <3>2. CASE m \in {Len(heap) + 1, Len(heap) + 2}
      <4>1. heap'[m] \in Node /\ Inside(heap'[m], heap[n])
        BY <1>2, <3>2, SplitPlaces
      <4> QED BY <2>1, <4>1, InsideTrans
    <3> QED BY <1>2, <3>1, <3>2, SplitPlaces
  <2> QED BY <2>1, <2>2, <2>3, SamePlaces DEF SamePlace
<1>3. CASE /\ ~ \E r \in RootSizes : SetRoot(r)
           /\ ~ \E n \in Nodes : Split(n)
  <2>1. /\ Nodes' = Nodes
        /\ \A m \in Nodes : heap'[m] \in Node /\ SamePlace(heap'[m], heap[m])
    BY <1>3, SameHeap
  <2> QED BY <1>0, <2>1, NodeType, SamePlaces DEF InsideRoot
<1> QED BY <1>1, <1>2, <1>3

(* Whatever is inserted, no node of the tree, so no box handed out, leaves *)
(* the root: the texture that cFrame::Pack_TrySize tries.                  *)
THEOREM BoxesInsideRoot == Spec => []InsideRoot
BY TypeCorrect, InsideInit, InsideStep, PTL DEF Spec

-----------------------------------------------------------------------------
(* Two nodes m and n as LeavesTile wants them. *)
Apart(m, n) ==
  \/ Disjoint(heap[m], heap[n])
  \/ /\ ~IsLeaf(n)
     /\ \E k \in {heap[n].kid, heap[n].kid + 1} : Inside(heap[m], heap[k])

LEMMA TileInit == Init => LeavesTile
<1> SUFFICES ASSUME Init PROVE LeavesTile
  OBVIOUS
<1>1. PICK r \in RootSizes : heap = <<NewNode(0, 0, r.w, r.h)>>
  BY DEF Init
<1>2. Nodes = {1}
  BY <1>1 DEF Nodes
<1> QED BY <1>2 DEF LeavesTile, Leaves

LEMMA TileStep == TypeOK /\ LeavesTile /\ [Next]_vars => LeavesTile'
<1> SUFFICES ASSUME TypeOK, LeavesTile, [Next]_vars PROVE LeavesTile'
  OBVIOUS
<1>0. ASSUME NEW m \in Leaves, NEW n \in Nodes \ {m}
      PROVE  Apart(m, n) /\ m \in Nodes /\ heap[m] \in Node /\ heap[n] \in Node
  BY NodeType DEF LeavesTile, Apart, Leaves
<1>1. ASSUME NEW r \in RootSizes, SetRoot(r)
      PROVE  LeavesTile'
  <2>1. Nodes' = {1}
    BY <1>1, RootType DEF SetRoot, Nodes
  <2> QED BY <2>1 DEF LeavesTile, Leaves
<1>2. ASSUME NEW l \in Nodes, Split(l)
      PROVE  LeavesTile'
  <2> DEFINE a == Len(heap) + 1
             b == Len(heap) + 2
  <2>1. /\ l \in Leaves
        /\ Len(heap) \in Nat /\ a \notin Nodes /\ b \notin Nodes
        /\ a # b /\ a # 0
    BY <1>2, NodeType DEF Split, Leaves, Nodes
  <2>2. /\ Nodes' = Nodes \cup {a, b}
        /\ \A m \in Nodes : heap'[m] \in Node /\ SamePlace(heap'[m], heap[m])
        /\ \A m \in Nodes \ {l} : heap'[m] = heap[m]
        /\ heap'[l].kid = a
        /\ heap'[a] \in Node /\ heap'[b] \in Node
        /\ heap'[a].kid = 0 /\ heap'[b].kid = 0
        /\ Inside(heap'[a], heap[l]) /\ Inside(heap'[b], heap[l])
        /\ Disjoint(heap'[a], heap'[b]) /\ Disjoint(heap'[b], heap'[a])
    BY <1>2, SplitPlaces
  <2> HIDE DEF a, b
  <2> SUFFICES ASSUME NEW m \in Leaves', NEW n \in Nodes' \ {m}
               PROVE  Apart(m, n)'
    BY DEF LeavesTile, Apart
  <2>3. \A c \in {a, b}, k \in Nodes \ {l} :
           Disjoint(heap[l], heap[k]) =>
             Disjoint(heap'[c], heap[k]) /\ Disjoint(heap[k], heap'[c])
    BY <2>1, <2>2, NodeType, DisjointInside
  <2>4. CASE m \in Nodes
    <3>1. m # l /\ m \in Leaves /\ heap'[m] = heap[m] /\ heap[m] \in Node
      <4>1. heap'[m].kid = 0 /\ heap[m] \in Node
        BY <2>4, NodeType DEF Leaves, IsLeaf
      <4>2. m # l
        BY <2>1, <2>2, <4>1
      <4> QED BY <2>2, <2>4, <4>1, <4>2 DEF Leaves, IsLeaf
    <3>2. Disjoint(heap[m], heap[l])
      BY <1>0, <2>1, <3>1 DEF Apart, Leaves
    <3>3. CASE n \in {a, b}
      <4>1. Disjoint(heap[m], heap'[n])
        BY <2>1, <2>2, <3>1, <3>2, <3>3, NodeType, DisjointInside DEF Disjoint
      <4> QED BY <3>1, <4>1 DEF Apart
    <3>4. CASE n = l
      <4>1. Disjoint(heap'[m], heap'[l])
        BY <2>2, <3>1, <3>2, NodeType, SamePlaces DEF SamePlace
      <4> QED BY <3>4, <4>1 DEF Apart
    <3>5. CASE n \in Nodes \ {l}
      <4>1. Apart(m, n) /\ heap'[n] = heap[n]
        BY <1>0, <2>2, <3>1, <3>5
      <4>2. CASE Disjoint(heap[m], heap[n])
        BY <3>1, <4>1, <4>2 DEF Apart
      <4>3. ASSUME ~IsLeaf(n),
                   NEW k \in {heap[n].kid, heap[n].kid + 1}, Inside(heap[m], heap[k])
            PROVE  Apart(m, n)'
        <5>1. k \in Nodes
          BY <3>5, <4>3, InnerKids
        <5>2. Inside(heap'[m], heap'[k])
          BY <2>2, <3>1, <4>3, <5>1, NodeType, SamePlaces DEF SamePlace
        <5> QED BY <4>1, <4>3, <5>2 DEF Apart, IsLeaf
      <4> QED BY <4>1, <4>2, <4>3 DEF Apart
    <3> QED BY <2>2, <3>3, <3>4, <3>5
  <2>5. CASE m \in {a, b}
    <3>1. /\ heap'[m] \in Node /\ Inside(heap'[m], heap[l]) /\ heap[l] \in Node
      BY <2>2, <2>5, NodeType
    <3>2. CASE n \in {a, b}
      BY <2>2, <2>5, <3>2 DEF Apart
    <3>3. CASE n = l
      <4>1. heap'[n].kid = a /\ m \in {heap'[n].kid, heap'[n].kid + 1} /\ a # 0
        BY <2>1, <2>2, <2>5, <3>3 DEF a, b
      <4>2. Inside(heap'[m], heap'[m])
        BY <3>1 DEF Inside, Node
      <4> QED BY <4>1, <4>2 DEF Apart, IsLeaf
    <3>4. CASE n \in Nodes \ {l}
      <4>1. Apart(l, n) /\ heap'[n] = heap[n] /\ heap[n] \in Node
        BY <1>0, <2>1, <2>2, <3>4
      <4>2. CASE Disjoint(heap[l], heap[n])
        BY <2>3, <2>5, <3>4, <4>1, <4>2 DEF Apart
      <4>3. ASSUME ~IsLeaf(n),
                   NEW k \in {heap[n].kid, heap[n].kid + 1}, Inside(heap[l], heap[k])
            PROVE  Apart(m, n)'
        <5>1. k \in Nodes /\ heap[k] \in Node
          BY <3>4, <4>3, InnerKids, NodeType
        <5>2. Inside(heap'[m], heap[k])
          BY <3>1, <4>3, <5>1, InsideTrans
        <5>3. Inside(heap'[m], heap'[k])
          BY <2>2, <3>1, <5>1, <5>2, SamePlaces DEF SamePlace
        <5> QED BY <4>1, <4>3, <5>3 DEF Apart, IsLeaf
      <4> QED BY <4>1, <4>2, <4>3 DEF Apart
    <3> QED BY <2>2, <3>2, <3>3, <3>4
  <2> QED BY <2>2, <2>4, <2>5 DEF Leaves
<1>3. CASE /\ ~ \E r \in RootSizes : SetRoot(r)
           /\ ~ \E n \in Nodes : Split(n)
  <2>1. /\ Nodes' = Nodes
        /\ \A m \in Nodes : /\ heap'[m] \in Node
                            /\ SamePlace(heap'[m], heap[m])
                            /\ heap'[m].kid = heap[m].kid
    BY <1>3, SameHeap
  <2>2. Leaves' = Leaves
    BY <2>1 DEF Leaves, IsLeaf
  <2> SUFFICES ASSUME NEW m \in Leaves, NEW n \in Nodes \ {m}
               PROVE  Apart(m, n)'
    BY <2>1, <2>2 DEF LeavesTile, Apart
  <2>3. Apart(m, n) /\ m \in Nodes /\ heap[m] \in Node /\ heap[n] \in Node
    BY <1>0
  <2>4. CASE Disjoint(heap[m], heap[n])
    BY <2>1, <2>3, <2>4, SamePlaces DEF Apart
  <2>5. ASSUME ~IsLeaf(n),
               NEW k \in {heap[n].kid, heap[n].kid + 1}, Inside(heap[m], heap[k])
        PROVE  Apart(m, n)'
    <3>1. k \in Nodes /\ heap[k] \in Node
      BY <2>5, InnerKids, NodeType
    <3>2. Inside(heap'[m], heap'[k])
      BY <2>1, <2>3, <2>5, <3>1, SamePlaces
    <3> QED BY <2>1, <2>5, <3>2 DEF Apart, IsLeaf
  <2> QED BY <2>3, <2>4, <2>5 DEF Apart
<1> QED BY <1>1, <1>2, <1>3

(* However a sequence of inserts cuts the root, a leaf shares no pixel     *)
(* with another leaf, nor with any node it does not descend from: two      *)
(* boxes that were handed out never overlap.                               *)
THEOREM LeavesNeverOverlap == Spec => []LeavesTile
BY TypeCorrect, TileInit, TileStep, PTL DEF Spec

-----------------------------------------------------------------------------
(* A free leaf the box fits in, and what NothingSkipped says of it. *)
Free(m) == m \in Leaves /\ ~heap[m].used /\ Fits(call, m)

Ahead(m) == \E i \in 1 .. Len(stack) : Inside(heap[m], heap[stack[i]])

(* A free leaf under a node that is visited is under one of its children,  *)
(* or is the node itself.                                                  *)
LEMMA UnderVisited ==
  ASSUME TypeOK, LeavesTile, NEW n \in Nodes, NEW m \in Leaves, m # n,
         Inside(heap[m], heap[n])
  PROVE  /\ ~IsLeaf(n)
         /\ \E k \in {heap[n].kid, heap[n].kid + 1} : Inside(heap[m], heap[k])
<1>1. heap[m] \in Node /\ heap[n] \in Node
  BY NodeType DEF Leaves
<1>2. ~Disjoint(heap[m], heap[n])
  BY <1>1, InsideMeets
<1> QED BY <1>2 DEF LeavesTile

LEMMA SkipStep ==
  TypeOK /\ InsideRoot /\ LeavesTile /\ NothingSkipped /\ [Next]_vars
    => NothingSkipped'
<1> SUFFICES ASSUME TypeOK, InsideRoot, LeavesTile, NothingSkipped, [Next]_vars
             PROVE  NothingSkipped'
  OBVIOUS
<1>1. CASE UNCHANGED vars
  BY <1>1 DEF vars, NothingSkipped, Leaves, Nodes, IsLeaf, Fits
<1>2. ASSUME NEW r \in RootSizes, SetRoot(r)
      PROVE  NothingSkipped'
  BY <1>2 DEF SetRoot, NothingSkipped
<1>3. ASSUME NEW b \in BoxSizes, Insert(b)
      PROVE  NothingSkipped'
  <2>1. heap' = heap /\ Len(stack') = 1 /\ stack'[1] = Root
    BY <1>3 DEF Insert
  <2>2. \A m \in Nodes : Inside(heap[m], heap[Root])
    BY DEF InsideRoot
  <2>3. 1 \in 1 .. Len(stack')
    BY <2>1
  <2> QED BY <2>1, <2>2, <2>3 DEF NothingSkipped, Leaves, Nodes, IsLeaf
<1>4. ASSUME stack # <<>>
      PROVE  /\ stack \in Seq(Nodes) /\ Len(stack) \in Nat \ {0}
             /\ Head(stack) \in Nodes /\ Head(stack) = stack[1]
             /\ \A m : Free(m) => Ahead(m)
  BY <1>4, VisitedNode DEF TypeOK, NothingSkipped, Free, Ahead
<1>5. ASSUME NEW n \in Nodes, n = Head(stack), stack # <<>>, Descend(n)
      PROVE  NothingSkipped'
  <2> DEFINE kid == heap[n].kid
  <2>1. kid \in Nodes /\ kid + 1 \in Nodes /\ ~IsLeaf(n) /\ heap' = heap /\ call' = call
    BY <1>5, InnerKids DEF Descend
  <2>2. stack' = <<kid, kid + 1>> \o Tail(stack)
    BY <1>5 DEF Descend
  <2> HIDE DEF kid
  <2>3. /\ Len(stack') = Len(stack) + 1
        /\ \A i \in 2 .. Len(stack) : stack'[i + 1] = stack[i]
        /\ stack'[1] = kid /\ stack'[2] = kid + 1
    <3>1. stack \in Seq(Nodes) /\ stack # <<>>
      BY <1>4, <1>5
    <3> QED BY <2>1, <2>2, <3>1, ReplaceHead
  <2> SUFFICES ASSUME NEW m \in Leaves, Free(m)
               PROVE  \E j \in 1 .. Len(stack') : Inside(heap[m], heap[stack'[j]])
    BY <2>1 DEF NothingSkipped, Free, Leaves, Nodes, IsLeaf, Fits
  <2>4. PICK i \in 1 .. Len(stack) : Inside(heap[m], heap[stack[i]])
    BY <1>4, <1>5 DEF Ahead
  <2>5. CASE i = 1
    <3>1. m # n /\ Inside(heap[m], heap[n])
      BY <1>4, <1>5, <2>1, <2>4, <2>5 DEF Leaves
    <3>2. \E k \in {kid, kid + 1} : Inside(heap[m], heap[k])
      BY <3>1, UnderVisited DEF kid
    <3>3. 1 \in 1 .. Len(stack') /\ 2 \in 1 .. Len(stack')
      BY <1>4, <1>5, <2>3
    <3> QED BY <2>3, <3>2, <3>3
  <2>6. CASE i # 1
    <3>1. i \in 2 .. Len(stack) /\ i + 1 \in 1 .. Len(stack')
      BY <1>4, <1>5, <2>3, <2>6
    <3> QED BY <2>3, <2>4, <3>1
  <2> QED BY <2>5, <2>6
<1>6. ASSUME NEW n \in Nodes, n = Head(stack), stack # <<>>, Refuse(n)
      PROVE  NothingSkipped'
  <2>1. heap' = heap /\ call' = call /\ stack' = Tail(stack) /\ IsLeaf(n) /\ ~Free(n)
    BY <1>6 DEF Refuse, Free
  <2>2. /\ Len(stack') = Len(stack) - 1
        /\ \A i \in 2 .. Len(stack) : stack'[i - 1] = stack[i]
    BY <1>4, <1>6, <2>1, HeadTail
  <2> SUFFICES ASSUME NEW m \in Leaves, Free(m)
               PROVE  \E j \in 1 .. Len(stack') : Inside(heap[m], heap[stack'[j]])
    BY <2>1 DEF NothingSkipped, Free, Leaves, Nodes, IsLeaf, Fits
  <2>3. PICK i \in 1 .. Len(stack) : Inside(heap[m], heap[stack[i]])
    BY <1>4, <1>6 DEF Ahead
  <2>4. i # 1
    BY <1>4, <1>6, <2>1, <2>3, UnderVisited
  <2>5. i \in 2 .. Len(stack) /\ i - 1 \in 1 .. Len(stack')
    BY <1>4, <1>6, <2>2, <2>4
  <2> QED BY <2>2, <2>3, <2>5
<1>7. ASSUME NEW n \in Nodes, Take(n)
      PROVE  NothingSkipped'
  BY <1>7 DEF Take, NothingSkipped
<1>8. ASSUME NEW n \in Nodes, n = Head(stack), stack # <<>>, Split(n)
      PROVE  NothingSkipped'
  <2> DEFINE a == Len(heap) + 1
             b == Len(heap) + 2
  <2>1. stack' = stack /\ call' = call
    BY <1>8 DEF Split
  <2>2. /\ Nodes' = Nodes \cup {a, b}
        /\ \A m \in Nodes : heap'[m] \in Node /\ SamePlace(heap'[m], heap[m])
        /\ \A m \in Nodes \ {n} : heap'[m] = heap[m]
        /\ heap'[n].kid = a
        /\ heap'[a] \in Node /\ heap'[b] \in Node
        /\ Inside(heap'[a], heap[n]) /\ Inside(heap'[b], heap[n])
    BY <1>8, SplitPlaces
  <2>3. a # 0
    BY NodeType, <1>8
  <2> HIDE DEF a, b
  <2> SUFFICES ASSUME NEW m \in Leaves', ~heap'[m].used, Fits(call, m)'
               PROVE  \E j \in 1 .. Len(stack) : Inside(heap'[m], heap'[stack[j]])
    BY <2>1 DEF NothingSkipped
  <2>4. CASE m \in Nodes
    <3>1. heap'[m].kid = 0 /\ m # n /\ heap'[m] = heap[m] /\ heap[m] \in Node
      BY <2>2, <2>3, <2>4, NodeType DEF Leaves, IsLeaf
    <3>2. Free(m)
      BY <2>1, <2>4, <3>1 DEF Free, Leaves, IsLeaf, Fits
    <3>3. PICK i \in 1 .. Len(stack) : Inside(heap[m], heap[stack[i]])
      BY <1>4, <1>8, <3>2 DEF Ahead
    <3>4. stack[i] \in Nodes
      BY <1>4, <1>8, <3>3
    <3>5. Inside(heap'[m], heap'[stack[i]])
      BY <2>2, <2>4, <3>1, <3>3, <3>4, NodeType, SamePlaces
    <3> QED BY <3>5
  <2>5. CASE m \in {a, b}
    <3>1. heap'[m] \in Node /\ Inside(heap'[m], heap[n]) /\ heap[n] \in Node
      BY <2>2, <2>5, NodeType
    <3>2. heap'[n] \in Node /\ SamePlace(heap'[n], heap[n])
      BY <2>2
    <3>3. Inside(heap'[m], heap'[n])
      BY <3>1, <3>2, SamePlaces DEF SamePlace
    <3>4. n = stack[1] /\ 1 \in 1 .. Len(stack)
      BY <1>4, <1>8
    <3> QED BY <3>3, <3>4
  <2> QED BY <2>2, <2>4, <2>5 DEF Leaves
<1> QED
  BY <1>1, <1>2, <1>3, <1>5, <1>6, <1>7, <1>8, VisitedNode DEF Next, Visit

(* While Insert searches, every free leaf the box fits in is still ahead.  *)
THEOREM SearchSkipsNothing == Spec => []NothingSkipped
<1>1. Init => NothingSkipped
  BY DEF Init, NothingSkipped
<1> QED
  BY <1>1, SkipStep, TypeCorrect, BoxesInsideRoot, LeavesNeverOverlap, PTL
  DEF Spec

LEMMA GivesUpStep ==
  TypeOK /\ LeavesTile /\ NothingSkipped /\ [Next]_vars =>
    [ (stack # <<>> /\ stack' = <<>> /\ ret' = Null) =>
        \A m \in Leaves : heap[m].used \/ ~Fits(call, m) ]_vars
<1> SUFFICES ASSUME TypeOK, LeavesTile, NothingSkipped, Next,
                    stack # <<>>, stack' = <<>>, ret' = Null,
                    NEW m \in Leaves, Free(m)
             PROVE  FALSE
  BY DEF Free
<1> DEFINE n == Head(stack)
<1>1. /\ stack \in Seq(Nodes) /\ Len(stack) \in Nat \ {0}
      /\ n \in Nodes /\ n = stack[1]
  BY VisitedNode DEF TypeOK
<1>2. ~Descend(n)
  <2>1. ASSUME Descend(n) PROVE FALSE
    <3>1. heap[n].kid \in Nodes /\ heap[n].kid + 1 \in Nodes
      BY <1>1, <2>1, InnerKids DEF Descend
    <3> DEFINE k == heap[n].kid
    <3>2. stack' = <<k, k + 1>> \o Tail(stack)
      BY <2>1 DEF Descend
    <3> HIDE DEF k
    <3>3. Len(stack') = Len(stack) + 1
      BY <1>1, <3>1, <3>2, ReplaceHead DEF k
    <3> QED BY <1>1, <3>3
  <2> QED BY <2>1
<1>3. ~Take(n) /\ ~Split(n)
  BY <1>1, NodeType DEF Take, Split
<1>4. Refuse(n)
  BY <1>2, <1>3 DEF Next, SetRoot, Insert, Visit
<1>5. Len(stack) = 1 /\ m # n /\ IsLeaf(n)
  <2>1. stack' = Tail(stack) /\ IsLeaf(n) /\ ~Free(n)
    BY <1>4 DEF Refuse, Free
  <2>2. Len(stack') = Len(stack) - 1 /\ Len(stack') = 0
    BY <1>1, <2>1, HeadTail
  <2> QED BY <1>1, <2>1, <2>2
<1>6. Inside(heap[m], heap[n])
  <2>1. PICK i \in 1 .. Len(stack) : Inside(heap[m], heap[stack[i]])
    BY DEF NothingSkipped, Free
  <2>2. i = 1
    BY <1>5
  <2> QED BY <1>1, <2>1, <2>2
<1> QED BY <1>1, <1>5, <1>6, UnderVisited

(* Insert returns null only when no free leaf can hold the box, although   *)
(* it asks them in a fixed order and cuts as it goes.                      *)
THEOREM GivesUpOnlyWhenFull == Spec => NullOnlyWhenFull
BY GivesUpStep, TypeCorrect, LeavesNeverOverlap, SearchSkipsNothing, PTL
DEF Spec, NullOnlyWhenFull

-----------------------------------------------------------------------------
(* The tree implements an Atlas. *)
Bin == [w |-> heap[Root].w, h |-> heap[Root].h]

Boxes == {RectOf(heap[n]) : n \in UsedNodes}

(* The root is the bin: it starts at the origin and has a size it was      *)
(* given.                                                                  *)
RootIsBin == heap[Root].x = 0 /\ heap[Root].y = 0 /\ Bin \in RootSizes

LEMMA NewRoot ==
  ASSUME NEW r \in RootSizes, NEW s, s = <<NewNode(0, 0, r.w, r.h)>>
  PROVE  /\ s[Root].x = 0 /\ s[Root].y = 0
         /\ [w |-> s[Root].w, h |-> s[Root].h] = r
         /\ Len(s) = 1 /\ ~s[1].used
BY SizesAssumption DEF NewNode, Size, Root

LEMMA BinInit == Init => RootIsBin
BY NewRoot DEF Init, RootIsBin, Bin

(* A step that starts no new tree leaves every node where it is. *)
LEMMA NodesStay ==
  ASSUME TypeOK, [Next]_vars, ~ \E r \in RootSizes : SetRoot(r), NEW m \in Nodes
  PROVE  m \in Nodes' /\ heap'[m] \in Node /\ SamePlace(heap'[m], heap[m])
<1>1. CASE \E n \in Nodes : Split(n)
  BY <1>1, SplitPlaces
<1>2. CASE ~ \E n \in Nodes : Split(n)
  BY <1>2, SameHeap
<1> QED BY <1>1, <1>2

LEMMA RootNode ==
  ASSUME TypeOK
  PROVE  Root \in Nodes
BY DEF TypeOK, Nodes, Root

LEMMA BinStep == TypeOK /\ RootIsBin /\ [Next]_vars => RootIsBin'
<1> SUFFICES ASSUME TypeOK, RootIsBin, [Next]_vars
             PROVE  RootIsBin'
  OBVIOUS
<1>1. ASSUME NEW r \in RootSizes, SetRoot(r)
      PROVE  RootIsBin'
  BY <1>1, NewRoot DEF SetRoot, RootIsBin, Bin
<1>2. CASE ~ \E r \in RootSizes : SetRoot(r)
  <2>1. SamePlace(heap'[Root], heap[Root])
    BY <1>2, RootNode, NodesStay
  <2> QED BY <2>1 DEF SamePlace, RootIsBin, Bin
<1> QED BY <1>1, <1>2

LEMMA AtlasInit == Init => A!Init
<1> SUFFICES ASSUME Init
             PROVE  A!Init
  OBVIOUS
<1>1. PICK r \in RootSizes : heap = <<NewNode(0, 0, r.w, r.h)>>
  BY DEF Init
<1>2. Bin = r /\ Nodes = {1} /\ UsedNodes = {}
  BY <1>1, NewRoot DEF Bin, Nodes, UsedNodes
<1> QED BY <1>2 DEF A!Init, Init, Bin

(* The box just handed out fits in the atlas: it is in the bin and touches *)
(* no other box.                                                           *)
LEMMA TakenFits ==
  ASSUME TypeOK, InsideRoot, LeavesTile, RootIsBin,
         NEW n \in Nodes, Take(n)
  PROVE  LET r == [x |-> heap[n].x, y |-> heap[n].y, w |-> call.w, h |-> call.h]
         IN  r = RectOf(heap[n]) /\ A!Fits(r)
<1> DEFINE r == [x |-> heap[n].x, y |-> heap[n].y, w |-> call.w, h |-> call.h]
<1>1. r = RectOf(heap[n])
  BY DEF Take, FitsExactly, RectOf
<1>2. Inside(r, [x |-> 0, y |-> 0, w |-> Bin.w, h |-> Bin.h])
  <2>1. Inside(heap[n], heap[Root])
    BY DEF InsideRoot
  <2>2. /\ heap[n] \in Node
        /\ r.x = heap[n].x /\ r.y = heap[n].y /\ r.w = heap[n].w /\ r.h = heap[n].h
    BY <1>1, NodeType DEF RectOf
  <2>3. /\ heap[Root].x = 0 /\ heap[Root].y = 0
        /\ Bin.w = heap[Root].w /\ Bin.h = heap[Root].h
    BY DEF RootIsBin, Bin
  <2> HIDE DEF r
  <2> QED BY <2>1, <2>2, <2>3 DEF Inside
<1>3. ASSUME NEW m \in UsedNodes
      PROVE  Disjoint(r, RectOf(heap[m]))
  <2>1. m \in Nodes /\ heap[m].used /\ m # n /\ n \in Leaves
    BY <1>3 DEF UsedNodes, Take, Leaves
  <2>2. IsLeaf(m)
    BY <2>1 DEF TypeOK
  <2>3. Disjoint(heap[n], heap[m])
    BY <2>1, <2>2 DEF LeavesTile
  <2> QED BY <1>1, <2>3 DEF Disjoint, RectOf
<1> HIDE DEF r
<1>4. \A s : A!Inside(r, s) <=> Inside(r, s)
  BY DEF A!Inside, Inside
<1>5. \A s : A!Disjoint(r, s) <=> Disjoint(r, s)
  BY DEF A!Disjoint, Disjoint
<1>6. A!Inside(r, [x |-> 0, y |-> 0, w |-> Bin.w, h |-> Bin.h])
  BY <1>2, <1>4
<1>7. \A s \in Boxes : A!Disjoint(r, s)
  BY <1>3, <1>5 DEF Boxes
<1>8. A!Fits(r)
  BY <1>6, <1>7 DEF A!Fits, Bin, Boxes
<1> QED BY <1>1, <1>8 DEF r

(* What taking a node does to the nodes. *)
LEMMA TakeNode ==
  ASSUME TypeOK, NEW n \in Nodes, Take(n)
  PROVE  /\ Nodes' = Nodes
         /\ \A m \in Nodes : RectOf(heap'[m]) = RectOf(heap[m])
         /\ \A m \in Nodes : heap'[m].w = heap[m].w /\ heap'[m].h = heap[m].h
         /\ \A m \in Nodes : heap'[m].used <=> heap[m].used \/ m = n
<1> DEFINE e == [heap[n] EXCEPT !.used = TRUE]
<1>1. heap \in Seq(Node) /\ heap[n] \in Node /\ heap' = [heap EXCEPT ![n] = e]
  BY NodeType DEF TypeOK, Take
<1>2. /\ e \in Node /\ e.used
      /\ e.x = heap[n].x /\ e.y = heap[n].y /\ e.w = heap[n].w /\ e.h = heap[n].h
  BY <1>1 DEF Node
<1> HIDE DEF e
<1>3. /\ Len(heap') = Len(heap) /\ heap'[n] = e
      /\ \A m \in Nodes \ {n} : heap'[m] = heap[m]
  BY <1>1, <1>2, ReplaceAt DEF Nodes
<1> QED BY <1>2, <1>3 DEF Nodes, RectOf

(* A split uses no node. *)
LEMMA SplitUsed ==
  ASSUME TypeOK, NEW n \in Nodes, Split(n)
  PROVE  UsedNodes' = UsedNodes
<1> DEFINE one == Halves(heap[n], call)[1]
           two == Halves(heap[n], call)[2]
<1>1. ~one.used /\ ~two.used
  BY DEF Halves, NewNode
<1>2. ~heap[n].used /\ ~heap'[n].used
  <2>1. heap[n] \in Node /\ Len(heap) + 1 \in Nat /\ ~heap[n].used
    BY NodeType DEF TypeOK, Split
  <2>2. heap'[n] = [heap[n] EXCEPT !.kid = Len(heap) + 1]
    BY SplitNodes
  <2> QED BY <2>1, <2>2, WithKid
<1>3. /\ Nodes' = Nodes \cup {Len(heap) + 1, Len(heap) + 2}
      /\ heap'[Len(heap) + 1] = one /\ heap'[Len(heap) + 2] = two
      /\ \A m \in Nodes \ {n} : heap'[m] = heap[m]
  BY SplitNodes, SplitPlaces
<1> HIDE DEF one, two
<1> QED BY <1>1, <1>2, <1>3 DEF UsedNodes

LEMMA AtlasStep ==
  TypeOK /\ InsideRoot /\ LeavesTile /\ RootIsBin /\ [Next]_vars => [A!Next]_A!vars
<1> SUFFICES ASSUME TypeOK, InsideRoot, LeavesTile, RootIsBin, [Next]_vars
             PROVE  [A!Next]_A!vars
  OBVIOUS
<1>1. ASSUME Bin' = Bin, Boxes' = Boxes, call' = call
      PROVE  [A!Next]_A!vars
  BY <1>1 DEF A!vars, Bin, Boxes
<1>2. CASE UNCHANGED vars
  BY <1>1, <1>2 DEF vars, Bin, Boxes, UsedNodes, Nodes
<1>3. ASSUME NEW r \in RootSizes, SetRoot(r)
      PROVE  [A!Next]_A!vars
  <2>1. Bin' = r /\ Len(heap') = 1 /\ ~heap'[1].used /\ call' = call
    BY <1>3, NewRoot DEF SetRoot, Bin
  <2>2. Boxes' = {}
    BY <2>1 DEF Boxes, UsedNodes, Nodes
  <2>3. A!NewBin
    BY <2>1, <2>2 DEF A!NewBin, Bin, Boxes
  <2> QED BY <2>3 DEF A!Next
<1>4. ASSUME NEW b \in BoxSizes, Insert(b)
      PROVE  [A!Next]_A!vars
  <2>1. A!Ask
    BY <1>4 DEF Insert, A!Ask, UsedNodes, Nodes
  <2> QED BY <2>1 DEF A!Next
<1>5. ASSUME NEW n \in Nodes, Descend(n) \/ Refuse(n)
      PROVE  [A!Next]_A!vars
  BY <1>1, <1>5 DEF Descend, Refuse, Bin, Boxes, UsedNodes, Nodes
<1>6. ASSUME NEW n \in Nodes, Take(n)
      PROVE  [A!Next]_A!vars
  <2> DEFINE r == [x |-> heap[n].x, y |-> heap[n].y, w |-> call.w, h |-> call.h]
  <2>1. r = RectOf(heap[n]) /\ A!Fits(r)
    BY <1>6, TakenFits
  <2>2. heap[n].x \in 0 .. Bin.w /\ heap[n].y \in 0 .. Bin.h
    <3>1. Inside(heap[n], heap[Root]) /\ heap[n] \in Node /\ heap[Root] \in Node
      BY NodeType, RootNode DEF InsideRoot
    <3> QED BY <3>1 DEF RootIsBin, Bin, Inside, Node
  <2>3. Bin' = Bin /\ call' = call
    BY <1>6, TakeNode, RootNode DEF Take, Bin
  <2>4. Boxes' = Boxes \cup {r}
    BY <1>6, <2>1, TakeNode DEF Boxes, UsedNodes
  <2> HIDE DEF r
  <2>5. A!Place
    BY <2>1, <2>2, <2>3, <2>4 DEF A!Place, Bin, Boxes, r
  <2> QED BY <2>5 DEF A!Next
<1>7. ASSUME NEW n \in Nodes, Split(n)
      PROVE  [A!Next]_A!vars
  <2>1. Bin' = Bin /\ call' = call
    <3>1. heap'[Root].w = heap[Root].w /\ heap'[Root].h = heap[Root].h
      BY <1>7, SplitPlaces, RootNode DEF SamePlace
    <3> QED BY <1>7, <3>1 DEF Bin, Split
  <2>2. UsedNodes' = UsedNodes
    BY <1>7, SplitUsed
  <2>3. \A m \in UsedNodes : RectOf(heap'[m]) = RectOf(heap[m])
    BY <1>7, SplitPlaces DEF UsedNodes, SamePlace, RectOf
  <2> QED BY <1>1, <2>1, <2>2, <2>3 DEF Boxes
<1> QED
  BY <1>2, <1>3, <1>4, <1>5, <1>6, <1>7, VisitedNode DEF Next, Visit

(* The tree implements an Atlas: whatever Insert does to it, to its user   *)
(* it only places boxes of the size asked for where they neither leave the *)
(* bin nor touch one another, or does nothing.                             *)
THEOREM TreeIsAnAtlas == Spec => AtlasSpec
<1>1. Spec => []RootIsBin
  BY TypeCorrect, BinInit, BinStep, PTL DEF Spec
<1> QED
  BY <1>1, AtlasInit, AtlasStep, TypeCorrect, BoxesInsideRoot,
     LeavesNeverOverlap, PTL DEF Spec, AtlasSpec, A!Spec

-----------------------------------------------------------------------------
(* Room in the root. *)
Rest == Room - Larger(call.w, call.h)

LEMMA Shortened ==
  ASSUME NEW a \in Int, NEW b \in Int, NEW c \in Int, NEW d \in Nat,
         a >= c, b <= d
  PROVE  a - b >= c - d /\ a >= c - d
OBVIOUS

LEMMA CallType ==
  ASSUME TypeOK
  PROVE  /\ call.w \in Nat \ {0} /\ call.h \in Nat \ {0}
         /\ Larger(call.w, call.h) \in Nat \ {0}
         /\ call.w <= Larger(call.w, call.h) /\ call.h <= Larger(call.w, call.h)
         /\ Room \in Int /\ Rest \in Int /\ Rest < Room
<1>1. call.w \in Nat \ {0} /\ call.h \in Nat \ {0}
  BY SizesAssumption DEF TypeOK, Size
<1>2. heap[Root].w \in Nat /\ heap[Root].h \in Nat /\ claimed \in Nat
  BY RootNode, NodeType DEF Node, TypeOK
<1> QED BY <1>1, <1>2 DEF Larger, Smaller, Room, Rest

LEMMA BigInit == Init => BigLeaf
<1> SUFFICES ASSUME Init
             PROVE  FreeLeaf(Room, Null)
  BY DEF BigLeaf
<1>1. PICK r \in RootSizes : heap = <<NewNode(0, 0, r.w, r.h)>>
  BY DEF Init
<1>2. /\ Len(heap) = 1 /\ ~heap[1].used /\ heap[1].kid = 0
      /\ heap[1].w = r.w /\ heap[1].h = r.h /\ r.w \in Nat /\ r.h \in Nat
  BY <1>1, SizesAssumption DEF NewNode, Size
<1>3. Room = Smaller(r.w, r.h)
  BY <1>2 DEF Room, Init, Smaller
<1>4. 1 \in Leaves \ {Null} /\ heap[1].w >= Room /\ heap[1].h >= Room
  BY <1>2, <1>3 DEF Leaves, Nodes, IsLeaf, Smaller
<1> QED BY <1>2, <1>4 DEF FreeLeaf

(* A split leaves the box a leaf to go to, and what remains of the room to *)
(* another leaf.                                                           *)
LEMMA SplitKeepsRoom ==
  ASSUME TypeOK, BigLeaf, NEW n \in Nodes, n = Head(stack), stack # <<>>, Split(n)
  PROVE  BigLeaf'
<1>0. PICK a, b : a = Len(heap) + 1 /\ b = Len(heap) + 2
  OBVIOUS
<1>1. /\ heap[n] \in Node /\ IsLeaf(n) /\ ~heap[n].used /\ Fits(call, n)
      /\ stack' = stack /\ call' = call /\ claimed' = claimed
      /\ Len(heap) \in Nat /\ call \in Size
  BY NodeType, SizesAssumption DEF Split, TypeOK
<1>2. /\ Nodes' = Nodes \cup {a, b} /\ a # b /\ a \notin Nodes /\ b \notin Nodes
      /\ \A m \in Nodes \ {n} : heap'[m] = heap[m]
      /\ heap'[n].kid = a /\ a # 0
      /\ heap'[a] = Halves(heap[n], call)[1]
      /\ heap'[b] = Halves(heap[n], call)[2]
  <2>1. a # b /\ a \notin Nodes /\ b \notin Nodes /\ a # 0
    BY <1>0, <1>1 DEF Nodes
  <2> QED BY <1>0, <2>1, SplitNodes, SplitPlaces
<1>3. /\ heap'[a].kid = 0 /\ ~heap'[a].used
      /\ call.w <= heap'[a].w /\ call.h <= heap'[a].h
  <2>1. heap'[a].kid = 0
    BY <1>0, SplitPlaces
  <2> QED BY <1>1, <1>2, <2>1, HalvesSizes DEF Fits
<1>4. /\ heap'[b].kid = 0 /\ ~heap'[b].used
      /\ \/ heap'[b].w = heap[n].w - call.w /\ heap'[b].h = heap[n].h
         \/ heap'[b].w = heap[n].w /\ heap'[b].h = heap[n].h - call.h
  <2>1. heap'[b].kid = 0
    BY <1>0, SplitPlaces
  <2> QED BY <1>1, <1>2, <2>1, HalvesSizes DEF Fits
<1>5. Room' = Room /\ Rest' = Rest
  <2>1. heap'[Root].w = heap[Root].w /\ heap'[Root].h = heap[Root].h
    BY SplitPlaces, RootNode DEF SamePlace
  <2> QED BY <1>1, <2>1 DEF Room, Rest
<1>6. ASSUME Rest > 0
      PROVE  FreeLeaf(Rest, a)'
  <2>1. ASSUME NEW m \in Leaves, m # n, ~heap[m].used,
               heap[m].w >= Rest, heap[m].h >= Rest
        PROVE  FreeLeaf(Rest, a)'
    <3>1. m \in Nodes /\ m \in Nodes' /\ m # a /\ heap'[m] = heap[m]
      BY <1>2, <2>1 DEF Leaves
    <3>2. m \in (Leaves \ {a})'
      BY <2>1, <3>1 DEF Leaves, IsLeaf
    <3> QED BY <1>5, <2>1, <3>1, <3>2 DEF FreeLeaf
  <2>2. CASE heap[n].w >= Room /\ heap[n].h >= Room
    <3>1. heap[n].w \in Int /\ heap[n].h \in Int
      BY <1>1 DEF Node
    <3>2. heap'[b].w >= Rest /\ heap'[b].h >= Rest
      <4>1. heap[n].w - call.w >= Rest /\ heap[n].w >= Rest
        BY <2>2, <3>1, CallType, Shortened DEF Rest
      <4>2. heap[n].h - call.h >= Rest /\ heap[n].h >= Rest
        BY <2>2, <3>1, CallType, Shortened DEF Rest
      <4> QED BY <1>4, <4>1, <4>2
    <3>3. b \in (Leaves \ {a})'
      BY <1>2, <1>4 DEF Leaves, IsLeaf
    <3> QED BY <1>4, <1>5, <3>2, <3>3 DEF FreeLeaf
  <2>3. CASE Room > 0 => FreeLeaf(Room, Null)
    <3>0. Room > 0
      BY <1>6, CallType
    <3>1. PICK m \in Leaves :
            ~heap[m].used /\ heap[m].w >= Room /\ heap[m].h >= Room
      BY <2>3, <3>0 DEF FreeLeaf
    <3>2. heap[m] \in Node
      BY NodeType DEF Leaves
    <3>3. heap[m].w >= Rest /\ heap[m].h >= Rest
      BY <3>1, <3>2, CallType DEF Node
    <3> QED BY <2>1, <2>2, <3>1, <3>3
  <2>4. CASE Rest > 0 => FreeLeaf(Rest, n)
    BY <1>6, <2>1, <2>4 DEF FreeLeaf
  <2> QED BY <1>1, <2>3, <2>4 DEF BigLeaf, Rest
<1>7. Target(n)'
  BY <1>1, <1>2, <1>3 DEF Target, IsLeaf, Fits
<1>8. /\ n = Head(stack') /\ stack' # <<>>
      /\ ~IsLeaf(n)' /\ heap'[n].kid = a
  BY <1>1, <1>2 DEF IsLeaf
<1> QED BY <1>5, <1>6, <1>7, <1>8 DEF BigLeaf, Rest

(* Using a leaf takes from the room no more than the larger side of it. *)
LEMMA TakeKeepsRoom ==
  ASSUME TypeOK, BigLeaf, NEW n \in Nodes, n = Head(stack), Take(n)
  PROVE  BigLeaf'
<1>1. /\ IsLeaf(n) /\ heap[n] \in Node /\ call.w = heap[n].w /\ call.h = heap[n].h
      /\ stack' = <<>> /\ call' = call
      /\ claimed' = claimed + Larger(call.w, call.h)
  BY NodeType DEF Take, FitsExactly
<1>2. Room' = Rest
  <2>1. heap'[Root].w = heap[Root].w /\ heap'[Root].h = heap[Root].h
    BY TakeNode, RootNode
  <2>2. /\ claimed \in Int /\ Larger(call.w, call.h) \in Int
        /\ Smaller(heap[Root].w, heap[Root].h) \in Int
    <3>1. heap[Root].w \in Int /\ heap[Root].h \in Int
      BY RootNode, NodeType DEF Node
    <3> QED BY <3>1, CallType DEF TypeOK, Smaller
  <2> QED BY <1>1, <2>1, <2>2 DEF Room, Rest
<1>3. ASSUME NEW m \in Leaves, m # n, ~heap[m].used,
             heap[m].w >= Rest, heap[m].h >= Rest
      PROVE  FreeLeaf(Room, Null)'
  <2>1. m \in Nodes /\ m # Null
    BY NodeType, <1>3 DEF Leaves
  <2>2. m \in Nodes' /\ heap'[m] = heap[m]
    <3>1. heap \in Seq(Node) /\ heap' = [heap EXCEPT ![n].used = TRUE]
      BY DEF TypeOK, Take
    <3> QED BY <1>3, <2>1, <3>1, TakeNode
  <2>3. m \in (Leaves \ {Null})'
    BY <2>1, <2>2 DEF Leaves, IsLeaf
  <2> QED BY <1>2, <1>3, <2>2, <2>3 DEF FreeLeaf
<1>4. ASSUME Rest > 0
      PROVE  FreeLeaf(Room, Null)'
  <2>1. CASE Room > 0 => FreeLeaf(Room, Null)
    <3>1. Room > 0
      BY <1>4, CallType
    <3>2. PICK m \in Leaves :
            ~heap[m].used /\ heap[m].w >= Room /\ heap[m].h >= Room
      BY <2>1, <3>1 DEF FreeLeaf
    <3>3. heap[m].w \in Int /\ heap[m].h \in Int
      BY NodeType DEF Leaves, Node
    <3>4. heap[m].w >= Rest /\ heap[m].h >= Rest
      BY <3>2, <3>3, CallType
    <3>5. m # n
      <4>1. ASSUME m = n
            PROVE  FALSE
        <5>1. Larger(call.w, call.h) >= Room
          BY <1>1, <3>2, <3>3, <4>1, CallType
        <5> QED BY <1>4, <5>1, CallType DEF Rest
      <4> QED BY <4>1
    <3> QED BY <1>3, <3>2, <3>4, <3>5
  <2>2. CASE Target(n) /\ (Rest > 0 => FreeLeaf(Rest, n))
    BY <1>3, <1>4, <2>2 DEF FreeLeaf
  <2> QED BY <1>1, <2>1, <2>2 DEF BigLeaf, Rest
<1> QED BY <1>2, <1>4 DEF BigLeaf

LEMMA BigStep == TypeOK /\ BigLeaf /\ [Next]_vars => BigLeaf'
<1> SUFFICES ASSUME TypeOK, BigLeaf, [Next]_vars
             PROVE  BigLeaf'
  OBVIOUS
<1>1. ASSUME UNCHANGED <<heap, claimed>>, Room > 0 => FreeLeaf(Room, Null)
      PROVE  BigLeaf'
  BY <1>1 DEF BigLeaf, Room, FreeLeaf, Leaves, Nodes, IsLeaf
<1>2. CASE UNCHANGED vars
  <2>1. /\ UNCHANGED <<heap, call, stack, claimed>> /\ Nodes' = Nodes
        /\ Leaves' = Leaves /\ Room' = Room
    BY <1>2 DEF vars, Room, Leaves, Nodes, IsLeaf
  <2>2. CASE Room > 0 => FreeLeaf(Room, Null)
    BY <1>1, <2>1, <2>2
  <2>3. CASE ~(Room > 0 => FreeLeaf(Room, Null))
    <3>1. /\ stack # <<>> /\ Target(Head(stack))
          /\ Rest > 0 => FreeLeaf(Rest, IF IsLeaf(Head(stack)) THEN Head(stack)
                                        ELSE heap[Head(stack)].kid)
      BY <2>3 DEF BigLeaf, Rest
    <3>2. stack' # <<>> /\ Target(Head(stack))'
      BY <2>1, <3>1 DEF Target, IsLeaf, Fits
    <3>3. Rest' = Rest /\ (IsLeaf(Head(stack)) <=> IsLeaf(Head(stack))')
      BY <2>1 DEF Rest, IsLeaf
    <3>4. \A j, k : FreeLeaf(j, k) <=> FreeLeaf(j, k)'
      BY <2>1 DEF FreeLeaf
    <3>5. (Rest > 0 => FreeLeaf(Rest, IF IsLeaf(Head(stack)) THEN Head(stack)
                                      ELSE heap[Head(stack)].kid))'
      BY <2>1, <3>1, <3>3, <3>4
    <3> QED BY <3>2, <3>5 DEF BigLeaf, Rest
  <2> QED BY <2>2, <2>3
<1>3. ASSUME NEW r \in RootSizes, SetRoot(r)
      PROVE  BigLeaf'
  <2>1. /\ Len(heap') = 1 /\ ~heap'[1].used /\ heap'[1].kid = 0
        /\ heap'[1].w = r.w /\ heap'[1].h = r.h /\ r.w \in Nat /\ r.h \in Nat
        /\ claimed' = 0
    BY <1>3, SizesAssumption DEF SetRoot, NewNode, Size
  <2>2. Room' = Smaller(r.w, r.h)
    BY <2>1 DEF Room, Smaller
  <2>3. 1 \in (Leaves \ {Null})' /\ heap'[1].w >= Room' /\ heap'[1].h >= Room'
    BY <2>1, <2>2 DEF Leaves, Nodes, IsLeaf, Smaller
  <2>4. FreeLeaf(Room, Null)'
    BY <2>1, <2>3 DEF FreeLeaf
  <2> QED BY <2>4 DEF BigLeaf
<1>4. ASSUME NEW b \in BoxSizes, Insert(b)
      PROVE  BigLeaf'
  <2>1. stack = <<>> /\ UNCHANGED <<heap, claimed>>
    BY <1>4 DEF Insert
  <2> QED BY <1>1, <2>1 DEF BigLeaf
<1>5. ASSUME NEW n \in Nodes, n = Head(stack), stack # <<>>, Descend(n)
      PROVE  BigLeaf'
  <2>1. UNCHANGED <<heap, claimed, call>> /\ ~IsLeaf(n)
    BY <1>5 DEF Descend
  <2>2. CASE Room > 0 => FreeLeaf(Room, Null)
    BY <1>1, <2>1, <2>2
  <2>3. CASE Target(n) /\ (Rest > 0 => FreeLeaf(Rest, heap[n].kid))
    <3>1. stack' # <<>> /\ Head(stack') = heap[n].kid
      <4>1. /\ stack \in Seq(Nodes)
            /\ stack' = <<heap[n].kid, heap[n].kid + 1>> \o Tail(stack)
        BY <1>5 DEF TypeOK, Descend
      <4>2. heap[n].kid \in Nodes /\ heap[n].kid + 1 \in Nodes
        BY <2>1, InnerKids
      <4> DEFINE k == heap[n].kid
      <4> HIDE DEF k
      <4>3. /\ <<k, k + 1>> \o Tail(stack) \in Seq(Nodes)
            /\ Len(<<k, k + 1>> \o Tail(stack)) = Len(stack) + 1
            /\ (<<k, k + 1>> \o Tail(stack))[1] = k
        BY <1>5, <4>1, <4>2, ReplaceHead DEF k
      <4> QED BY <1>5, <4>1, <4>3, VisitedNode DEF k
    <3>2. /\ IsLeaf(heap[n].kid) /\ ~heap[heap[n].kid].used
          /\ Fits(call, heap[n].kid)
      BY <2>1, <2>3 DEF Target
    <3>3. Target(Head(stack))' /\ IsLeaf(Head(stack))'
      BY <2>1, <3>1, <3>2 DEF Target, IsLeaf, Fits
    <3>4. (Rest > 0 => FreeLeaf(Rest, Head(stack)))'
      BY <2>1, <2>3, <3>1 DEF Rest, Room, FreeLeaf, Leaves, Nodes, IsLeaf
    <3> QED BY <3>1, <3>3, <3>4 DEF BigLeaf, Rest
  <2> QED BY <1>5, <2>1, <2>2, <2>3 DEF BigLeaf, Rest
<1>6. ASSUME NEW n \in Nodes, n = Head(stack), stack # <<>>, Refuse(n)
      PROVE  BigLeaf'
  <2>1. UNCHANGED <<heap, claimed>> /\ ~Target(n)
    BY <1>6 DEF Refuse, Target
  <2> QED BY <1>1, <1>6, <2>1 DEF BigLeaf
<1>7. ASSUME NEW n \in Nodes, n = Head(stack), stack # <<>>, Take(n)
      PROVE  BigLeaf'
  BY <1>7, TakeKeepsRoom
<1>8. ASSUME NEW n \in Nodes, n = Head(stack), stack # <<>>, Split(n)
      PROVE  BigLeaf'
  BY <1>8, SplitKeepsRoom
<1> QED
  BY <1>2, <1>3, <1>4, <1>5, <1>6, <1>7, <1>8, VisitedNode DEF Next, Visit

(* However the cuts fall, one free leaf keeps what the larger sides of the *)
(* boxes have left of the root.                                            *)
THEOREM OneLeafStaysBig == Spec => []BigLeaf
BY TypeCorrect, BigInit, BigStep, PTL DEF Spec

LEMMA NoFailureStep ==
  TypeOK /\ LeavesTile /\ NothingSkipped /\ BigLeaf /\ [Next]_vars =>
    [ (stack # <<>> /\ stack' = <<>> /\ ret' = Null) =>
        Larger(call.w, call.h) > Room ]_vars
<1> SUFFICES ASSUME TypeOK, LeavesTile, NothingSkipped, BigLeaf, [Next]_vars,
                    ~(UNCHANGED vars),
                    stack # <<>>, stack' = <<>>, ret' = Null,
                    ~(Larger(call.w, call.h) > Room)
             PROVE  FALSE
  OBVIOUS
<1>1. \A m \in Leaves : heap[m].used \/ ~Fits(call, m)
  BY GivesUpStep
<1>2. CASE Room > 0 => FreeLeaf(Room, Null)
  <2>1. Room > 0
    BY CallType
  <2>2. PICK m \in Leaves :
          ~heap[m].used /\ heap[m].w >= Room /\ heap[m].h >= Room
    BY <1>2, <2>1 DEF FreeLeaf
  <2>3. heap[m].w \in Int /\ heap[m].h \in Int
    BY NodeType DEF Leaves, Node
  <2>4. Room \in Int /\ Larger(call.w, call.h) <= Room
    BY CallType
  <2>5. call.w <= Room /\ call.h <= Room
    BY <2>4, CallType
  <2>6. call.w \in Int /\ call.h \in Int
    BY CallType
  <2>7. call.w <= heap[m].w
    BY <2>2, <2>3, <2>4, <2>5, <2>6
  <2>8. call.h <= heap[m].h
    BY <2>2, <2>3, <2>4, <2>5, <2>6
  <2> QED BY <1>1, <2>2, <2>7, <2>8 DEF Fits
<1>3. CASE Target(Head(stack))
  <2>1. Head(stack) \in Nodes
    BY VisitedNode
  <2> DEFINE t == IF IsLeaf(Head(stack)) THEN Head(stack)
                  ELSE heap[Head(stack)].kid
  <2>2. t \in Nodes
    BY <2>1, InnerKids
  <2>3. IsLeaf(t) /\ ~heap[t].used /\ Fits(call, t)
    BY <1>3 DEF Target
  <2> HIDE DEF t
  <2> QED BY <1>1, <2>2, <2>3 DEF Leaves
<1> QED BY <1>2, <1>3 DEF BigLeaf

(* Insert cannot fail as long as the larger sides of the boxes inserted,   *)
(* this one included, add up to no more than the shorter side of the root. *)
THEOREM RoomIsEnough == Spec => NeverFailsWithRoom
BY NoFailureStep, TypeCorrect, LeavesNeverOverlap, SearchSkipsNothing,
   OneLeafStaysBig, PTL
DEF Spec, NeverFailsWithRoom

=============================================================================

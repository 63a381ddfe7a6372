------------------------------- MODULE cNode --------------------------------
(***************************************************************************)
(* The binary space-partition tree of cNode.cpp that the packer inserts    *)
(* boxes into.                                                             *)
(*                                                                         *)
(* Nodes are numbered in the order they are allocated: the tree is the     *)
(* sequence heap, node 1 is the local cNode of cFrame::Pack_TrySize, and   *)
(* the two children of an inner node are allocated together, so node kid   *)
(* is m_pChild[0] and node kid + 1 is m_pChild[1].  The recursion of       *)
(* cNode::Insert is the stack of the nodes Insert still has to be called   *)
(* on, the innermost call first; it is empty when no call is in progress.  *)
(***************************************************************************)
EXTENDS Rects, Sequences

CONSTANTS
  RootSizes,    (* the [w, h] given to SetPos of a root       *)
  BoxSizes      (* the [w, h] Insert is called with           *)

Size == [w : Nat \ {0}, h : Nat \ {0}]

ASSUME SizesAssumption ==
  /\ RootSizes \subseteq Size
  /\ BoxSizes \subseteq Size

VARIABLES
  heap,         (* the nodes: geometry, m_bUsed and m_pChild  *)
  call,         (* the arguments of the Insert in progress    *)
  stack,        (* the nodes it has still to visit            *)
  ret,          (* what the last call of Insert returned      *)
  claimed       (* history: the sum of the larger sides of    *)
                (* the boxes inserted since SetRoot           *)

vars == <<heap, call, stack, ret, claimed>>

Null == 0
Root == 1

Node == [x : Nat, y : Nat, w : Nat \ {0}, h : Nat \ {0},
         used : BOOLEAN, kid : Nat]

Nodes == 1 .. Len(heap)

IsLeaf(n) == heap[n].kid = Null

Leaves == {n \in Nodes : IsLeaf(n)}

UsedNodes == {n \in Nodes : heap[n].used}

(* cNode::cNode followed by SetPos *)
NewNode(x, y, w, h) ==
  [x |-> x, y |-> y, w |-> w, h |-> h, used |-> FALSE, kid |-> Null]

Fits(b, n) == b.w <= heap[n].w /\ b.h <= heap[n].h

FitsExactly(b, n) == b.w = heap[n].w /\ b.h = heap[n].h

-----------------------------------------------------------------------------
(* Seeded faults, used only to see that the properties notice them: the    *)
(* second child starts where the first does; it keeps the full height.     *)
HalvesOverlap(e, b) ==
  IF e.w - b.w > e.h - b.h
    THEN << NewNode(e.x, e.y, b.w,       e.h),
            NewNode(e.x, e.y, e.w - b.w, e.h) >>
    ELSE << NewNode(e.x, e.y, e.w, b.h),
            NewNode(e.x, e.y, e.w, e.h - b.h) >>

HalvesTooHigh(e, b) ==
  IF e.w - b.w > e.h - b.h
    THEN << NewNode(e.x,       e.y, b.w,       e.h),
            NewNode(e.x + b.w, e.y, e.w - b.w, e.h) >>
    ELSE << NewNode(e.x, e.y,       e.w, b.h),
            NewNode(e.x, e.y + b.h, e.w, e.h) >>

(* ... the second child is no wider (or higher) than the first.            *)
HalvesEqual(e, b) ==
  IF e.w - b.w > e.h - b.h
    THEN << NewNode(e.x,       e.y, b.w, e.h),
            NewNode(e.x + b.w, e.y, Smaller(b.w, e.w - b.w), e.h) >>
    ELSE << NewNode(e.x, e.y,       e.w, b.h),
            NewNode(e.x, e.y + b.h, e.w, Smaller(b.h, e.h - b.h)) >>

(* The two children a leaf is split into: the cut runs along the side on   *)
(* which more room is left over, and the first child is as wide (or as     *)
(* high) as the box.                                                       *)
Halves(e, b) ==
  IF e.w - b.w > e.h - b.h
    THEN << NewNode(e.x,       e.y, b.w,       e.h),
            NewNode(e.x + b.w, e.y, e.w - b.w, e.h) >>
    ELSE << NewNode(e.x, e.y,       e.w, b.h),
            NewNode(e.x, e.y + b.h, e.w, e.h - b.h) >>

Init ==
  /\ \E r \in RootSizes : heap = <<NewNode(0, 0, r.w, r.h)>>
  /\ call \in BoxSizes
  /\ stack = <<>>
  /\ ret = Null
  /\ claimed = 0

(* The caller drops its tree and starts a new one. *)
SetRoot(r) ==
  /\ stack = <<>>
  /\ heap' = <<NewNode(0, 0, r.w, r.h)>>
  /\ ret' = Null
  /\ claimed' = 0
  /\ UNCHANGED <<call, stack>>

(* The caller calls Insert on the root. *)
Insert(b) ==
  /\ stack = <<>>
  /\ call' = b
  /\ stack' = <<Root>>
  /\ UNCHANGED <<heap, ret, claimed>>

(* Seeded fault: the second child is never asked.                          *)
DescendFirst(n) ==
  /\ ~IsLeaf(n)
  /\ stack' = <<heap[n].kid>> \o Tail(stack)
  /\ UNCHANGED <<heap, call, ret, claimed>>

(* An inner node asks its first child and, should that return null, its    *)
(* second.                                                                 *)
Descend(n) ==
  /\ ~IsLeaf(n)
  /\ stack' = <<heap[n].kid, heap[n].kid + 1>> \o Tail(stack)
  /\ UNCHANGED <<heap, call, ret, claimed>>

(* Seeded fault: a leaf as wide as the box counts as too small.            *)
RefuseEqual(n) ==
  /\ IsLeaf(n)
  /\ heap[n].used \/ call.w >= heap[n].w \/ call.h > heap[n].h
  /\ stack' = Tail(stack)
  /\ ret' = Null
  /\ UNCHANGED <<heap, call, claimed>>

(* A leaf that is used or too small returns null: on to the next node, or  *)
(* out of the outermost call when there is none.                           *)
Refuse(n) ==
  /\ IsLeaf(n)
  /\ heap[n].used \/ ~Fits(call, n)
  /\ stack' = Tail(stack)
  /\ ret' = Null
  /\ UNCHANGED <<heap, call, claimed>>

(* Seeded fault: a larger leaf is used as it is.                           *)
TakeLarger(n) ==
  /\ IsLeaf(n)
  /\ ~heap[n].used
  /\ Fits(call, n)
  /\ heap' = [heap EXCEPT ![n].used = TRUE]
  /\ stack' = <<>>
  /\ ret' = n
  /\ claimed' = claimed + Larger(call.w, call.h)
  /\ UNCHANGED call

(* A free leaf of exactly the right size is used, and every call returns.  *)
Take(n) ==
  /\ IsLeaf(n)
  /\ ~heap[n].used
  /\ FitsExactly(call, n)
  /\ heap' = [heap EXCEPT ![n].used = TRUE]
  /\ stack' = <<>>
  /\ ret' = n
  /\ claimed' = claimed + Larger(call.w, call.h)
  /\ UNCHANGED call

(* Seeded faults: a leaf of the right size is split as well; the children  *)
(* are not attached.                                                       *)
SplitExact(n) ==
  /\ IsLeaf(n)
  /\ ~heap[n].used
  /\ Fits(call, n)
  /\ heap' = [heap EXCEPT ![n].kid = Len(heap) + 1] \o Halves(heap[n], call)
  /\ UNCHANGED <<call, stack, ret, claimed>>

SplitNothing(n) ==
  /\ IsLeaf(n)
  /\ ~heap[n].used
  /\ Fits(call, n)
  /\ ~FitsExactly(call, n)
  /\ UNCHANGED vars

(* A free leaf that is larger gets two children; the recursive call that   *)
(* follows on the same node finds it an inner node.                        *)
Split(n) ==
  /\ IsLeaf(n)
  /\ ~heap[n].used
  /\ Fits(call, n)
  /\ ~FitsExactly(call, n)
  /\ heap' = [heap EXCEPT ![n].kid = Len(heap) + 1] \o Halves(heap[n], call)
  /\ UNCHANGED <<call, stack, ret, claimed>>

Visit ==
  /\ stack # <<>>
  /\ LET n == Head(stack) IN Descend(n) \/ Refuse(n) \/ Take(n) \/ Split(n)

Next ==
  \/ \E r \in RootSizes : SetRoot(r)
  \/ \E b \in BoxSizes : Insert(b)
  \/ Visit

Spec == Init /\ [][Next]_vars

(* Insert is a function call: once made it runs to its return. *)
FairSpec == Spec /\ WF_vars(Visit)

-----------------------------------------------------------------------------
(* Every node has the fields and ranges of its type, in particular no      *)
(* split leaves a child without pixels; only leaves are used; children are *)
(* allocated after their parent; and Insert only visits nodes that exist.  *)
TypeOK ==
  /\ heap \in Seq(Node)
  /\ Len(heap) >= 1
  /\ \A n \in Nodes : ~IsLeaf(n) =>
       /\ heap[n].kid \in n + 1 .. Len(heap) - 1
       /\ ~heap[n].used
  /\ call \in BoxSizes
  /\ stack \in Seq(Nodes)
  /\ ret \in Nodes \cup {Null}
  /\ claimed \in Nat

(* A leaf has no pixel in common with any other node of the tree, unless   *)
(* that node is an ancestor of it, and then it lies inside one of the two  *)
(* children.  With the next property this is what makes the leaves tile    *)
(* the root.                                                               *)
LeavesTile ==
  \A m \in Leaves : \A n \in Nodes \ {m} :
    \/ Disjoint(heap[m], heap[n])
    \/ /\ ~IsLeaf(n)
       /\ \E k \in {heap[n].kid, heap[n].kid + 1} : Inside(heap[m], heap[k])

(* Every node, so every box handed out, lies inside the root. *)
InsideRoot == \A n \in Nodes : Inside(heap[n], heap[Root])

(* While Insert searches, every free leaf the box would fit in is still    *)
(* ahead of it: under a node it has yet to visit.                          *)
NothingSkipped ==
  stack # <<>> =>
    \A m \in Leaves :
      ~heap[m].used /\ Fits(call, m) =>
        \E i \in 1 .. Len(stack) : Inside(heap[m], heap[stack[i]])

(* Insert gives up (returns null) only when no free leaf can hold the box, *)
(* although it visits the leaves in a fixed order and cuts as it goes.     *)
NullOnlyWhenFull ==
  [][ (stack # <<>> /\ stack' = <<>> /\ ret' = Null) =>
        \A m \in Leaves : heap[m].used \/ ~Fits(call, m) ]_vars

Room == Smaller(heap[Root].w, heap[Root].h) - claimed

(* A free leaf other than n that measures at least k both ways *)
FreeLeaf(k, n) ==
  \E m \in Leaves \ {n} : ~heap[m].used /\ heap[m].w >= k /\ heap[m].h >= k

(* Node n is where the box will go: it is a free leaf the box fits in, or  *)
(* has just been cut so that its first child is.                           *)
Target(n) ==
  LET t == IF IsLeaf(n) THEN n ELSE heap[n].kid IN
    IsLeaf(t) /\ ~heap[t].used /\ Fits(call, t)

(* However the cuts fall, one free leaf keeps in both directions what the  *)
(* larger sides of the boxes inserted so far have left of the root; and a  *)
(* call of Insert that has cut a leaf has a node to put the box in, and    *)
(* leaves what remains of that promise to another leaf.                    *)
BigLeaf ==
  \/ Room > 0 => FreeLeaf(Room, Null)
  \/ /\ stack # <<>>
     /\ Target(Head(stack))
     /\ LET rest == Room - Larger(call.w, call.h)
            n == Head(stack)
        IN  rest > 0 => FreeLeaf(rest, IF IsLeaf(n) THEN n ELSE heap[n].kid)

(* So Insert cannot fail in a root whose sides are as long as all larger   *)
(* sides together.  The doubling loop of cFrame::Pack_All ends by this.    *)
NeverFailsWithRoom ==
  [][ (stack # <<>> /\ stack' = <<>> /\ ret' = Null) =>
        Larger(call.w, call.h) > Room ]_vars

(* The boxes handed out are an Atlas: see there. *)
A == INSTANCE Atlas WITH
       BinSizes <- RootSizes,
       bin      <- [w |-> heap[Root].w, h |-> heap[Root].h],
       box      <- call,
       placed   <- {RectOf(heap[n]) : n \in UsedNodes}

AtlasSpec == A!Spec

(* Every call of Insert returns. *)
InsertReturns == stack # <<>> ~> stack = <<>>
=============================================================================

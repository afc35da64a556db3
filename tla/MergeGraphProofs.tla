-------------------------- MODULE MergeGraphProofs ---------------------------
(***************************************************************************)
(* Proofs about the types of routers, and that the operations of           *)
(* MergeGraph keep a graph well formed, for every graph: no edge is listed *)
(* twice or without a label, both ends of an edge are nodes, and each      *)
(* label lists paths and edges.  The folds of MergeGraph are reasoned      *)
(* about with FoldTheorems.                                                *)
(***************************************************************************)
EXTENDS MergeGraph, SequenceTheorems, FiniteSetTheorems, TLAPS

Pair == Nat \X Nat
Labels == [path : (SUBSET Pair) \ {{}}, options : Seq(Pair)]

-----------------------------------------------------------------------------
(* What a merge can do to the type of a router, for every pair of types    *)
(* that resultMerge accepts.                                               *)

(* Mergeable does not depend on which of the two edges comes first, nor do *)
(* the types of the merged ends: less, which tests its arguments in order, *)
(* leaves no pair comparable one way only (lines 12-49).                   *)
THEOREM MergeCommutes ==
    ASSUME NEW x \in Type, NEW y \in Type
    PROVE  /\ Comparable(x, y) <=> Comparable(y, x)
           /\ Comparable(x, y) => MaxType(x, y) = MaxType(y, x)
<1>1. Comparable(x, y) <=> Comparable(y, x)
    BY DEF Comparable, Less, Greater, Type
<1>2. ASSUME Comparable(x, y) PROVE MaxType(x, y) = MaxType(y, x)
  <2>1. CASE x = y
      BY <2>1
  <2>2. CASE x # y /\ Less(x, y)
    <3>1. ~Less(y, x)
        BY <2>2 DEF Less, Type
    <3>2. QED
        BY <2>2, <3>1 DEF MaxType
  <2>3. CASE x # y /\ ~Less(x, y)
    <3>1. Less(y, x)
        BY <1>2, <2>3 DEF Comparable, Less, Greater, Type
    <3>2. QED
        BY <2>3, <3>1 DEF MaxType
  <2>4. QED
      BY <2>1, <2>2, <2>3
<1>3. QED
    BY <1>1, <1>2

(* A merge only ever raises the type of an end: both types are at most the *)
(* one max returns (lines 50-56).                                          *)
THEOREM MergeRaises ==
    ASSUME NEW x \in Type, NEW y \in Type, Comparable(x, y)
    PROVE  MaxType(x, y) \in Type /\ Less(x, MaxType(x, y)) /\ Less(y, MaxType(x, y))
<1>1. CASE Less(x, y)
    BY <1>1 DEF MaxType, Less, Type
<1>2. CASE ~Less(x, y)
  <2>1. Less(y, x)
      BY <1>2 DEF Comparable, Less, Greater, Type
  <2>2. QED
      BY <1>2, <2>1 DEF MaxType, Less, Type
<1>3. QED
    BY <1>1, <1>2

(* A router that answered is merged only with one that answered too or is  *)
(* hidden, and stays one that answered: the types behind the property      *)
(* RoutersKeptByPhase3 of ITop.                                            *)
THEOREM AnsweringStays ==
    ASSUME NEW x \in Type, Comparable("R", x)
    PROVE  x \in {"R", "H"} /\ MaxType("R", x) = "R"
<1>1. x \in {"R", "H"}
    BY DEF Comparable, Less, Greater, Type
<1>2. CASE x = "R"
    BY <1>2 DEF MaxType
<1>3. CASE x = "H"
  <2>1. ~Less("R", "H")
      BY DEF Less
  <2>2. QED
      BY <1>1, <1>3, <2>1 DEF MaxType
<1>4. QED
    BY <1>1, <1>2, <1>3

(* What can be merged with the merged router could be merged with either   *)
(* of the two before: a merge never makes two routers comparable that were *)
(* not, so that the order of the merges cannot join routers that phase 2   *)
(* kept apart.                                                             *)
THEOREM MergeRestricts ==
    ASSUME NEW x \in Type, NEW y \in Type, NEW z \in Type,
           Comparable(x, y), Comparable(MaxType(x, y), z)
    PROVE  Comparable(x, z)
<1>1. CASE Less(x, y)
  <2>1. MaxType(x, y) = y
      BY <1>1 DEF MaxType
  <2>2. Comparable(y, z)
      BY <2>1
  <2>3. QED
      BY <1>1, <2>2 DEF Comparable, Less, Greater, Type
<1>2. CASE ~Less(x, y)
    BY <1>2 DEF MaxType
<1>3. QED
    BY <1>1, <1>2

-----------------------------------------------------------------------------
(* Sequences and the sets of their elements.                               *)
LEMMA AppendElements ==
    ASSUME NEW T, NEW s \in Seq(T), NEW x \in T
    PROVE  /\ Append(s, x) \in Seq(T) /\ Len(Append(s, x)) = Len(s) + 1
           /\ ToSet(Append(s, x)) = ToSet(s) \cup {x}
           /\ IsInjective(s) /\ x \notin ToSet(s) => IsInjective(Append(s, x))
  <1>. DEFINE a == Append(s, x)
  <1>1. /\ a \in Seq(T) /\ Len(a) = Len(s) + 1 /\ Len(s) \in Nat
        /\ DOMAIN s = 1..Len(s) /\ DOMAIN a = 1..(Len(s) + 1)
        /\ \A i \in 1..Len(s) : a[i] = s[i]
        /\ a[Len(s) + 1] = x
    OBVIOUS
  <1>. HIDE DEF a
  <1>2. ToSet(a) = ToSet(s) \cup {x}
    <2>1. \A y : y \in ToSet(a) <=> \E i \in 1..(Len(s) + 1) : a[i] = y
      BY <1>1 DEF ToSet
    <2>2. \A y : y \in ToSet(s) <=> \E i \in 1..Len(s) : s[i] = y
      BY <1>1 DEF ToSet
    <2>3. \A i : i \in 1..(Len(s) + 1) <=> i \in 1..Len(s) \/ i = Len(s) + 1
      BY <1>1
    <2>. QED  BY <1>1, <2>1, <2>2, <2>3
  <1>3. ASSUME IsInjective(s), x \notin ToSet(s)
        PROVE  IsInjective(a)
    <2>. SUFFICES ASSUME NEW i \in 1..(Len(s) + 1), NEW j \in 1..(Len(s) + 1), a[i] = a[j]
                  PROVE  i = j
      BY <1>1 DEF IsInjective
    <2>1. \A k \in 1..Len(s) : s[k] # x
      BY <1>1, <1>3 DEF ToSet
    <2>2. \A k, l \in 1..Len(s) : s[k] = s[l] => k = l
      BY <1>1, <1>3 DEF IsInjective
    <2>3. (i \in 1..Len(s) \/ i = Len(s) + 1) /\ (j \in 1..Len(s) \/ j = Len(s) + 1)
      BY <1>1
    <2>. QED  BY <1>1, <2>1, <2>2, <2>3
  <1>. QED  BY <1>1, <1>2, <1>3 DEF a

LEMMA Elements ==
    ASSUME NEW T, NEW s \in Seq(T)
    PROVE  /\ ToSet(s) \subseteq T
           /\ ToSet(s) = {s[i] : i \in 1..Len(s)}
           /\ Len(s) \in Nat
  BY DEF ToSet

-----------------------------------------------------------------------------
(* A filter lets through the elements of the set, in a list of its own.    *)
KeepStep(S, kept, e) == IF e \in S THEN Append(kept, e) ELSE kept

Filter == INSTANCE FoldTheorems WITH Op <- KeepStep

LEMMA OnlyIsFold == \A seq, S : Only(seq, S) = Filter!Fold(S, <<>>, seq)
  BY Zenon DEF Only, KeepStep, FoldLeft, MapThenFoldSet, Max,
               Filter!Fold, Filter!FoldLeft, Filter!MapThenFoldSet, Filter!Max

LEMMA OnlyElements ==
    ASSUME NEW T, NEW seq \in Seq(T), NEW S
    PROVE  /\ Only(seq, S) \in Seq(T) /\ Len(Only(seq, S)) <= Len(seq)
           /\ ToSet(Only(seq, S)) = ToSet(seq) \cap S
           /\ IsInjective(seq) => IsInjective(Only(seq, S))
  <1>. DEFINE First(i) == {seq[j] : j \in 1..i}
              I == [i \in Nat |->
                      {s \in Seq(T) : /\ Len(s) <= i
                                      /\ ToSet(s) = First(i) \cap S
                                      /\ IsInjective(seq) => IsInjective(s)}]
  <1>1. Len(seq) \in Nat /\ DOMAIN seq = 1..Len(seq)
    OBVIOUS
  <1>2. <<>> \in I[0]
    <2>1. First(0) = {} /\ ToSet(<<>>) = {} /\ IsInjective(<<>>) /\ <<>> \in Seq(T) /\ Len(<<>>) = 0
      BY DEF ToSet, IsInjective
    <2>. HIDE DEF First
    <2>. QED  BY <2>1
  <1>3. ASSUME NEW i \in 1..Len(seq), NEW s \in I[i-1]
        PROVE  KeepStep(S, s, seq[i]) \in I[i]
    <2>1. i \in Nat /\ i - 1 \in Nat /\ seq[i] \in T
      BY <1>1
    <2>2. /\ s \in Seq(T) /\ Len(s) <= i - 1 /\ Len(s) \in Nat
          /\ ToSet(s) = First(i - 1) \cap S
          /\ IsInjective(seq) => IsInjective(s)
      BY <2>1
    <2>3. First(i) = First(i - 1) \cup {seq[i]}
      <3>1. \A j : j \in 1..i <=> j \in 1..(i - 1) \/ j = i
        BY <2>1
      <3>. QED  BY <3>1
    <2>4. IsInjective(seq) => seq[i] \notin First(i - 1)
      <3>1. \A j \in 1..(i - 1) : j \in 1..Len(seq) /\ j # i
        BY <1>1, <2>1
      <3>. QED  BY <1>1, <3>1 DEF IsInjective
    <2>. HIDE DEF First
    <2>5. CASE seq[i] \in S
      <3>1. KeepStep(S, s, seq[i]) = Append(s, seq[i])
        BY <2>5 DEF KeepStep
      <3>2. /\ Append(s, seq[i]) \in Seq(T) /\ Len(Append(s, seq[i])) = Len(s) + 1
            /\ ToSet(Append(s, seq[i])) = ToSet(s) \cup {seq[i]}
            /\ IsInjective(s) /\ seq[i] \notin ToSet(s) => IsInjective(Append(s, seq[i]))
        BY <2>1, <2>2, AppendElements
      <3>3. Len(Append(s, seq[i])) <= i
        BY <2>1, <2>2, <3>2
      <3>4. ToSet(Append(s, seq[i])) = First(i) \cap S
        BY <2>2, <2>3, <2>5, <3>2
      <3>5. IsInjective(seq) => IsInjective(Append(s, seq[i]))
        BY <2>2, <2>4, <3>2
      <3>. QED  BY <2>1, <3>1, <3>2, <3>3, <3>4, <3>5
    <2>6. CASE seq[i] \notin S
      <3>1. KeepStep(S, s, seq[i]) = s
        BY <2>6 DEF KeepStep
      <3>2. ToSet(s) = First(i) \cap S /\ Len(s) <= i
        BY <2>1, <2>2, <2>3, <2>6
      <3>. QED  BY <2>1, <2>2, <3>1, <3>2
    <2>. QED  BY <2>5, <2>6
  <1>4. Filter!Fold(S, <<>>, seq) \in I[Len(seq)]
    <2>. HIDE DEF I
    <2>. QED  BY <1>2, <1>3, Filter!FoldKeeps
  <1>5. First(Len(seq)) = ToSet(seq)
    BY <1>1 DEF ToSet
  <1>. HIDE DEF First
  <1>. QED  BY <1>1, <1>4, <1>5, OnlyIsFold

-----------------------------------------------------------------------------
(* A well-formed graph.                                                    *)
GraphInv(h) ==
    /\ h = [type |-> h.type, default |-> h.default, edges |-> h.edges, label |-> h.label]
    /\ Nodes(h) \subseteq Nat /\ IsFiniteSet(Nodes(h))
    /\ h.type \in [Nodes(h) -> Type \cup {Default}]
    /\ h.default \in Type
    /\ h.edges \in Seq(Pair) /\ IsInjective(h.edges)
    /\ \A e \in Edges(h) : e[1] <= e[2] /\ e[1] \in Nodes(h) /\ e[2] \in Nodes(h)
    /\ h.label \in [Edges(h) -> Labels]

(* No edge is a merge option of its own.                                   *)
NoOwnOption(h) == \A e \in Edges(h) : \A o \in ToSet(h.label[e].options) : ~SameEdge(o, e)

(* A graph with some of its fields changed.                                *)
LEMMA ChangedGraph ==
    ASSUME NEW h, GraphInv(h), NEW t, NEW q, NEW l
    PROVE  /\ [h EXCEPT !.type = t]
                = [type |-> t, default |-> h.default, edges |-> h.edges, label |-> h.label]
           /\ [h EXCEPT !.label = l]
                = [type |-> h.type, default |-> h.default, edges |-> h.edges, label |-> l]
           /\ [h EXCEPT !.type = t, !.edges = q, !.label = l]
                = [type |-> t, default |-> h.default, edges |-> q, label |-> l]
  <1>1. PICK a, b, c, d : h = [type |-> a, default |-> b, edges |-> c, label |-> d]
    BY DEF GraphInv
  <1>. DEFINE i == [h EXCEPT !.type = t]
              j == [i EXCEPT !.edges = q]
              k == [j EXCEPT !.label = l]
  <1>2. i = [type |-> t, default |-> b, edges |-> c, label |-> d]
    BY ONLY <1>1
  <1>3. j = [type |-> t, default |-> b, edges |-> q, label |-> d]
    <2>. HIDE DEF i
    <2>. QED  BY ONLY <1>2
  <1>4. k = [type |-> t, default |-> b, edges |-> q, label |-> l]
    <2>. HIDE DEF j
    <2>. QED  BY ONLY <1>3
  <1>5. [h EXCEPT !.label = l] = [type |-> a, default |-> b, edges |-> c, label |-> l]
    BY ONLY <1>1
  <1>6. h.type = a /\ h.default = b /\ h.edges = c /\ h.label = d
    BY ONLY <1>1
  <1>. QED  BY ONLY <1>2, <1>4, <1>5, <1>6

LEMMA EmptyGraphInv == GraphInv(EmptyGraph) /\ Nodes(EmptyGraph) = {} /\ Edges(EmptyGraph) = {}
  <1>1. ToSet(<<>>) = {} /\ IsInjective(<<>>) /\ <<>> \in Seq(Pair)
    BY DEF ToSet, IsInjective
  <1>2. <<>> \in [{} -> Type \cup {Default}] /\ <<>> \in [{} -> Labels] /\ DOMAIN <<>> = {}
    OBVIOUS
  <1>3. IsFiniteSet({})
    BY FS_EmptySet
  <1>. QED  BY <1>1, <1>2, <1>3 DEF GraphInv, EmptyGraph, Nodes, Edges, Type

LEMMA EdgesArePairs ==
    ASSUME NEW h, GraphInv(h), NEW e \in Edges(h)
    PROVE  e \in Pair /\ e = <<e[1], e[2]>> /\ e[1] \in Nat /\ e[2] \in Nat /\ Canonical(e[1], e[2]) = e
  <1>1. e \in Pair
    BY Elements DEF GraphInv, Edges
  <1>2. e = <<e[1], e[2]>> /\ e[1] \in Nat /\ e[2] \in Nat
    BY <1>1 DEF Pair
  <1>3. e[1] <= e[2]
    BY DEF GraphInv
  <1>. QED  BY <1>1, <1>2, <1>3 DEF Canonical

LEMMA CanonicalPair ==
    ASSUME NEW v \in Nat, NEW w \in Nat
    PROVE  /\ Canonical(v, w) \in Pair
           /\ Canonical(v, w)[1] <= Canonical(v, w)[2]
           /\ {Canonical(v, w)[1], Canonical(v, w)[2]} = {v, w}
           /\ Canonical(v, w) = Canonical(w, v)
           /\ Canonical(Canonical(v, w)[1], Canonical(v, w)[2]) = Canonical(v, w)
  BY DEF Canonical, Pair

LEMMA TypeOfNode ==
    ASSUME NEW h, GraphInv(h), NEW n \in Nodes(h)
    PROVE  TypeOf(h, n) \in Type
  BY DEF GraphInv, TypeOf, Nodes

LEMMA LabelOfEdge ==
    ASSUME NEW h, GraphInv(h), NEW v, NEW w, HasEdge(h, v, w)
    PROVE  LabelOf(h, <<v, w>>) \in Labels
  BY DEF GraphInv, LabelOf, HasEdge

-----------------------------------------------------------------------------
(* graphlib.                                                               *)
LEMMA SetNodeInv ==
    ASSUME NEW h, GraphInv(h), NEW n \in Nat, NEW type \in Type
    PROVE  /\ GraphInv(SetNode(h, n, type))
           /\ Nodes(SetNode(h, n, type)) = Nodes(h) \cup {n}
           /\ SetNode(h, n, type).edges = h.edges /\ SetNode(h, n, type).label = h.label
  <1>. DEFINE t == Put(h.type, n, type)
              r == [type |-> t, default |-> h.default, edges |-> h.edges, label |-> h.label]
  <1>1. SetNode(h, n, type) = r
    BY ChangedGraph DEF SetNode
  <1>2. t \in [Nodes(h) \cup {n} -> Type \cup {Default}]
    BY DEF Put, GraphInv, Nodes
  <1>. HIDE DEF t
  <1>3. Nodes(r) = Nodes(h) \cup {n} /\ Edges(r) = Edges(h)
    BY <1>2 DEF Nodes, Edges
  <1>4. GraphInv(r)
    <2>1. IsFiniteSet(Nodes(h) \cup {n})
      BY FS_AddElement DEF GraphInv
    <2>. QED  BY <1>2, <1>3, <2>1 DEF GraphInv
  <1>. QED  BY <1>1, <1>3, <1>4

LEMMA SetEdgeInv ==
    ASSUME NEW h, GraphInv(h), NEW v \in Nat, NEW w \in Nat, NEW label \in Labels
    PROVE  /\ GraphInv(SetEdge(h, v, w, label))
           /\ Nodes(SetEdge(h, v, w, label)) = Nodes(h) \cup {v, w}
           /\ Edges(SetEdge(h, v, w, label)) = Edges(h) \cup {Canonical(v, w)}
  <1>. DEFINE e == Canonical(v, w)
              t == WithEnds(h.type, v, w)
              q == IF HasEdge(h, v, w) THEN h.edges ELSE Append(h.edges, e)
              l == Put(h.label, e, label)
              r == [type |-> t, default |-> h.default, edges |-> q, label |-> l]
  <1>1. SetEdge(h, v, w, label) = r
    <2>1. SetEdge(h, v, w, label) = [h EXCEPT !.type = t, !.edges = q, !.label = l]
      BY DEF SetEdge
    <2>. HIDE DEF t, q, l
    <2>. QED  BY <2>1, ChangedGraph
  <1>2. t \in [Nodes(h) \cup {v, w} -> Type \cup {Default}]
    BY DEF WithEnds, GraphInv, Nodes
  <1>3. q \in Seq(Pair) /\ IsInjective(q) /\ ToSet(q) = Edges(h) \cup {e}
    <2>1. e \in Pair /\ h.edges \in Seq(Pair) /\ IsInjective(h.edges)
      BY CanonicalPair DEF GraphInv
    <2>2. CASE HasEdge(h, v, w)
      BY <2>1, <2>2 DEF HasEdge, Edges
    <2>3. CASE ~HasEdge(h, v, w)
      <3>. HIDE DEF e
      <3>1. e \notin ToSet(h.edges)
        BY <2>3 DEF HasEdge, Edges, e
      <3>. QED  BY <2>1, <2>3, <3>1, AppendElements DEF Edges
    <2>. QED  BY <2>2, <2>3
  <1>4. l \in [Edges(h) \cup {e} -> Labels]
    BY DEF Put, GraphInv
  <1>5. e[1] <= e[2] /\ e[1] \in {v, w} /\ e[2] \in {v, w}
    BY CanonicalPair
  <1>. HIDE DEF e, t, q, l
  <1>6. Nodes(r) = Nodes(h) \cup {v, w} /\ Edges(r) = Edges(h) \cup {e}
    BY <1>2, <1>3 DEF Nodes, Edges
  <1>7. GraphInv(r)
    <2>1. IsFiniteSet((Nodes(h) \cup {v}) \cup {w})
      BY FS_AddElement DEF GraphInv
    <2>2. IsFiniteSet(Nodes(h) \cup {v, w})
      BY <2>1, Zenon
    <2>. QED  BY <1>2, <1>3, <1>4, <1>5, <1>6, <2>2 DEF GraphInv
  <1>. QED  BY <1>1, <1>6, <1>7 DEF e

LEMMA RemoveNodeInv ==
    ASSUME NEW h, GraphInv(h), NEW n
    PROVE  /\ GraphInv(RemoveNode(h, n))
           /\ Nodes(RemoveNode(h, n)) = Nodes(h) \ {n}
           /\ Edges(RemoveNode(h, n)) = {e \in Edges(h) : n \notin {e[1], e[2]}}
           /\ Len(RemoveNode(h, n).edges) <= Len(h.edges)
  <1>. DEFINE kept == {e \in Edges(h) : n \notin {e[1], e[2]}}
              t == Restrict(h.type, Nodes(h) \ {n})
              q == Only(h.edges, kept)
              l == Restrict(h.label, kept)
              r == [type |-> t, default |-> h.default, edges |-> q, label |-> l]
  <1>1. RemoveNode(h, n) = r
    <2>1. RemoveNode(h, n) = [h EXCEPT !.type = t, !.edges = q, !.label = l]
      BY DEF RemoveNode, Nodes
    <2>. HIDE DEF t, q, l
    <2>. QED  BY <2>1, ChangedGraph
  <1>2. t \in [Nodes(h) \ {n} -> Type \cup {Default}]
    BY DEF GraphInv, Nodes, Restrict
  <1>3. /\ q \in Seq(Pair) /\ IsInjective(q) /\ Len(q) <= Len(h.edges)
        /\ ToSet(q) = Edges(h) \cap kept
    <2>1. h.edges \in Seq(Pair) /\ IsInjective(h.edges)
      BY DEF GraphInv
    <2>. HIDE DEF kept
    <2>. QED  BY <2>1, OnlyElements DEF Edges
  <1>4. l \in [kept -> Labels]
    BY DEF GraphInv, Restrict
  <1>5. Edges(h) \cap kept = kept
    OBVIOUS
  <1>. HIDE DEF t, q, l
  <1>6. Nodes(r) = Nodes(h) \ {n} /\ Edges(r) = kept
    BY <1>2, <1>3, <1>5 DEF Nodes, Edges
  <1>7. \A e \in kept : e \in Edges(h) /\ e[1] # n /\ e[2] # n
    OBVIOUS
  <1>. HIDE DEF kept
  <1>8. GraphInv(r)
    <2>1. IsFiniteSet(Nodes(h) \ {n})
      BY FS_RemoveElement DEF GraphInv
    <2>. QED  BY <1>2, <1>3, <1>4, <1>6, <1>7, <2>1 DEF GraphInv
  <1>. QED  BY <1>1, <1>3, <1>6, <1>8 DEF kept

LEMMA SetTypeInv ==
    ASSUME NEW h, GraphInv(h), NEW n \in Nodes(h), NEW type \in Type
    PROVE  /\ GraphInv(SetType(h, n, type))
           /\ Nodes(SetType(h, n, type)) = Nodes(h)
           /\ SetType(h, n, type).edges = h.edges
  <1>1. CASE h.type[n] = Default
    <2>. DEFINE r == [type |-> h.type, default |-> type, edges |-> h.edges, label |-> h.label]
    <2>1. SetType(h, n, type) = r
      BY <1>1 DEF SetType, GraphInv
    <2>2. GraphInv(r)
      BY DEF GraphInv, Nodes, Edges
    <2>. QED  BY <2>1, <2>2 DEF Nodes
  <1>2. CASE h.type[n] # Default
    <2>. DEFINE t == [h.type EXCEPT ![n] = type]
                r == [type |-> t, default |-> h.default, edges |-> h.edges, label |-> h.label]
    <2>1. SetType(h, n, type) = r
      BY <1>2 DEF SetType, GraphInv
    <2>2. t \in [Nodes(h) -> Type \cup {Default}]
      BY DEF GraphInv
    <2>. HIDE DEF t
    <2>3. Nodes(r) = Nodes(h) /\ Edges(r) = Edges(h)
      BY <2>2 DEF Nodes, Edges
    <2>4. GraphInv(r)
      BY <2>2, <2>3 DEF GraphInv
    <2>. QED  BY <2>1, <2>3, <2>4
  <1>. QED  BY <1>1, <1>2

LEMMA AddHopInv ==
    ASSUME NEW h, GraphInv(h), NEW current \in Nat, NEW previous \in Nat,
           NEW type \in Type, NEW path \in Pair
    PROVE  /\ GraphInv(AddHop(h, current, previous, type, path))
           /\ Nodes(AddHop(h, current, previous, type, path)) = Nodes(h) \cup {current, previous}
           /\ Edges(AddHop(h, current, previous, type, path))
                = Edges(h) \cup {Canonical(previous, current)}
           /\ NoOwnOption(h) => NoOwnOption(AddHop(h, current, previous, type, path))
           /\ path \in AddHop(h, current, previous, type, path).label[Canonical(previous, current)].path
           /\ \A d \in Edges(h) :
                 h.label[d].path \subseteq AddHop(h, current, previous, type, path).label[d].path
  <1>. DEFINE k == IF current \in Nodes(h) THEN h ELSE SetNode(h, current, type)
              old == LabelOf(h, <<previous, current>>)
              label == IF HasEdge(h, previous, current) THEN [old EXCEPT !.path = @ \cup {path}]
                       ELSE [path |-> {path}, options |-> <<>>]
  <1>1. AddHop(h, current, previous, type, path) = SetEdge(k, previous, current, label)
    BY DEF AddHop
  <1>2. /\ GraphInv(k) /\ Nodes(k) = Nodes(h) \cup {current} /\ Edges(k) = Edges(h)
        /\ k.label = h.label
    BY SetNodeInv DEF Edges
  <1>3. label \in Labels
    <2>1. CASE HasEdge(h, previous, current)
      <3>1. old \in Labels
        BY <2>1, LabelOfEdge
      <3>. HIDE DEF old
      <3>. QED  BY <2>1, <3>1 DEF Labels
    <2>2. CASE ~HasEdge(h, previous, current)
      BY <2>2 DEF Labels
    <2>. QED  BY <2>1, <2>2
  <1>. DEFINE e == Canonical(previous, current)
              m == SetEdge(k, previous, current, label)
  <1>4. ASSUME NoOwnOption(h)
        PROVE  \A o \in ToSet(label.options) : ~SameEdge(o, e)
    <2>1. CASE HasEdge(h, previous, current)
      <3>1. old = h.label[e] /\ old \in Labels /\ e \in Edges(h)
        BY <2>1, LabelOfEdge DEF LabelOf, HasEdge
      <3>2. label.options = h.label[e].options
        <4>. HIDE DEF old
        <4>. QED  BY <2>1, <3>1 DEF Labels
      <3>. QED  BY <1>4, <3>1, <3>2 DEF NoOwnOption
    <2>2. CASE ~HasEdge(h, previous, current)
      <3>1. label.options = <<>> /\ ToSet(<<>>) = {}
        BY <2>2 DEF ToSet
      <3>. QED  BY <3>1
    <2>. QED  BY <2>1, <2>2
  <1>5. path \in label.path /\ (e \in Edges(h) => h.label[e].path \subseteq label.path)
    <2>1. CASE HasEdge(h, previous, current)
      <3>1. old = h.label[e] /\ old \in Labels /\ e \in Edges(h)
        BY <2>1, LabelOfEdge DEF LabelOf, HasEdge
      <3>2. label.path = old.path \cup {path}
        <4>. HIDE DEF old
        <4>. QED  BY <2>1, <3>1 DEF Labels
      <3>. QED  BY <3>1, <3>2
    <2>2. CASE ~HasEdge(h, previous, current)
      BY <2>2 DEF HasEdge
    <2>. QED  BY <2>1, <2>2
  <1>6. m.label = Put(h.label, e, label)
    <2>. HIDE DEF k, label
    <2>1. k.label = h.label
      BY <1>2
    <2>2. DOMAIN k = {"type", "default", "edges", "label"}
      BY <1>2 DEF GraphInv
    <2>. QED  BY <2>1, <2>2 DEF SetEdge
  <1>. HIDE DEF k, label, m, e
  <1>7. /\ GraphInv(m) /\ Nodes(m) = Nodes(h) \cup {current, previous}
        /\ Edges(m) = Edges(h) \cup {e}
    BY <1>2, <1>3, SetEdgeInv DEF m, e
  <1>8. \A d \in Edges(m) : m.label[d] = IF d = e THEN label ELSE h.label[d]
    BY <1>6, <1>7 DEF Put, GraphInv
  <1>9. ASSUME NoOwnOption(h)
        PROVE  NoOwnOption(m)
    BY <1>4, <1>7, <1>9, <1>8 DEF NoOwnOption
  <1>10. path \in m.label[e].path /\ \A d \in Edges(h) : h.label[d].path \subseteq m.label[d].path
    BY <1>7, <1>5, <1>8
  <1>. QED  BY <1>1, <1>7, <1>9, <1>10 DEF m, e

-----------------------------------------------------------------------------
(* nodeContraction.                                                        *)
LEMMA MergedLabels ==
    ASSUME NEW l1 \in Labels, NEW l2 \in Labels
    PROVE  MergeLabels(l1, l2) \in Labels
  <1>1. /\ l1.path \subseteq Pair /\ l2.path \subseteq Pair
        /\ l1.options \in Seq(Pair) /\ l2.options \in Seq(Pair)
    BY DEF Labels
  <1>2. SharedOptions(l1, l2) \in Seq(Pair)
    BY <1>1, OnlyElements DEF SharedOptions
  <1>. QED  BY <1>1, <1>2 DEF MergeLabels, Labels

(* The ends of an edge of n2, and what is left of it when it moves to n1.  *)
Other(e, n2) == IF e[1] = n2 THEN e[2] ELSE e[1]
EdgesOf(h, n) == {e \in Edges(h) : n \in {e[1], e[2]}}

LEMMA NodeEdgesListed ==
    ASSUME NEW h, GraphInv(h), NEW n
    PROVE  NodeEdges(h, n) \in Seq(Edges(h)) /\ ToSet(NodeEdges(h, n)) = EdgesOf(h, n)
  <1>. DEFINE S == {e \in Edges(h) : e[2] = n}
              T == {e \in Edges(h) : e[1] = n}
              a == Only(h.edges, S)
              b == Only(h.edges, T)
  <1>1. h.edges \in Seq(Edges(h)) /\ ToSet(h.edges) = Edges(h)
    <2>1. h.edges \in Seq(Pair)
      BY DEF GraphInv
    <2>2. \A i \in 1..Len(h.edges) : h.edges[i] \in Edges(h)
      BY <2>1 DEF Edges, ToSet
    <2>. QED  BY <2>1, <2>2 DEF Edges
  <1>2. /\ a \in Seq(Edges(h)) /\ ToSet(a) = S
        /\ b \in Seq(Edges(h)) /\ ToSet(b) = T
    <2>1. Edges(h) \cap S = S /\ Edges(h) \cap T = T
      OBVIOUS
    <2>2. \A U : /\ Only(h.edges, U) \in Seq(Edges(h))
                 /\ ToSet(Only(h.edges, U)) = ToSet(h.edges) \cap U
      BY <1>1, OnlyElements
    <2>. HIDE DEF S, T
    <2>. QED  BY <1>1, <2>1, <2>2
  <1>3. NodeEdges(h, n) = a \o b
    BY DEF NodeEdges
  <1>4. S \cup T = EdgesOf(h, n)
    BY DEF EdgesOf
  <1>. HIDE DEF S, T, a, b
  <1>. DEFINE c == a \o b
  <1>5. /\ c \in Seq(Edges(h)) /\ Len(c) = Len(a) + Len(b)
        /\ \A i \in 1..(Len(a) + Len(b)) : c[i] = IF i <= Len(a) THEN a[i] ELSE b[i - Len(a)]
    BY <1>2, ConcatProperties
  <1>6. Len(a) \in Nat /\ Len(b) \in Nat
    BY <1>2
  <1>. HIDE DEF c
  <1>7. ToSet(c) = S \cup T
    <2>1. ToSet(c) = {c[i] : i \in 1..(Len(a) + Len(b))}
      BY <1>5, Elements
    <2>2. ToSet(a) = {a[i] : i \in 1..Len(a)} /\ ToSet(b) = {b[i] : i \in 1..Len(b)}
      BY <1>2, Elements
    <2>3. ASSUME NEW i \in 1..(Len(a) + Len(b))
          PROVE  c[i] \in S \cup T
      <3>1. CASE i <= Len(a)
        BY <1>2, <1>5, <1>6, <2>2, <3>1, i \in 1..Len(a)
      <3>2. CASE ~(i <= Len(a))
        BY <1>2, <1>5, <1>6, <2>2, <3>2, i - Len(a) \in 1..Len(b)
      <3>. QED  BY <3>1, <3>2
    <2>4. ASSUME NEW i \in 1..Len(a)
          PROVE  \E j \in 1..(Len(a) + Len(b)) : c[j] = a[i]
      <3>1. i \in 1..(Len(a) + Len(b)) /\ i <= Len(a)
        BY <1>6
      <3>. QED  BY <1>5, <3>1
    <2>5. ASSUME NEW i \in 1..Len(b)
          PROVE  \E j \in 1..(Len(a) + Len(b)) : c[j] = b[i]
      <3>1. Len(a) + i \in 1..(Len(a) + Len(b)) /\ ~(Len(a) + i <= Len(a)) /\ (Len(a) + i) - Len(a) = i
        BY <1>6
      <3>2. c[Len(a) + i] = b[i]
        BY <1>5, <3>1
      <3>. QED  BY <3>1, <3>2
    <2>6. ToSet(c) \subseteq S \cup T
      BY <2>1, <2>3
    <2>7. S \subseteq ToSet(c)
      BY <1>2, <2>1, <2>2, <2>4
    <2>8. T \subseteq ToSet(c)
      BY <1>2, <2>1, <2>2, <2>5
    <2>. QED  BY <2>6, <2>7, <2>8
  <1>. QED  BY <1>3, <1>4, <1>5, <1>7 DEF c

LEMMA ReattachedInv ==
    ASSUME NEW h, GraphInv(h), NEW e \in Edges(h), NEW n1 \in Nat, NEW n2
    PROVE  /\ GraphInv(Reattached(h, e, n1, n2))
           /\ Nodes(Reattached(h, e, n1, n2)) = Nodes(h) \cup {n1}
           /\ Edges(Reattached(h, e, n1, n2)) = Edges(h) \cup {Canonical(Other(e, n2), n1)}
  <1>. DEFINE other == Other(e, n2)
              label == IF HasEdge(h, other, n1)
                       THEN MergeLabels(LabelOf(h, <<other, n1>>), h.label[e])
                       ELSE h.label[e]
  <1>1. Reattached(h, e, n1, n2) = SetEdge(h, other, n1, label)
    BY DEF Reattached, Other
  <1>2. other \in Nat /\ other \in Nodes(h)
    BY EdgesArePairs DEF Other, GraphInv
  <1>3. label \in Labels
    <2>1. h.label[e] \in Labels
      BY DEF GraphInv
    <2>. QED  BY <2>1, LabelOfEdge, MergedLabels
  <1>. HIDE DEF other, label
  <1>4. Nodes(h) \cup {other, n1} = Nodes(h) \cup {n1}
    BY <1>2
  <1>. QED  BY <1>1, <1>2, <1>3, <1>4, SetEdgeInv DEF other

(* The well-formed graphs are a set, which is what a fold is said to stay  *)
(* in.                                                                     *)
GraphSet ==
    {h \in [type    : UNION {[D -> Type \cup {Default}] : D \in SUBSET Nat},
            default : Type,
            edges   : Seq(Pair),
            label   : UNION {[D -> Labels] : D \in SUBSET Pair}] : GraphInv(h)}

LEMMA GraphSetIsGraphs == \A h : h \in GraphSet <=> GraphInv(h)
  <1>. SUFFICES ASSUME NEW h, GraphInv(h)
                PROVE  h \in GraphSet
    BY DEF GraphSet
  <1>1. PICK a, b, c, d : h = [type |-> a, default |-> b, edges |-> c, label |-> d]
    BY DEF GraphInv
  <1>2. a = h.type /\ b = h.default /\ c = h.edges /\ d = h.label
    BY ONLY <1>1
  <1>3. a \in UNION {[D -> Type \cup {Default}] : D \in SUBSET Nat}
    <2>1. Nodes(h) \in SUBSET Nat /\ a \in [Nodes(h) -> Type \cup {Default}]
      BY <1>2 DEF GraphInv
    <2>. QED  BY <2>1
  <1>4. d \in UNION {[D -> Labels] : D \in SUBSET Pair}
    <2>1. Edges(h) \in SUBSET Pair /\ d \in [Edges(h) -> Labels]
      BY <1>2, Elements DEF GraphInv, Edges
    <2>. QED  BY <2>1
  <1>5. b \in Type /\ c \in Seq(Pair)
    BY <1>2 DEF GraphInv
  <1>. QED  BY <1>1, <1>3, <1>4, <1>5 DEF GraphSet

MoveStep(ends, h, e) == Reattached(h, e, ends[1], ends[2])

Moving == INSTANCE FoldTheorems WITH Op <- MoveStep

Moved(h, n1, n2) ==
    LET Move(k, e) == Reattached(k, e, n1, n2) IN FoldLeft(Move, h, NodeEdges(h, n2))

LEMMA MovedIsFold ==
    ASSUME NEW h, NEW n1, NEW n2
    PROVE  Moved(h, n1, n2) = Moving!Fold(<<n1, n2>>, h, NodeEdges(h, n2))
  BY Zenon DEF Moved, MoveStep, FoldLeft, MapThenFoldSet, Max,
               Moving!Fold, Moving!FoldLeft, Moving!MapThenFoldSet, Moving!Max

(* The edges of n2 that have moved are edges of n1; none is taken away yet.*)
LEMMA MovedInv ==
    ASSUME NEW h, GraphInv(h), NEW n1 \in Nat, NEW n2
    PROVE  /\ GraphInv(Moved(h, n1, n2))
           /\ Nodes(Moved(h, n1, n2)) = Nodes(h) \cup {n \in {n1} : EdgesOf(h, n2) # {}}
           /\ Edges(Moved(h, n1, n2))
                = Edges(h) \cup {Canonical(Other(e, n2), n1) : e \in EdgesOf(h, n2)}
  <1>. DEFINE seq == NodeEdges(h, n2)
              New(i) == {Canonical(Other(seq[j], n2), n1) : j \in 1..i}
              I == [i \in Nat |->
                      {k \in GraphSet : /\ Nodes(k) = Nodes(h) \cup {n \in {n1} : i # 0}
                                        /\ Edges(k) = Edges(h) \cup New(i)}]
  <1>1. /\ seq \in Seq(Edges(h)) /\ Len(seq) \in Nat
        /\ EdgesOf(h, n2) = {seq[j] : j \in 1..Len(seq)}
    BY NodeEdgesListed, Elements
  <1>. HIDE DEF seq
  <1>2. h \in I[0]
    <2>1. New(0) = {} /\ h \in GraphSet
      BY GraphSetIsGraphs
    <2>. HIDE DEF New
    <2>. QED  BY <2>1
  <1>3. ASSUME NEW i \in 1..Len(seq), NEW k \in I[i-1]
        PROVE  MoveStep(<<n1, n2>>, k, seq[i]) \in I[i]
    <2>. DEFINE m == Reattached(k, seq[i], n1, n2)
    <2>1. i \in Nat /\ i - 1 \in Nat /\ i # 0 /\ seq[i] \in Edges(h)
      BY <1>1
    <2>2. /\ GraphInv(k)
          /\ Nodes(k) = Nodes(h) \cup {n \in {n1} : i - 1 # 0}
          /\ Edges(k) = Edges(h) \cup New(i - 1)
      BY <2>1, GraphSetIsGraphs
    <2>3. New(i) = New(i - 1) \cup {Canonical(Other(seq[i], n2), n1)}
      <3>1. \A j : j \in 1..i <=> j \in 1..(i - 1) \/ j = i
        BY <2>1
      <3>. QED  BY <3>1
    <2>. HIDE DEF New
    <2>4. /\ GraphInv(m)
          /\ Nodes(m) = Nodes(k) \cup {n1}
          /\ Edges(m) = Edges(k) \cup {Canonical(Other(seq[i], n2), n1)}
      <3>1. seq[i] \in Edges(k)
        BY <2>1, <2>2
      <3>. QED  BY <2>2, <3>1, ReattachedInv
    <2>. HIDE DEF m
    <2>5. m \in GraphSet
      BY <2>4, GraphSetIsGraphs
    <2>6. m \in I[i]
      BY <2>1, <2>2, <2>3, <2>4, <2>5
    <2>7. MoveStep(<<n1, n2>>, k, seq[i]) = m
      BY DEF MoveStep, m
    <2>. QED  BY <2>6, <2>7
  <1>4. Moving!Fold(<<n1, n2>>, h, seq) \in I[Len(seq)]
    <2>. HIDE DEF I
    <2>. QED  BY <1>1, <1>2, <1>3, Moving!FoldKeeps
  <1>5. New(Len(seq)) = {Canonical(Other(e, n2), n1) : e \in EdgesOf(h, n2)}
    BY <1>1
  <1>6. Len(seq) # 0 <=> EdgesOf(h, n2) # {}
    BY <1>1
  <1>. HIDE DEF New
  <1>7. /\ Moving!Fold(<<n1, n2>>, h, seq) \in GraphSet
        /\ Nodes(Moving!Fold(<<n1, n2>>, h, seq)) = Nodes(h) \cup {n \in {n1} : Len(seq) # 0}
        /\ Edges(Moving!Fold(<<n1, n2>>, h, seq)) = Edges(h) \cup New(Len(seq))
    BY <1>1, <1>4
  <1>8. Moved(h, n1, n2) = Moving!Fold(<<n1, n2>>, h, seq)
    BY MovedIsFold DEF seq
  <1>. QED  BY <1>5, <1>6, <1>7, <1>8, GraphSetIsGraphs

(* A contraction takes a node away and leaves a well-formed graph, if the  *)
(* node that takes its edges exists or gets one of them.                   *)
LEMMA NodeContractionInv ==
    ASSUME NEW h, GraphInv(h), NEW n1 \in Nat, NEW n2, NEW type \in Type,
           n1 \in Nodes(h) \/ EdgesOf(h, n2) # {}
    PROVE  /\ GraphInv(NodeContraction(h, n1, n2, type))
           /\ Nodes(NodeContraction(h, n1, n2, type)) = (Nodes(h) \cup {n1}) \ {n2}
           /\ Edges(NodeContraction(h, n1, n2, type))
                = {e \in Edges(h) \cup {Canonical(Other(f, n2), n1) : f \in EdgesOf(h, n2)} :
                      n2 \notin {e[1], e[2]}}
  <1>. DEFINE m == Moved(h, n1, n2)
              s == SetType(m, n1, type)
  <1>1. NodeContraction(h, n1, n2, type) = RemoveNode(s, n2)
    BY Zenon DEF NodeContraction, Moved
  <1>2. /\ GraphInv(m) /\ n1 \in Nodes(m) /\ Nodes(m) = Nodes(h) \cup {n1}
        /\ Edges(m) = Edges(h) \cup {Canonical(Other(e, n2), n1) : e \in EdgesOf(h, n2)}
    BY MovedInv
  <1>. HIDE DEF m
  <1>3. GraphInv(s) /\ Nodes(s) = Nodes(m) /\ Edges(s) = Edges(m)
    BY <1>2, SetTypeInv DEF Edges
  <1>. HIDE DEF s
  <1>. QED  BY <1>1, <1>2, <1>3, RemoveNodeInv

-----------------------------------------------------------------------------
(* merge.                                                                  *)
LEMMA EdgeEnds ==
    ASSUME NEW h, GraphInv(h), NEW v \in Nat, NEW w \in Nat, HasEdge(h, v, w)
    PROVE  v \in Nodes(h) /\ w \in Nodes(h)
  <1>. DEFINE e == Canonical(v, w)
  <1>1. e[1] \in Nodes(h) /\ e[2] \in Nodes(h)
    BY DEF GraphInv, HasEdge
  <1>2. {e[1], e[2]} = {v, w}
    BY CanonicalPair
  <1>. HIDE DEF e
  <1>. QED  BY <1>1, <1>2

LEMMA MaxTypeIsType == \A x, y \in Type : MaxType(x, y) \in Type
  BY DEF MaxType

(* The first contraction leaves ej's other end the edge that moved, unless *)
(* that end was contracted too.                                            *)
LEMMA ContractedStartInv ==
    ASSUME NEW h, GraphInv(h), NEW ei \in Edges(h), NEW ej \in Pair, HasEdge(h, ej[1], ej[2])
    PROVE  /\ GraphInv(ContractedStart(h, ei, ej))
           /\ ei[1] = ej[1] => ContractedStart(h, ei, ej) = h
           /\ ei[1] # ej[1] => Nodes(ContractedStart(h, ei, ej)) = Nodes(h) \ {ej[1]}
           /\ ei[1] # ej[1] /\ ej[2] # ej[1] => EdgesOf(ContractedStart(h, ei, ej), ej[2]) # {}
  <1>1. ei[1] \in Nat /\ ej[1] \in Nat /\ ej[2] \in Nat
    BY EdgesArePairs DEF Pair
  <1>2. ei[1] \in Nodes(h) /\ ej[1] \in Nodes(h)
    BY <1>1, EdgeEnds DEF GraphInv
  <1>3. CASE ei[1] = ej[1]
    BY <1>3 DEF ContractedStart
  <1>4. CASE ei[1] # ej[1]
    <2>. DEFINE type == MaxType(TypeOf(h, ei[1]), TypeOf(h, ej[1]))
                c == NodeContraction(h, ei[1], ej[1], type)
                e == Canonical(ej[1], ej[2])
    <2>1. ContractedStart(h, ei, ej) = c
      BY <1>4 DEF ContractedStart
    <2>2. type \in Type
      BY <1>2, TypeOfNode, MaxTypeIsType
    <2>. HIDE DEF type
    <2>3. /\ GraphInv(c)
          /\ Nodes(c) = (Nodes(h) \cup {ei[1]}) \ {ej[1]}
          /\ Edges(c) = {d \in Edges(h) \cup {Canonical(Other(f, ej[1]), ei[1]) : f \in EdgesOf(h, ej[1])} :
                            ej[1] \notin {d[1], d[2]}}
      BY <1>1, <1>2, <2>2, NodeContractionInv
    <2>. HIDE DEF c
    <2>4. ASSUME ej[2] # ej[1]
          PROVE  EdgesOf(c, ej[2]) # {}
      <3>1. e \in EdgesOf(h, ej[1]) /\ Other(e, ej[1]) = ej[2]
        BY <1>1, <2>4 DEF EdgesOf, Other, Canonical, HasEdge
      <3>. DEFINE d == Canonical(ej[2], ei[1])
      <3>2. {d[1], d[2]} = {ej[2], ei[1]}
        BY <1>1, CanonicalPair
      <3>. HIDE DEF d, e
      <3>3. d \in {Canonical(Other(f, ej[1]), ei[1]) : f \in EdgesOf(h, ej[1])}
        BY <3>1 DEF d
      <3>4. d \in Edges(c)
        BY <1>4, <2>3, <2>4, <3>2, <3>3
      <3>. QED  BY <3>2, <3>4 DEF EdgesOf
    <2>5. Nodes(c) = Nodes(h) \ {ej[1]}
      BY <1>2, <2>3
    <2>. QED  BY <1>4, <2>1, <2>3, <2>4, <2>5
  <1>. QED  BY <1>3, <1>4

(* Two different edges become one, and a node less is left at least.       *)
LEMMA ContractedInv ==
    ASSUME NEW h, GraphInv(h), NEW ei \in Edges(h), NEW ej \in Pair, HasEdge(h, ej[1], ej[2]),
           ~MergeThrows(h, ei, ej)
    PROVE  /\ GraphInv(Contracted(h, ei, ej))
           /\ Nodes(Contracted(h, ei, ej)) \subseteq Nodes(h)
           /\ ei # ej => Nodes(Contracted(h, ei, ej)) # Nodes(h)
  <1>. DEFINE c == ContractedStart(h, ei, ej)
              end == MaxType(TypeOf(h, ei[2]), TypeOf(h, ej[2]))
  <1>1. /\ GraphInv(c)
        /\ ei[1] = ej[1] => c = h
        /\ ei[1] # ej[1] => Nodes(c) = Nodes(h) \ {ej[1]}
    BY ContractedStartInv
  <1>2. CASE ei[2] = ej[2]
    <2>1. Contracted(h, ei, ej) = c
      BY <1>2 DEF Contracted
    <2>2. ei # ej => ei[1] # ej[1]
      BY <1>2, EdgesArePairs DEF Pair
    <2>3. ej[1] \in Nodes(h)
      BY EdgeEnds DEF Pair
    <2>. HIDE DEF c
    <2>. QED  BY <1>1, <2>1, <2>2, <2>3
  <1>3. CASE ei[2] # ej[2]
    <2>1. ei[2] \in Nat /\ ei[2] \in Nodes(h) /\ ej[1] \in Nat /\ ej[2] \in Nat /\ ej[2] \in Nodes(h)
      BY EdgesArePairs, EdgeEnds DEF GraphInv, Pair
    <2>2. end \in Type
      BY <2>1, TypeOfNode, MaxTypeIsType
    <2>3. ei[2] \in Nodes(c) \/ EdgesOf(c, ej[2]) # {}
      <3>1. CASE ei[1] = ej[1]
        BY <2>1, <3>1 DEF ContractedStart
      <3>2. CASE ei[1] # ej[1]
        BY <1>3, <3>2, ContractedStartInv DEF MergeThrows
      <3>. QED  BY <3>1, <3>2
    <2>4. Contracted(h, ei, ej) = NodeContraction(c, ei[2], ej[2], end)
      BY <1>3 DEF Contracted
    <2>. DEFINE d == NodeContraction(c, ei[2], ej[2], end)
    <2>. HIDE DEF c, end
    <2>5. GraphInv(d) /\ Nodes(d) = (Nodes(c) \cup {ei[2]}) \ {ej[2]}
      BY <1>1, <2>1, <2>2, <2>3, NodeContractionInv
    <2>. HIDE DEF d
    <2>6. Nodes(c) \subseteq Nodes(h)
      BY <1>1
    <2>. QED  BY <2>1, <2>4, <2>5, <2>6 DEF d
  <1>. QED  BY <1>2, <1>3

(* The options of an edge stay a list of pairs of nodes.                   *)
LEMMA RemovedElement ==
    ASSUME NEW T, NEW s \in Seq(T), NEW k \in 1..Len(s)
    PROVE  RemoveAt(s, k) \in Seq(T)
  BY DEF RemoveAt

LEMMA LastOptionIndex ==
    ASSUME NEW s \in Seq(Pair), NEW e
    PROVE  LastOption(s, e) \in 0..Len(s)
  <1>. DEFINE I == {i \in 1..Len(s) : SameEdge(s[i], e)}
  <1>1. LastOption(s, e) = IF I # {} THEN Max(I) ELSE 0
    BY DEF LastOption, SelectLastInSeq
  <1>2. I \in SUBSET (0..Len(s)) /\ Len(s) \in Nat
    OBVIOUS
  <1>3. I # {} => Max(I) \in I
    <2>1. ASSUME I # {} PROVE Max(I) \in I
      <3>1. Filter!Max(I) \in I
        <4>. HIDE DEF I
        <4>. QED  BY <1>2, <2>1, Filter!MaxIn
      <3>. QED  BY <3>1 DEF Max, Filter!Max
    <2>. QED  BY <2>1
  <1>. HIDE DEF I
  <1>4. 0 \in 0..Len(s)
    BY <1>2
  <1>5. I # {} => Max(I) \in 0..Len(s)
    BY ONLY <1>2, <1>3, Zenon
  <1>. QED  BY ONLY <1>1, <1>4, <1>5, Zenon

LEMMA WithoutMergedOptions ==
    ASSUME NEW s \in Seq(Pair), NEW ei, NEW ej
    PROVE  WithoutMerged(s, ei, ej) \in Seq(Pair)
  <1>1. LastOption(s, ei) \in 0..Len(s) /\ LastOption(s, ej) \in 0..Len(s) /\ Len(s) \in Nat
    BY LastOptionIndex
  <1>2. \A k \in 0..Len(s) : k # 0 => k \in 1..Len(s)
    BY <1>1
  <1>. QED  BY <1>1, <1>2, RemovedElement DEF WithoutMerged

RenameStep(edges, s, o) ==
    LET r == Renamed(o, edges[2], edges[3])
    IN IF r \in ToSet(s) \/ SameEdge(r, edges[1]) THEN s ELSE Append(s, r)

Renaming == INSTANCE FoldTheorems WITH Op <- RenameStep

LEMMA RenamedOptionsIsFold ==
    ASSUME NEW s, NEW e, NEW ei, NEW ej
    PROVE  RenamedOptions(s, e, ei, ej) = Renaming!Fold(<<e, ei, ej>>, <<>>, s)
  BY DEF RenamedOptions, RenameStep, FoldLeft, MapThenFoldSet, Max,
               Renaming!Fold, Renaming!FoldLeft, Renaming!MapThenFoldSet, Renaming!Max

LEMMA RenamedOptionsOK ==
    ASSUME NEW s \in Seq(Pair), NEW e, NEW ei \in Pair, NEW ej \in Pair
    PROVE  /\ RenamedOptions(s, e, ei, ej) \in Seq(Pair)
           /\ \A o \in ToSet(RenamedOptions(s, e, ei, ej)) : ~SameEdge(o, e)
  <1>. DEFINE T == {t \in Seq(Pair) : \A o \in ToSet(t) : ~SameEdge(o, e)}
  <1>1. \A o \in Pair : Renamed(o, ei, ej) \in Pair
    BY DEF Renamed, Pair
  <1>2. ASSUME NEW t \in T, NEW o \in Pair
        PROVE  RenameStep(<<e, ei, ej>>, t, o) \in T
    <2>. DEFINE q == Renamed(o, ei, ej)
    <2>1. q \in Pair /\ t \in Seq(Pair) /\ \A p \in ToSet(t) : ~SameEdge(p, e)
      BY <1>1
    <2>2. RenameStep(<<e, ei, ej>>, t, o)
            = IF q \in ToSet(t) \/ SameEdge(q, e) THEN t ELSE Append(t, q)
      BY DEF RenameStep
    <2>. HIDE DEF q
    <2>3. Append(t, q) \in Seq(Pair) /\ ToSet(Append(t, q)) = ToSet(t) \cup {q}
      BY <2>1, AppendElements
    <2>. QED  BY <2>1, <2>2, <2>3
  <1>3. <<>> \in T
    BY DEF ToSet
  <1>4. Renaming!Fold(<<e, ei, ej>>, <<>>, s) \in T
    <2>. HIDE DEF T
    <2>. QED  BY <1>2, <1>3, Renaming!FoldStaysIn
  <1>. QED  BY <1>4, RenamedOptionsIsFold

(* A merge that does not throw leaves a well-formed graph, in which no     *)
(* edge is an option of its own, with some of the nodes and no new ones;   *)
(* the merge of two edges leaves out one at least (merge, itop.js lines    *)
(* 199-278).                                                               *)
THEOREM MergedInv ==
    ASSUME NEW h, GraphInv(h), NEW ei \in Edges(h), NEW ej \in Pair, HasEdge(h, ej[1], ej[2]),
           ~MergeThrows(h, ei, ej)
    PROVE  /\ GraphInv(Merged(h, ei, ej)) /\ NoOwnOption(Merged(h, ei, ej))
           /\ Nodes(Merged(h, ei, ej)) \subseteq Nodes(h)
           /\ ei # ej => Nodes(Merged(h, ei, ej)) # Nodes(h)
  <1>. DEFINE c == Contracted(h, ei, ej)
              Kept(e) == RenamedOptions(WithoutMerged(c.label[e].options, ei, ej), e, ei, ej)
              l == [e \in DOMAIN c.label |-> [c.label[e] EXCEPT !.options = Kept(e)]]
              r == [type |-> c.type, default |-> c.default, edges |-> c.edges, label |-> l]
  <1>1. /\ GraphInv(c) /\ Nodes(c) \subseteq Nodes(h)
        /\ ei # ej => Nodes(c) # Nodes(h)
    BY ContractedInv
  <1>2. ei \in Pair
    BY EdgesArePairs
  <1>3. /\ l \in [Edges(c) -> Labels]
        /\ \A e \in Edges(c) : \A o \in ToSet(l[e].options) : ~SameEdge(o, e)
    <2>. HIDE DEF c
    <2>1. DOMAIN c.label = Edges(c) /\ \A e \in Edges(c) : c.label[e] \in Labels
      BY <1>1 DEF GraphInv
    <2>2. ASSUME NEW e \in Edges(c)
          PROVE  /\ [c.label[e] EXCEPT !.options = Kept(e)] \in Labels
                 /\ [c.label[e] EXCEPT !.options = Kept(e)].options = Kept(e)
                 /\ \A o \in ToSet(Kept(e)) : ~SameEdge(o, e)
      <3>1. c.label[e] \in Labels /\ c.label[e].options \in Seq(Pair)
        BY <2>1 DEF Labels
      <3>2. Kept(e) \in Seq(Pair) /\ \A o \in ToSet(Kept(e)) : ~SameEdge(o, e)
        BY <1>2, <3>1, WithoutMergedOptions, RenamedOptionsOK
      <3>. HIDE DEF Kept
      <3>. QED  BY <3>1, <3>2 DEF Labels
    <2>. HIDE DEF Kept
    <2>. QED  BY <2>1, <2>2
  <1>4. Merged(h, ei, ej) = r
    <2>1. Merged(h, ei, ej) = [c EXCEPT !.label = l]
      BY DEF Merged
    <2>. HIDE DEF c, l
    <2>. QED  BY <1>1, <2>1, ChangedGraph
  <1>. HIDE DEF c, l
  <1>5. Nodes(r) = Nodes(c) /\ Edges(r) = Edges(c)
    BY DEF Nodes, Edges
  <1>6. GraphInv(r) /\ NoOwnOption(r)
    BY <1>1, <1>3, <1>5 DEF GraphInv, NoOwnOption
  <1>. QED  BY <1>1, <1>4, <1>5, <1>6

-----------------------------------------------------------------------------
(* The choice of an edge.                                                  *)
FewerStep(h, least, e) ==
    IF Len(Options(h, e)) < Len(Options(h, least)) THEN e ELSE least

Choosing == INSTANCE FoldTheorems WITH Op <- FewerStep

LEMMA LeastIsFold ==
    ASSUME NEW h, NEW range, Candidates(h, range) # <<>>
    PROVE  EdgeWithLessMergeOptions(h, range)
             = Choosing!Fold(h, Candidates(h, range)[1], Candidates(h, range))
  BY DEF EdgeWithLessMergeOptions, FewerStep, FoldLeft, MapThenFoldSet, Max,
         Choosing!Fold, Choosing!FoldLeft, Choosing!MapThenFoldSet, Choosing!Max

LEMMA CandidatesListed ==
    ASSUME NEW h, NEW range \in Seq(Pair)
    PROVE  /\ Candidates(h, range) \in Seq(Pair)
           /\ ToSet(Candidates(h, range))
                = {e \in ToSet(range) : HasEdge(h, e[1], e[2]) /\ Options(h, e) # <<>>}
  <1>. DEFINE S == {e \in ToSet(range) : HasEdge(h, e[1], e[2]) /\ Options(h, e) # <<>>}
  <1>1. ToSet(range) \cap S = S /\ Candidates(h, range) = Only(range, S)
    BY DEF Candidates
  <1>. HIDE DEF S
  <1>2. Candidates(h, range) \in Seq(Pair) /\ ToSet(Candidates(h, range)) = S
    BY <1>1, OnlyElements
  <1>. QED  BY <1>2 DEF S

(* findEdgeWithLessMergeOptions returns an edge of the list that is in the *)
(* graph and has options, and no edge of the list that has some has fewer; *)
(* nothing when there is no such edge (lines 303-312).                     *)
THEOREM LeastOptionsPicked ==
    ASSUME NEW h, GraphInv(h), NEW range \in Seq(Pair),
           NEW least, least = EdgeWithLessMergeOptions(h, range)
    PROVE  /\ Candidates(h, range) = <<>> => least = <<>>
           /\ Candidates(h, range) # <<>> =>
                /\ least \in ToSet(range) /\ HasEdge(h, least[1], least[2])
                /\ Options(h, least) # <<>>
                /\ \A e \in ToSet(range) :
                      HasEdge(h, e[1], e[2]) /\ Options(h, e) # <<>> =>
                         Len(Options(h, least)) <= Len(Options(h, e))
  <1>. DEFINE some == Candidates(h, range)
              L(e) == Len(Options(h, e))
  <1>1. /\ some \in Seq(Pair) /\ ToSet(some) = {some[i] : i \in 1..Len(some)} /\ Len(some) \in Nat
        /\ ToSet(some) = {e \in ToSet(range) : HasEdge(h, e[1], e[2]) /\ Options(h, e) # <<>>}
    BY CandidatesListed, Elements
  <1>2. CASE some = <<>>
    BY <1>2 DEF EdgeWithLessMergeOptions
  <1>3. CASE some # <<>>
    <2>1. least = Choosing!Fold(h, some[1], some)
      BY <1>3, LeastIsFold
    <2>. HIDE DEF some
    <2>2. 1 \in 1..Len(some)
      BY <1>1, <1>3
    <2>3. \A e \in ToSet(some) : L(e) \in Nat
      <3>1. ASSUME NEW e \in ToSet(some)
            PROVE  L(e) \in Nat
        <4>1. HasEdge(h, e[1], e[2])
          BY <1>1
        <4>2. LabelOf(h, <<e[1], e[2]>>) \in Labels
          BY <4>1, LabelOfEdge
        <4>3. LabelOf(h, e).options \in Seq(Pair)
          BY <4>2 DEF Labels, LabelOf
        <4>. QED  BY <4>3 DEF Options
      <3>. QED  BY <3>1
    <2>. HIDE DEF L
    <2>. DEFINE I == [i \in Nat |-> {e \in ToSet(some) : \A j \in 1..i : L(e) <= L(some[j])}]
    <2>4. some[1] \in I[0]
      BY <1>1, <2>2
    <2>5. ASSUME NEW i \in 1..Len(some), NEW e \in I[i-1]
          PROVE  FewerStep(h, e, some[i]) \in I[i]
      <3>1. i \in Nat /\ i - 1 \in Nat /\ some[i] \in ToSet(some)
        BY <1>1
      <3>2. e \in ToSet(some) /\ \A j \in 1..(i - 1) : L(e) <= L(some[j])
        BY <3>1
      <3>3. \A j \in 1..i : (j \in 1..(i - 1) \/ j = i) /\ j \in 1..Len(some)
        BY <1>1, <3>1
      <3>4. \A j \in 1..i : L(some[j]) \in Nat
        BY <1>1, <2>3, <3>3
      <3>5. L(e) \in Nat /\ L(some[i]) \in Nat
        BY <2>3, <3>1, <3>2
      <3>. DEFINE f == IF L(some[i]) < L(e) THEN some[i] ELSE e
      <3>6. f \in ToSet(some) /\ \A j \in 1..i : L(f) <= L(some[j])
        <4>1. f \in ToSet(some)
          BY <3>1, <3>2
        <4>2. ASSUME NEW j \in 1..i
              PROVE  L(f) <= L(some[j])
          <5>1. CASE j = i
            BY <5>1, <3>5
          <5>2. CASE j \in 1..(i - 1)
            BY <5>2, <3>2, <3>4, <3>5
          <5>. QED  BY <5>1, <5>2, <3>3
        <4>. QED  BY <4>1, <4>2
      <3>7. FewerStep(h, e, some[i]) = f
        BY DEF FewerStep, L
      <3>. HIDE DEF f
      <3>. QED  BY <3>1, <3>6, <3>7
    <2>6. Choosing!Fold(h, some[1], some) \in I[Len(some)]
      <3>. HIDE DEF I
      <3>. QED  BY <1>1, <2>4, <2>5, Choosing!FoldKeeps
    <2>7. least \in ToSet(some) /\ \A j \in 1..Len(some) : L(least) <= L(some[j])
      BY <1>1, <2>1, <2>6
    <2>8. \A e \in ToSet(some) : L(least) <= L(e)
      BY <1>1, <2>7
    <2>. QED  BY <1>1, <1>3, <2>7, <2>8 DEF L, some
  <1>. QED  BY <1>2, <1>3
=============================================================================

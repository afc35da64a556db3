--------------------------- MODULE TopologyProofs ----------------------------
(***************************************************************************)
(* Proofs about what the graph of ITop stands for: that drawing and        *)
(* merging are those of VirtualTopology, for every network and whatever    *)
(* traces were measured in it, and what this means for the paths of the    *)
(* traces and for the routers that answered.                               *)
(***************************************************************************)
EXTENDS ITopProofs

-----------------------------------------------------------------------------
(* The links of a graph are what its edges carry from node to node.        *)
LEMMA CarriesBothWays ==
    ASSUME NEW h, NEW v \in Nat, NEW w \in Nat, NEW p
    PROVE  Carries(h, v, w, p) <=> Carries(h, w, v, p)
  <1>1. Canonical(v, w) = Canonical(w, v)
    BY CanonicalPair
  <1>. QED  BY <1>1 DEF Carries, HasEdge, LabelOf

LEMMA CarriedBetweenNodes ==
    ASSUME NEW h, GraphInv(h), NEW v \in Nat, NEW w \in Nat, NEW p, Carries(h, v, w, p)
    PROVE  v \in Nodes(h) /\ w \in Nodes(h) /\ p \in Pair
  <1>1. HasEdge(h, v, w) /\ p \in LabelOf(h, <<v, w>>).path
    BY DEF Carries
  <1>2. LabelOf(h, <<v, w>>) \in Labels
    BY <1>1, LabelOfEdge
  <1>. QED  BY <1>1, <1>2, EdgeEnds DEF Labels

Triples(L) == \A l \in L : l = <<l[1], l[2], l[3]>>

(* Sets of links are told apart by what they link.                         *)
LEMMA TriplesEqual ==
    ASSUME NEW L, Triples(L), NEW M, Triples(M),
           \A v, w, p : <<v, w, p>> \in L <=> <<v, w, p>> \in M
    PROVE  L = M
  <1>1. ASSUME NEW l \in L PROVE l \in M
    BY DEF Triples
  <1>2. ASSUME NEW l \in M PROVE l \in L
    BY DEF Triples
  <1>. QED  BY <1>1, <1>2

Linked(h, v, w, p) == v \in Nat /\ w \in Nat /\ v # w /\ Carries(h, v, w, p)

LEMMA LinksAreCarried ==
    ASSUME NEW h, GraphInv(h)
    PROVE  /\ \A v, w, p : <<v, w, p>> \in LinksOfGraph(h) <=> Linked(h, v, w, p)
           /\ Triples(LinksOfGraph(h))
  <1>. DEFINE Of(e) == ({e[1]} \X {e[2]} \X h.label[e].path)
                         \cup ({e[2]} \X {e[1]} \X h.label[e].path)
              Straight == {e \in Edges(h) : e[1] # e[2]}
  <1>1. LinksOfGraph(h) = UNION {Of(e) : e \in Straight}
    BY DEF LinksOfGraph
  <1>2. ASSUME NEW e \in Straight, NEW l \in Of(e)
        PROVE  /\ l = <<l[1], l[2], l[3]>>
               /\ Linked(h, l[1], l[2], l[3])
    <2>1. /\ l = <<l[1], l[2], l[3]>>
          /\ <<l[1], l[2]>> = <<e[1], e[2]>> \/ <<l[1], l[2]>> = <<e[2], e[1]>>
          /\ l[3] \in h.label[e].path
      OBVIOUS
    <2>2. e[1] \in Nat /\ e[2] \in Nat /\ e[1] # e[2] /\ Canonical(e[1], e[2]) = e
      BY EdgesArePairs
    <2>3. Canonical(e[2], e[1]) = e
      BY <2>2, CanonicalPair
    <2>. HIDE DEF Of
    <2>. QED  BY <2>1, <2>2, <2>3 DEF Linked, Carries, HasEdge, LabelOf
  <1>3. ASSUME NEW v, NEW w, NEW p, Linked(h, v, w, p)
        PROVE  <<v, w, p>> \in LinksOfGraph(h)
    <2>. DEFINE e == Canonical(v, w)
    <2>1. v \in Nat /\ w \in Nat /\ v # w /\ e \in Edges(h) /\ p \in h.label[e].path
      BY <1>3 DEF Linked, Carries, HasEdge, LabelOf
    <2>2. <<e[1], e[2]>> = <<v, w>> \/ <<e[1], e[2]>> = <<w, v>>
      BY <2>1 DEF Canonical
    <2>. HIDE DEF e
    <2>3. e \in Straight /\ <<v, w, p>> \in Of(e)
      BY <2>1, <2>2
    <2>. HIDE DEF Of, Straight
    <2>. QED  BY <1>1, <2>3
  <1>4. ASSUME NEW l \in LinksOfGraph(h)
        PROVE  /\ l = <<l[1], l[2], l[3]>>
               /\ Linked(h, l[1], l[2], l[3])
    <2>. HIDE DEF Of, Straight
    <2>1. PICK e \in Straight : l \in Of(e)
      BY <1>1
    <2>. QED  BY <1>2, <2>1
  <1>5. ASSUME NEW v, NEW w, NEW p, <<v, w, p>> \in LinksOfGraph(h)
        PROVE  Linked(h, v, w, p)
    <2>. DEFINE l == <<v, w, p>>
    <2>1. l[1] = v /\ l[2] = w /\ l[3] = p
      OBVIOUS
    <2>. HIDE DEF l
    <2>. QED  BY <1>4, <1>5, <2>1 DEF l
  <1>. QED  BY <1>3, <1>4, <1>5 DEF Triples

(* Graphs whose edges carry the same have the same links.                  *)
LEMMA SameLinks ==
    ASSUME NEW h, GraphInv(h), NEW k, GraphInv(k),
           \A v, w \in Nat : \A p : Carries(h, v, w, p) <=> Carries(k, v, w, p)
    PROVE  LinksOfGraph(h) = LinksOfGraph(k)
  <1>1. \A v, w, p : Linked(h, v, w, p) <=> Linked(k, v, w, p)
    BY DEF Linked
  <1>. QED  BY <1>1, LinksAreCarried, TriplesEqual

-----------------------------------------------------------------------------
(* What an edge carries that setEdge puts there.                           *)
LEMMA SetEdgeCarries ==
    ASSUME NEW h, GraphInv(h), NEW v \in Nat, NEW w \in Nat, NEW label \in Labels
    PROVE  /\ \A x, y, p : Carries(SetEdge(h, v, w, label), x, y, p) <=>
                IF Canonical(x, y) = Canonical(v, w) THEN p \in label.path
                ELSE Carries(h, x, y, p)
           /\ SetEdge(h, v, w, label).default = h.default
           /\ \A n \in Nodes(h) : SetEdge(h, v, w, label).type[n] = h.type[n]
  <1>. DEFINE e == Canonical(v, w)
              m == SetEdge(h, v, w, label)
  <1>1. GraphInv(m) /\ Edges(m) = Edges(h) \cup {e}
    BY SetEdgeInv
  <1>2. DOMAIN h = {"type", "default", "edges", "label"}
    BY DEF GraphInv
  <1>3. /\ m.label = Put(h.label, e, label) /\ m.default = h.default
        /\ m.type = WithEnds(h.type, v, w)
    BY <1>2 DEF SetEdge
  <1>4. \A n \in Nodes(h) : m.type[n] = h.type[n]
    BY <1>3 DEF WithEnds, Nodes
  <1>5. \A d \in Edges(m) : m.label[d] = IF d = e THEN label ELSE h.label[d]
    BY <1>1, <1>3 DEF Put, GraphInv
  <1>. HIDE DEF m, e
  <1>6. \A x, y, p : Carries(m, x, y, p) <=>
            IF Canonical(x, y) = e THEN p \in label.path ELSE Carries(h, x, y, p)
    BY <1>1, <1>5 DEF Carries, HasEdge, LabelOf
  <1>. QED  BY <1>3, <1>4, <1>6 DEF m, e
(* An edge of n2 that moves to n1 brings n1 what it carried.               *)
LEMMA ReattachedCarries ==
    ASSUME NEW h, GraphInv(h), NEW n1 \in Nat, NEW n2 \in Nat, NEW e \in EdgesOf(h, n2)
    PROVE  /\ \A x, y, p :
                Carries(Reattached(h, e, n1, n2), x, y, p) <=>
                   \/ Carries(h, x, y, p)
                   \/ /\ Canonical(x, y) = Canonical(Other(e, n2), n1)
                      /\ Carries(h, Other(e, n2), n2, p)
           /\ Reattached(h, e, n1, n2).default = h.default
           /\ \A n \in Nodes(h) : Reattached(h, e, n1, n2).type[n] = h.type[n]
  <1>. DEFINE other == Other(e, n2)
              label == IF HasEdge(h, other, n1)
                       THEN MergeLabels(LabelOf(h, <<other, n1>>), h.label[e])
                       ELSE h.label[e]
  <1>1. e \in Edges(h)
    BY DEF EdgesOf
  <1>2. other \in Nat /\ Canonical(other, n2) = e
    <2>1. e[1] \in Nat /\ e[2] \in Nat /\ Canonical(e[1], e[2]) = e /\ n2 \in {e[1], e[2]}
      BY <1>1, EdgesArePairs DEF EdgesOf
    <2>. QED  BY <2>1, CanonicalPair DEF Other
  <1>3. h.label[e] \in Labels /\ label \in Labels
    <2>1. h.label[e] \in Labels
      BY <1>1 DEF GraphInv
    <2>. QED  BY <2>1, LabelOfEdge, MergedLabels
  <1>4. \A p : Carries(h, other, n2, p) <=> p \in h.label[e].path
    BY <1>1, <1>2 DEF Carries, HasEdge, LabelOf
  <1>5. \A p : p \in label.path <=> Carries(h, other, n1, p) \/ p \in h.label[e].path
    <2>1. CASE HasEdge(h, other, n1)
      <3>1. label.path = LabelOf(h, <<other, n1>>).path \cup h.label[e].path
        BY <2>1 DEF MergeLabels
      <3>. QED  BY <2>1, <3>1 DEF Carries
    <2>2. CASE ~HasEdge(h, other, n1)
      BY <2>2 DEF Carries
    <2>. QED  BY <2>1, <2>2
  <1>6. Reattached(h, e, n1, n2) = SetEdge(h, other, n1, label)
    BY DEF Reattached, Other
  <1>7. \A x, y, p : Canonical(x, y) = Canonical(other, n1) =>
            (Carries(h, x, y, p) <=> Carries(h, other, n1, p))
    BY DEF Carries, HasEdge, LabelOf
  <1>. HIDE DEF other, label
  <1>8. /\ \A x, y, p : Carries(SetEdge(h, other, n1, label), x, y, p) <=>
              IF Canonical(x, y) = Canonical(other, n1) THEN p \in label.path
              ELSE Carries(h, x, y, p)
        /\ SetEdge(h, other, n1, label).default = h.default
        /\ \A n \in Nodes(h) : SetEdge(h, other, n1, label).type[n] = h.type[n]
    BY <1>2, <1>3, SetEdgeCarries
  <1>. QED  BY <1>4, <1>5, <1>6, <1>7, <1>8 DEF other

(* With its edges moved, what n2 carries n1 carries too; the edges of      *)
(* other nodes carry what they did.                                        *)
LEMMA MovedCarries ==
    ASSUME NEW h, GraphInv(h), NEW n1 \in Nat, NEW n2 \in Nat, n1 # n2,
           NEW m, m = Moved(h, n1, n2)
    PROVE  /\ \A v, w \in Nat \ {n1} : \A p : Carries(m, v, w, p) <=> Carries(h, v, w, p)
           /\ \A x \in Nat \ {n1, n2} : \A p :
                 Carries(m, x, n1, p) <=> Carries(h, x, n1, p) \/ Carries(h, x, n2, p)
           /\ m.default = h.default
           /\ \A n \in Nodes(h) : m.type[n] = h.type[n]
  <1>. DEFINE seq == NodeEdges(h, n2)
              Apart(k) == \A v, w \in Nat \ {n1} : \A p :
                             Carries(k, v, w, p) <=> Carries(h, v, w, p)
              Given(k, i) == \A x \in Nat \ {n1, n2} : \A p :
                                Carries(k, x, n1, p) <=>
                                   \/ Carries(h, x, n1, p)
                                   \/ /\ Carries(h, x, n2, p)
                                      /\ \E j \in 1..i : Other(seq[j], n2) = x
              Same(k) == /\ Nodes(h) \subseteq Nodes(k) /\ Edges(h) \subseteq Edges(k)
                         /\ k.default = h.default
                         /\ \A n \in Nodes(h) : k.type[n] = h.type[n]
              I == [i \in Nat |-> {k \in GraphSet : Apart(k) /\ Given(k, i) /\ Same(k)}]
  <1>1. /\ seq \in Seq(Edges(h)) /\ Len(seq) \in Nat
        /\ EdgesOf(h, n2) = {seq[j] : j \in 1..Len(seq)}
    BY NodeEdgesListed, Elements
  <1>. HIDE DEF seq
  <1>2. h \in I[0]
    <2>1. h \in GraphSet /\ Apart(h) /\ Given(h, 0) /\ Same(h)
      BY GraphSetIsGraphs
    <2>. HIDE DEF Apart, Given, Same
    <2>. QED  BY <2>1
  <1>3. ASSUME NEW i \in 1..Len(seq), NEW k \in I[i-1]
        PROVE  MoveStep(<<n1, n2>>, k, seq[i]) \in I[i]
    <2>. DEFINE d == Reattached(k, seq[i], n1, n2)
                other == Other(seq[i], n2)
    <2>1. i \in Nat /\ i - 1 \in Nat /\ seq[i] \in EdgesOf(h, n2)
      BY <1>1
    <2>2. GraphInv(k) /\ Apart(k) /\ Given(k, i - 1) /\ Same(k)
      <3>. HIDE DEF Apart, Given, Same
      <3>. QED  BY <2>1, GraphSetIsGraphs
    <2>3. seq[i] \in EdgesOf(k, n2) /\ seq[i] \in Edges(k)
      BY <2>1, <2>2 DEF EdgesOf
    <2>4. other \in Nat
      BY <2>2, <2>3, EdgesArePairs DEF Other
    <2>5. /\ GraphInv(d) /\ Nodes(k) \subseteq Nodes(d) /\ Edges(k) \subseteq Edges(d)
      BY <2>2, <2>3, ReattachedInv
    <2>6. /\ \A x, y, p : Carries(d, x, y, p) <=>
                \/ Carries(k, x, y, p)
                \/ Canonical(x, y) = Canonical(other, n1) /\ Carries(k, other, n2, p)
          /\ d.default = k.default /\ \A n \in Nodes(k) : d.type[n] = k.type[n]
      BY <2>2, <2>3, ReattachedCarries
    <2>. HIDE DEF d, other
    <2>7. Apart(d)
      <3>1. \A v, w \in Nat \ {n1} : Canonical(v, w) # Canonical(other, n1)
        BY <2>4 DEF Canonical
      <3>. QED  BY <2>2, <2>6, <3>1
    <2>8. Given(d, i)
      <3>1. \A x \in Nat \ {n1, n2} : Canonical(x, n1) = Canonical(other, n1) <=> x = other
        BY <2>4 DEF Canonical
      <3>2. ASSUME NEW x \in Nat \ {n1, n2}
            PROVE  (\E j \in 1..i : Other(seq[j], n2) = x) <=>
                      (\E j \in 1..(i - 1) : Other(seq[j], n2) = x) \/ x = other
        <4>1. \A j : j \in 1..i <=> j \in 1..(i - 1) \/ j = i
          BY <2>1
        <4>. QED  BY <4>1 DEF other
      <3>3. \A x \in Nat \ {n1, n2} : \A p : Carries(k, x, n2, p) <=> Carries(h, x, n2, p)
        BY <2>2
      <3>. QED  BY <2>2, <2>6, <3>1, <3>2, <3>3
    <2>9. Same(d)
      BY <2>2, <2>5, <2>6
    <2>10. MoveStep(<<n1, n2>>, k, seq[i]) = d /\ d \in GraphSet
      BY <2>5, GraphSetIsGraphs DEF MoveStep, d
    <2>. HIDE DEF Apart, Given, Same
    <2>. QED  BY <2>1, <2>7, <2>8, <2>9, <2>10
  <1>4. Moving!Fold(<<n1, n2>>, h, seq) \in I[Len(seq)]
    <2>. HIDE DEF I
    <2>. QED  BY <1>1, <1>2, <1>3, Moving!FoldKeeps
  <1>5. m = Moving!Fold(<<n1, n2>>, h, seq)
    BY MovedIsFold DEF seq
  <1>6. Apart(m) /\ Given(m, Len(seq)) /\ Same(m)
    <2>. HIDE DEF Apart, Given, Same
    <2>. QED  BY <1>1, <1>4, <1>5
  <1>7. ASSUME NEW x \in Nat \ {n1, n2}, NEW p, Carries(h, x, n2, p)
        PROVE  \E j \in 1..Len(seq) : Other(seq[j], n2) = x
    <2>. DEFINE e == Canonical(x, n2)
    <2>1. e \in EdgesOf(h, n2) /\ Other(e, n2) = x
      BY <1>7 DEF Carries, HasEdge, EdgesOf, Other, Canonical
    <2>. HIDE DEF e
    <2>. QED  BY <1>1, <2>1
  <1>. QED  BY <1>6, <1>7
-----------------------------------------------------------------------------
(* A contraction glues.                                                    *)
LEMMA RemovedCarries ==
    ASSUME NEW h, GraphInv(h), NEW n
    PROVE  /\ \A x, y \in Nat : \A p :
                Carries(RemoveNode(h, n), x, y, p) <=> Carries(h, x, y, p) /\ x # n /\ y # n
           /\ RemoveNode(h, n).default = h.default
           /\ \A x \in Nodes(h) \ {n} : RemoveNode(h, n).type[x] = h.type[x]
  <1>. DEFINE kept == {e \in Edges(h) : n \notin {e[1], e[2]}}
              r == RemoveNode(h, n)
  <1>1. Edges(r) = kept
    BY RemoveNodeInv
  <1>2. DOMAIN h = {"type", "default", "edges", "label"}
    BY DEF GraphInv
  <1>3. /\ r.label = Restrict(h.label, kept) /\ r.default = h.default
        /\ r.type = Restrict(h.type, DOMAIN h.type \ {n})
    BY <1>2 DEF RemoveNode
  <1>4. \A e \in kept : r.label[e] = h.label[e]
    BY <1>3 DEF Restrict
  <1>5. \A x \in Nodes(h) \ {n} : r.type[x] = h.type[x]
    BY <1>3 DEF Restrict, Nodes
  <1>6. ASSUME NEW x \in Nat, NEW y \in Nat
        PROVE  Canonical(x, y) \in kept <=> Canonical(x, y) \in Edges(h) /\ x # n /\ y # n
    BY CanonicalPair
  <1>. HIDE DEF r, kept
  <1>7. \A x, y \in Nat : \A p : Carries(r, x, y, p) <=> Carries(h, x, y, p) /\ x # n /\ y # n
    BY <1>1, <1>4, <1>6 DEF Carries, HasEdge, LabelOf
  <1>. QED  BY <1>3, <1>5, <1>7 DEF r

LEMMA TypedCarries ==
    ASSUME NEW h, GraphInv(h), NEW n, NEW type
    PROVE  \A x, y, p : Carries(SetType(h, n, type), x, y, p) <=> Carries(h, x, y, p)
  <1>1. SetType(h, n, type).edges = h.edges /\ SetType(h, n, type).label = h.label
    BY DEF SetType, GraphInv
  <1>. QED  BY <1>1 DEF Carries, HasEdge, LabelOf, Edges

LEMMA ContractionCarries ==
    ASSUME NEW h, GraphInv(h), NEW n1 \in Nat, NEW n2 \in Nat, n1 # n2, NEW type \in Type,
           n1 \in Nodes(h) \/ EdgesOf(h, n2) # {},
           NEW c, c = NodeContraction(h, n1, n2, type)
    PROVE  \A v, w, p : Linked(c, v, w, p) <=>
              /\ v \in Nat \ {n2} /\ w \in Nat \ {n2} /\ v # w
              /\ \/ Carries(h, v, w, p)
                 \/ w = n1 /\ Carries(h, v, n2, p)
                 \/ v = n1 /\ Carries(h, w, n2, p)
  <1>. DEFINE m == Moved(h, n1, n2)
              s == SetType(m, n1, type)
  <1>1. c = RemoveNode(s, n2)
    BY Zenon DEF NodeContraction, Moved
  <1>2. GraphInv(m) /\ n1 \in Nodes(m)
    BY MovedInv
  <1>3. /\ \A v, w \in Nat \ {n1} : \A p : Carries(m, v, w, p) <=> Carries(h, v, w, p)
        /\ \A x \in Nat \ {n1, n2} : \A p :
              Carries(m, x, n1, p) <=> Carries(h, x, n1, p) \/ Carries(h, x, n2, p)
    BY MovedCarries
  <1>. HIDE DEF m
  <1>4. GraphInv(s) /\ \A x, y, p : Carries(s, x, y, p) <=> Carries(m, x, y, p)
    BY <1>2, SetTypeInv, TypedCarries
  <1>. HIDE DEF s
  <1>5. \A x, y \in Nat : \A p : Carries(c, x, y, p) <=> Carries(m, x, y, p) /\ x # n2 /\ y # n2
    BY <1>1, <1>4, RemovedCarries
  <1>6. \A x, y \in Nat : \A p : /\ Carries(m, x, y, p) <=> Carries(m, y, x, p)
                                 /\ Carries(h, x, y, p) <=> Carries(h, y, x, p)
    BY CarriesBothWays
  <1>7. SUFFICES ASSUME NEW v \in Nat \ {n2}, NEW w \in Nat \ {n2}, v # w, NEW p
                 PROVE  Carries(m, v, w, p) <=> \/ Carries(h, v, w, p)
                                                \/ w = n1 /\ Carries(h, v, n2, p)
                                                \/ v = n1 /\ Carries(h, w, n2, p)
    BY <1>5 DEF Linked
  <1>8. CASE v # n1 /\ w # n1
    BY <1>3, <1>8
  <1>9. CASE w = n1
    BY <1>3, <1>7, <1>9
  <1>10. CASE v = n1
    BY <1>3, <1>6, <1>7, <1>10
  <1>. QED  BY <1>8, <1>9, <1>10

(* A link of which <<a, b, p>> is what is left.                            *)
GluedFrom(L, v, w, a, b, p) ==
    \E x, y : <<x, y, p>> \in L /\ Topology!Glue(x, v, w) = a /\ Topology!Glue(y, v, w) = b

LEMMA GluedLink ==
    ASSUME NEW L, Triples(L), NEW v, NEW w
    PROVE  /\ \A a, b, p : <<a, b, p>> \in Topology!GluedLinks(L, v, w) <=>
                 a # b /\ GluedFrom(L, v, w, a, b, p)
           /\ Triples(Topology!GluedLinks(L, v, w))
  <1>. DEFINE r(n) == Topology!Glue(n, v, w)
              M == Topology!GluedLinks(L, v, w)
  <1>1. M = {l \in {<<r(l[1]), r(l[2]), l[3]>> : l \in L} : l[1] # l[2]}
    BY DEF Topology!GluedLinks
  <1>2. \A a, b, p : GluedFrom(L, v, w, a, b, p) <=>
           \E x, y : <<x, y, p>> \in L /\ r(x) = a /\ r(y) = b
    BY DEF GluedFrom
  <1>. HIDE DEF r, M
  <1>3. ASSUME NEW a, NEW b, NEW p, a # b, GluedFrom(L, v, w, a, b, p)
        PROVE  <<a, b, p>> \in M
    <2>1. PICK x, y : <<x, y, p>> \in L /\ r(x) = a /\ r(y) = b
      BY <1>2, <1>3
    <2>. DEFINE l == <<x, y, p>>
    <2>2. l \in L /\ l[1] = x /\ l[2] = y /\ l[3] = p
      BY <2>1
    <2>. HIDE DEF l
    <2>. QED  BY <1>1, <1>3, <2>1, <2>2
  <1>4. ASSUME NEW l \in M
        PROVE  l = <<l[1], l[2], l[3]>> /\ l[1] # l[2] /\ GluedFrom(L, v, w, l[1], l[2], l[3])
    <2>1. PICK k \in L : l = <<r(k[1]), r(k[2]), k[3]>> /\ l[1] # l[2]
      BY <1>1
    <2>2. <<k[1], k[2], k[3]>> \in L
      BY DEF Triples
    <2>3. l[1] = r(k[1]) /\ l[2] = r(k[2]) /\ l[3] = k[3]
      BY <2>1
    <2>. QED  BY <1>2, <2>1, <2>2, <2>3
  <1>5. ASSUME NEW a, NEW b, NEW p, <<a, b, p>> \in M
        PROVE  a # b /\ GluedFrom(L, v, w, a, b, p)
    <2>. DEFINE l == <<a, b, p>>
    <2>1. l[1] = a /\ l[2] = b /\ l[3] = p
      OBVIOUS
    <2>2. l \in M
      BY <1>5
    <2>. HIDE DEF l
    <2>. QED  BY <1>4, <2>1, <2>2
  <1>6. Triples(M)
    BY <1>4 DEF Triples
  <1>. QED  BY <1>3, <1>5, <1>6 DEF M

(* nodeContraction takes n2 for n1, and nothing else: no link is invented  *)
(* and none is lost, in whatever order the edges of n2 move and whichever  *)
(* edges n1 has already (lines 172-198).                                   *)
THEOREM ContractionGlues ==
    ASSUME NEW h, GraphInv(h), NEW n1 \in Nat, NEW n2 \in Nodes(h), n1 # n2, NEW type \in Type,
           n1 \in Nodes(h) \/ EdgesOf(h, n2) # {},
           NEW c, c = NodeContraction(h, n1, n2, type)
    PROVE  /\ GraphInv(c)
           /\ Nodes(c) = Topology!GluedNodes(Nodes(h), n1, n2)
           /\ LinksOfGraph(c) = Topology!GluedLinks(LinksOfGraph(h), n1, n2)
  <1>. DEFINE r(n) == Topology!Glue(n, n1, n2)
              L == LinksOfGraph(h)
  <1>1. n2 \in Nat
    BY DEF GraphInv
  <1>2. GraphInv(c) /\ Nodes(c) = (Nodes(h) \cup {n1}) \ {n2}
    BY NodeContractionInv
  <1>3. Nodes(c) = Topology!GluedNodes(Nodes(h), n1, n2)
    BY <1>2 DEF Topology!GluedNodes, Topology!Glue
  <1>4. \A v, w, p : Linked(c, v, w, p) <=>
              /\ v \in Nat \ {n2} /\ w \in Nat \ {n2} /\ v # w
              /\ \/ Carries(h, v, w, p)
                 \/ w = n1 /\ Carries(h, v, n2, p)
                 \/ v = n1 /\ Carries(h, w, n2, p)
    BY <1>1, ContractionCarries
  <1>5. Triples(L) /\ \A v, w, p : <<v, w, p>> \in L <=> Linked(h, v, w, p)
    BY LinksAreCarried
  <1>6. /\ Triples(LinksOfGraph(c))
        /\ \A v, w, p : <<v, w, p>> \in LinksOfGraph(c) <=> Linked(c, v, w, p)
    BY <1>2, LinksAreCarried
  <1>. HIDE DEF L
  <1>7. /\ \A a, b, p : <<a, b, p>> \in Topology!GluedLinks(L, n1, n2) <=>
              a # b /\ GluedFrom(L, n1, n2, a, b, p)
        /\ Triples(Topology!GluedLinks(L, n1, n2))
    BY <1>5, GluedLink
  <1>8. \A x : r(x) = IF x = n2 THEN n1 ELSE x
    BY DEF Topology!Glue
  <1>9. \A x, y \in Nat : \A p : Carries(h, x, y, p) <=> Carries(h, y, x, p)
    BY CarriesBothWays
  <1>10. \A a, b, p : GluedFrom(L, n1, n2, a, b, p) <=>
            \E x, y : Linked(h, x, y, p) /\ r(x) = a /\ r(y) = b
    BY <1>5 DEF GluedFrom
  <1>. HIDE DEF r
  <1>11. ASSUME NEW a, NEW b, NEW p
         PROVE  Linked(c, a, b, p) <=> a # b /\ GluedFrom(L, n1, n2, a, b, p)
    <2>1. ASSUME Linked(c, a, b, p)
          PROVE  a # b /\ \E x, y : Linked(h, x, y, p) /\ r(x) = a /\ r(y) = b
      <3>1. a \in Nat \ {n2} /\ b \in Nat \ {n2} /\ a # b /\ r(a) = a /\ r(b) = b /\ r(n2) = n1
        BY <1>4, <1>8, <2>1
      <3>2. CASE Carries(h, a, b, p)
        BY <3>1, <3>2 DEF Linked
      <3>3. CASE b = n1 /\ Carries(h, a, n2, p)
        <4>1. Linked(h, a, n2, p)
          BY <1>1, <3>1, <3>3 DEF Linked
        <4>. QED  BY <3>1, <3>3, <4>1
      <3>4. CASE a = n1 /\ Carries(h, b, n2, p)
        <4>1. Linked(h, n2, b, p)
          BY <1>1, <1>9, <3>1, <3>4 DEF Linked
        <4>. QED  BY <3>1, <3>4, <4>1
      <3>. QED  BY <1>4, <2>1, <3>2, <3>3, <3>4
    <2>2. ASSUME a # b, NEW x, NEW y, Linked(h, x, y, p), r(x) = a, r(y) = b
          PROVE  Linked(c, a, b, p)
      <3>1. x \in Nat /\ y \in Nat /\ Carries(h, x, y, p) /\ Carries(h, y, x, p)
        BY <1>9, <2>2 DEF Linked
      <3>2. a \in Nat \ {n2} /\ b \in Nat \ {n2}
        BY <1>8, <2>2, <3>1
      <3>3. \/ Carries(h, a, b, p)
            \/ b = n1 /\ Carries(h, a, n2, p)
            \/ a = n1 /\ Carries(h, b, n2, p)
        BY <1>8, <2>2, <3>1
      <3>. QED  BY <1>4, <2>2, <3>2, <3>3
    <2>. QED  BY <1>10, <2>1, <2>2
  <1>12. LinksOfGraph(c) = Topology!GluedLinks(L, n1, n2)
    BY <1>6, <1>7, <1>11, TriplesEqual
  <1>. QED  BY <1>2, <1>3, <1>12 DEF L
-----------------------------------------------------------------------------
(* merge glues the ends of one edge to those of the other.                 *)
LEMMA GluedToItself ==
    ASSUME NEW h, GraphInv(h), NEW v
    PROVE  /\ Topology!GluedNodes(Nodes(h), v, v) = Nodes(h)
           /\ Topology!GluedLinks(LinksOfGraph(h), v, v) = LinksOfGraph(h)
  <1>. DEFINE L == LinksOfGraph(h)
  <1>1. \A n : Topology!Glue(n, v, v) = n
    BY DEF Topology!Glue
  <1>2. Topology!GluedNodes(Nodes(h), v, v) = Nodes(h)
    BY <1>1 DEF Topology!GluedNodes
  <1>3. Triples(L) /\ \A a, b, p : <<a, b, p>> \in L <=> Linked(h, a, b, p)
    BY LinksAreCarried
  <1>. HIDE DEF L
  <1>4. \A a, b, p : <<a, b, p>> \in L => a # b
    BY <1>3 DEF Linked
  <1>5. \A a, b, p : GluedFrom(L, v, v, a, b, p) <=> <<a, b, p>> \in L
    BY <1>1 DEF GluedFrom
  <1>6. /\ \A a, b, p : <<a, b, p>> \in Topology!GluedLinks(L, v, v) <=>
                a # b /\ GluedFrom(L, v, v, a, b, p)
        /\ Triples(Topology!GluedLinks(L, v, v))
    BY <1>3, GluedLink
  <1>7. \A a, b, p : <<a, b, p>> \in Topology!GluedLinks(L, v, v) <=> <<a, b, p>> \in L
    BY <1>4, <1>5, <1>6
  <1>8. Topology!GluedLinks(L, v, v) = L
    BY <1>3, <1>6, <1>7, TriplesEqual
  <1>. QED  BY <1>2, <1>8 DEF L

LEMMA StartGlues ==
    ASSUME NEW h, GraphInv(h), NEW ei \in Edges(h), NEW ej \in Pair, HasEdge(h, ej[1], ej[2]),
           NEW c, c = ContractedStart(h, ei, ej)
    PROVE  /\ GraphInv(c)
           /\ Nodes(c) = Topology!GluedNodes(Nodes(h), ei[1], ej[1])
           /\ LinksOfGraph(c) = Topology!GluedLinks(LinksOfGraph(h), ei[1], ej[1])
  <1>1. ei[1] \in Nat /\ ej[1] \in Nat /\ ej[2] \in Nat
    BY EdgesArePairs DEF Pair
  <1>2. ei[1] \in Nodes(h) /\ ej[1] \in Nodes(h)
    BY <1>1, EdgeEnds DEF GraphInv
  <1>3. CASE ei[1] = ej[1]
    BY <1>3, GluedToItself DEF ContractedStart
  <1>4. CASE ei[1] # ej[1]
    <2>. DEFINE type == MaxType(TypeOf(h, ei[1]), TypeOf(h, ej[1]))
    <2>1. c = NodeContraction(h, ei[1], ej[1], type)
      BY <1>4 DEF ContractedStart
    <2>2. type \in Type
      BY <1>2, TypeOfNode, MaxTypeIsType
    <2>. HIDE DEF type
    <2>. QED  BY <1>1, <1>2, <1>4, <2>1, <2>2, ContractionGlues
  <1>. QED  BY <1>3, <1>4

LEMMA ContractedGlues ==
    ASSUME NEW h, GraphInv(h), NEW ei \in Edges(h), NEW ej \in Pair, HasEdge(h, ej[1], ej[2]),
           ~MergeThrows(h, ei, ej),
           NEW c, c = ContractedStart(h, ei, ej), NEW d, d = Contracted(h, ei, ej)
    PROVE  /\ Nodes(d) = Topology!GluedNodes(Nodes(c), ei[2], ej[2])
           /\ LinksOfGraph(d) = Topology!GluedLinks(LinksOfGraph(c), ei[2], ej[2])
  <1>. DEFINE end == MaxType(TypeOf(h, ei[2]), TypeOf(h, ej[2]))
  <1>1. /\ GraphInv(c)
        /\ ei[1] = ej[1] => c = h
        /\ ei[1] # ej[1] => Nodes(c) = Nodes(h) \ {ej[1]}
        /\ ei[1] # ej[1] /\ ej[2] # ej[1] => EdgesOf(c, ej[2]) # {}
    BY ContractedStartInv
  <1>2. ei[2] \in Nat /\ ei[2] \in Nodes(h) /\ ej[2] \in Nodes(h)
    BY EdgesArePairs, EdgeEnds DEF GraphInv, Pair
  <1>3. CASE ei[2] = ej[2]
    <2>1. d = c
      BY <1>3 DEF Contracted
    <2>. QED  BY <1>1, <1>3, <2>1, GluedToItself
  <1>4. CASE ei[2] # ej[2]
    <2>1. d = NodeContraction(c, ei[2], ej[2], end)
      BY <1>4 DEF Contracted
    <2>2. end \in Type
      BY <1>2, TypeOfNode, MaxTypeIsType
    <2>3. ej[2] \in Nodes(c) /\ (ei[2] \in Nodes(c) \/ EdgesOf(c, ej[2]) # {})
      BY <1>1, <1>2, <1>4 DEF MergeThrows
    <2>. HIDE DEF end
    <2>. QED  BY <1>1, <1>2, <1>4, <2>1, <2>2, <2>3, ContractionGlues
  <1>. QED  BY <1>3, <1>4

(* The second half of merge looks at options only.                         *)
LEMMA MergedLinks ==
    ASSUME NEW h, GraphInv(h), NEW ei \in Edges(h), NEW ej \in Pair, HasEdge(h, ej[1], ej[2]),
           ~MergeThrows(h, ei, ej),
           NEW c, c = Contracted(h, ei, ej), NEW d, d = Merged(h, ei, ej)
    PROVE  /\ Nodes(d) = Nodes(c) /\ LinksOfGraph(d) = LinksOfGraph(c)
           /\ d.type = c.type /\ d.default = c.default
  <1>. DEFINE Kept(e) == RenamedOptions(WithoutMerged(c.label[e].options, ei, ej), e, ei, ej)
  <1>1. GraphInv(c) /\ GraphInv(d)
    BY ContractedInv, MergedInv
  <1>2. d = [c EXCEPT !.label = [e \in DOMAIN @ |-> [@[e] EXCEPT !.options = Kept(e)]]]
    BY DEF Merged
  <1>. HIDE DEF Kept
  <1>3. /\ d.type = c.type /\ d.default = c.default /\ d.edges = c.edges
        /\ d.label = [e \in Edges(c) |-> [c.label[e] EXCEPT !.options = Kept(e)]]
    BY <1>1, <1>2 DEF GraphInv
  <1>4. \A e \in Edges(c) : d.label[e].path = c.label[e].path
    <2>1. ASSUME NEW e \in Edges(c)
          PROVE  d.label[e].path = c.label[e].path
      <3>1. c.label[e] \in Labels
        BY <1>1 DEF GraphInv
      <3>2. d.label[e] = [c.label[e] EXCEPT !.options = Kept(e)]
        BY <1>3
      <3>. QED  BY <3>1, <3>2 DEF Labels
    <2>. QED  BY <2>1
  <1>5. Nodes(d) = Nodes(c) /\ Edges(d) = Edges(c)
    BY <1>3 DEF Nodes, Edges
  <1>6. \A v, w \in Nat : \A p : Carries(d, v, w, p) <=> Carries(c, v, w, p)
    BY <1>4, <1>5 DEF Carries, HasEdge, LabelOf
  <1>. QED  BY <1>1, <1>3, <1>5, <1>6, SameLinks

(* A merge takes each end of ej for the end of ei: it invents no link, and *)
(* every link keeps all of its paths, whichever of the ends are the same   *)
(* and whichever edges become one or loops (lines 199-212).                *)
THEOREM MergeGlues ==
    ASSUME NEW h, GraphInv(h), NEW ei \in Edges(h), NEW ej \in Pair, HasEdge(h, ej[1], ej[2]),
           ~MergeThrows(h, ei, ej), NEW d, d = Merged(h, ei, ej)
    PROVE  /\ Nodes(d) = Topology!GluedNodes(Topology!GluedNodes(Nodes(h), ei[1], ej[1]),
                                             ei[2], ej[2])
           /\ LinksOfGraph(d) = Topology!GluedLinks(
                                    Topology!GluedLinks(LinksOfGraph(h), ei[1], ej[1]),
                                    ei[2], ej[2])
  <1>. DEFINE b == ContractedStart(h, ei, ej)
              c == Contracted(h, ei, ej)
  <1>1. /\ Nodes(b) = Topology!GluedNodes(Nodes(h), ei[1], ej[1])
        /\ LinksOfGraph(b) = Topology!GluedLinks(LinksOfGraph(h), ei[1], ej[1])
    BY StartGlues
  <1>2. /\ Nodes(c) = Topology!GluedNodes(Nodes(b), ei[2], ej[2])
        /\ LinksOfGraph(c) = Topology!GluedLinks(LinksOfGraph(b), ei[2], ej[2])
    BY ContractedGlues
  <1>3. Nodes(d) = Nodes(c) /\ LinksOfGraph(d) = LinksOfGraph(c)
    BY MergedLinks
  <1>. HIDE DEF b, c
  <1>. QED  BY <1>1, <1>2, <1>3
-----------------------------------------------------------------------------
(* Drawing adds links of one path.                                         *)
Adds(h, k, path) ==
    /\ \A v, w \in Nat : \A p : Carries(k, v, w, p) => Carries(h, v, w, p) \/ p = path
    /\ Nodes(h) \subseteq Nodes(k)
    /\ k.default = h.default

LEMMA AddsNothing == \A h, path : Adds(h, h, path)
  BY DEF Adds

LEMMA AddsMore ==
    ASSUME NEW h, NEW k, NEW m, NEW path, Adds(h, k, path), Adds(k, m, path)
    PROVE  Adds(h, m, path)
  BY DEF Adds

LEMMA AddHopAdds ==
    ASSUME NEW h, GraphInv(h), NEW c \in Nat, NEW p \in Nat, NEW type \in Type, NEW path \in Pair
    PROVE  Adds(h, AddHop(h, c, p, type, path), path)
  <1>. DEFINE k == IF c \in Nodes(h) THEN h ELSE SetNode(h, c, type)
              old == LabelOf(h, <<p, c>>)
              label == IF HasEdge(h, p, c) THEN [old EXCEPT !.path = @ \cup {path}]
                       ELSE [path |-> {path}, options |-> <<>>]
              m == SetEdge(k, p, c, label)
  <1>1. AddHop(h, c, p, type, path) = m
    BY DEF AddHop
  <1>2. /\ GraphInv(k) /\ Nodes(h) \subseteq Nodes(k) /\ k.edges = h.edges /\ k.label = h.label
        /\ k.default = h.default
    <2>1. DOMAIN h = {"type", "default", "edges", "label"}
      BY DEF GraphInv
    <2>2. SetNode(h, c, type).default = h.default
      BY <2>1 DEF SetNode
    <2>. QED  BY <2>2, SetNodeInv
  <1>3. label \in Labels /\ \A q : q \in label.path => q = path \/ (HasEdge(h, p, c) /\ q \in old.path)
    <2>1. CASE HasEdge(h, p, c)
      <3>1. old \in Labels
        BY <2>1, LabelOfEdge
      <3>. HIDE DEF old
      <3>. QED  BY <2>1, <3>1 DEF Labels
    <2>2. CASE ~HasEdge(h, p, c)
      BY <2>2 DEF Labels
    <2>. QED  BY <2>1, <2>2
  <1>4. \A x, y, q : Carries(k, x, y, q) <=> Carries(h, x, y, q)
    BY <1>2 DEF Carries, HasEdge, LabelOf, Edges
  <1>. HIDE DEF k, label
  <1>5. /\ \A x, y, q : Carries(m, x, y, q) <=>
              IF Canonical(x, y) = Canonical(p, c) THEN q \in label.path ELSE Carries(k, x, y, q)
        /\ m.default = k.default
    BY <1>2, <1>3, SetEdgeCarries
  <1>6. Nodes(k) \subseteq Nodes(m)
    BY <1>2, <1>3, SetEdgeInv
  <1>. HIDE DEF m
  <1>7. ASSUME NEW x \in Nat, NEW y \in Nat, NEW q, Carries(m, x, y, q)
        PROVE  Carries(h, x, y, q) \/ q = path
    <2>1. CASE Canonical(x, y) = Canonical(p, c)
      BY <1>3, <1>5, <1>7, <2>1 DEF Carries, HasEdge, LabelOf
    <2>2. CASE Canonical(x, y) # Canonical(p, c)
      BY <1>4, <1>5, <1>7, <2>2
    <2>. QED  BY <2>1, <2>2
  <1>. QED  BY <1>1, <1>2, <1>5, <1>6, <1>7 DEF Adds

LEMMA AddStretchAdds ==
    ASSUME NEW h, GraphInv(h), NEW nodes \in Seq(Node), NEW path \in Pair
    PROVE  Adds(h, AddStretch(h, nodes, path), path)
  <1>. DEFINE T == {k \in GraphSet : Adds(h, k, path)}
              seq == [i \in DOMAIN nodes |-> i]
              I == [n \in Nat |-> T]
  <1>1. Len(nodes) \in Nat /\ seq \in Seq(Nat) /\ Len(seq) = Len(nodes)
        /\ \A i \in 1..Len(nodes) : seq[i] = i
    OBVIOUS
  <1>2. h \in T
    BY GraphSetIsGraphs, AddsNothing
  <1>3. ASSUME NEW i \in 1..Len(nodes), NEW k \in T
        PROVE  StretchStep(<<nodes, path>>, k, i) \in T
    <2>1. GraphInv(k) /\ Adds(h, k, path)
      BY GraphSetIsGraphs
    <2>2. CASE i = 1
      BY <2>2 DEF StretchStep
    <2>3. CASE i # 1
      <3>1. i - 1 \in 1..Len(nodes)
        BY <1>1, <2>3
      <3>2. nodes[i] \in Node /\ nodes[i-1] \in Node
        BY <3>1
      <3>3. nodes[i].name \in Nat /\ nodes[i].type \in Type /\ nodes[i-1].name \in Nat
        BY <3>2 DEF Node
      <3>. DEFINE m == AddHop(k, nodes[i].name, nodes[i-1].name, nodes[i].type, path)
      <3>4. \A c, p \in Nat, type \in Type :
               /\ GraphInv(AddHop(k, c, p, type, path))
               /\ Adds(k, AddHop(k, c, p, type, path), path)
        BY <2>1, AddHopInv, AddHopAdds
      <3>5. GraphInv(m) /\ Adds(k, m, path)
        BY <3>3, <3>4
      <3>6. StretchStep(<<nodes, path>>, k, i) = m
        BY <2>3 DEF StretchStep
      <3>. HIDE DEF m
      <3>. QED  BY <2>1, <3>5, <3>6, GraphSetIsGraphs, AddsMore
    <2>. QED  BY <2>2, <2>3
  <1>4. Drawing!Fold(<<nodes, path>>, h, seq) \in T
    <2>1. h \in I[0]
      BY <1>2
    <2>2. \A i \in 1..Len(seq) : \A k \in I[i-1] : StretchStep(<<nodes, path>>, k, seq[i]) \in I[i]
      <3>1. \A i \in 1..Len(seq) : i \in Nat /\ i - 1 \in Nat
        BY <1>1
      <3>. HIDE DEF T, seq
      <3>. QED  BY <1>1, <1>3, <3>1
    <2>3. I[Len(seq)] = T
      BY <1>1
    <2>. HIDE DEF T, I, seq
    <2>. QED  BY <1>1, <2>1, <2>2, <2>3, Drawing!FoldKeeps
  <1>5. AddStretch(h, nodes, path) = Drawing!Fold(<<nodes, path>>, h, seq)
    BY StretchIsFold
  <1>. QED  BY <1>4, <1>5

(* A step of phase 1 draws its trace, or what it can before it throws.     *)
LEMMA Phase1Adds ==
    ASSUME ITopTyped, Phase1
    PROVE  Adds(g, g', PathName(traces[next]))
  <1>. DEFINE t == traces[next]
              opposite == OppositePath(t)
              o == traces[opposite]
              path == PathName(t)
  <1>1. /\ IsInput(input) /\ NamesOK /\ anonymous \in Nat /\ GraphInv(g)
        /\ next \in Nat \ {0} /\ next <= Len(traces)
    BY DEF ITopTyped, Phase1
  <1>2. Len(traces) \in Nat /\ next \in 1..Len(traces)
    BY <1>1 DEF IsInput, traces
  <1>3. t \in Trace /\ opposite \in 0..Len(traces) /\ path \in Pair
    BY <1>1, <1>2, TraceOK, OppositeIndex, PathNameOK
  <1>4. \A h : GraphInv(h) => \A nodes \in Seq(Node) :
            GraphInv(AddStretch(h, nodes, path)) /\ Adds(h, AddStretch(h, nodes, path), path)
    BY <1>3, AddStretchInv, AddStretchAdds
  <1>5. CASE g' = g
    BY <1>5, AddsNothing
  <1>6. CASE ReachedTrace(t)
    <2>1. <<Router(Name(t.from))>> \o HopNodes(t.hops, anonymous) \in Seq(Node)
      BY <1>1, <1>3, ReachedStretch
    <2>2. g' = AddStretch(g, <<Router(Name(t.from))>> \o HopNodes(t.hops, anonymous), path)
      BY <1>6 DEF ReachedTrace
    <2>. HIDE DEF t, path
    <2>3. Adds(g, g', path)
      BY <1>1, <1>4, <2>1, <2>2
    <2>. QED  BY <2>3 DEF t, path
  <1>7. CASE opposite # 0 /\ Joinable(t, o) /\ BlockedTrace(t, o)
    <2>. DEFINE ba == SubSeq(o.hops, 1, SuccessNumberBA(t, o))
                there == Append(WayThere(t, o), Router(Name(Last(ba))))
                back  == <<Last(HiddenRouters(t, o))>> \o HopNodes(Reverse(ba), NamedThere(t, o))
                arrival == <<Router(Name(t.to)), Router(Name(o.hops[1]))>>
    <2>1. o \in Trace
      BY <1>1, <1>2, <1>3, <1>7, TraceOK
    <2>2. there \in Seq(Node) /\ back \in Seq(Node) /\ arrival \in Seq(Node)
      BY <1>3, <1>7, <2>1, StretchesOK
    <2>3. g' = AddStretch(AddStretch(AddStretch(g, there, path), back, path), arrival, path)
      BY <1>7 DEF BlockedTrace
    <2>. HIDE DEF there, back, arrival, t, o, path
    <2>4. Adds(g, g', path)
      BY <1>1, <1>4, <2>2, <2>3, AddsMore
    <2>. QED  BY <2>4 DEF t, path
  <1>8. CASE opposite # 0 /\ AnyAnswer(t, o) /\ g' = AddStretch(g, WayThere(t, o), path)
    <2>1. o \in Trace
      BY <1>1, <1>2, <1>3, <1>8, TraceOK
    <2>2. WayThere(t, o) \in Seq(Node)
      BY <1>1, <1>3, <2>1, WayThereOK
    <2>. HIDE DEF t, o, path
    <2>3. Adds(g, g', path)
      BY <1>1, <1>4, <1>8, <2>2
    <2>. QED  BY <2>3 DEF t, path
  <1>. QED  BY <1>5, <1>6, <1>7, <1>8 DEF Phase1, Throw, NotJoined
-----------------------------------------------------------------------------
(* Every step of ITop is one of VirtualTopology, or none.                  *)
LEMMA DrawsTopology ==
    ASSUME GraphInv(g), GraphInv(g'), Grown(g, g'), NEW path, Adds(g, g', path),
           phase \in {"new", "phase1"}
    PROVE  Topology!Draw
  <1>. DEFINE L == LinksOfGraph(g)
              M == LinksOfGraph(g')
  <1>1. /\ Triples(L) /\ \A v, w, p : <<v, w, p>> \in L <=> Linked(g, v, w, p)
        /\ Triples(M) /\ \A v, w, p : <<v, w, p>> \in M <=> Linked(g', v, w, p)
    BY LinksAreCarried
  <1>. HIDE DEF L, M
  <1>2. \A v, w, p : Linked(g, v, w, p) => Linked(g', v, w, p)
    BY DEF Grown, Linked
  <1>3. L \subseteq M
    BY <1>1, <1>2 DEF Triples
  <1>4. \A v, w, p : Linked(g', v, w, p) => Linked(g, v, w, p) \/ p = path
    BY DEF Adds, Linked
  <1>5. ASSUME NEW l \in M \ L
        PROVE  l[3] = path
    <2>1. l = <<l[1], l[2], l[3]>>
      BY <1>1 DEF Triples
    <2>. QED  BY <1>1, <1>4, <2>1
  <1>6. Nodes(g) \subseteq Nodes(g')
    BY DEF Adds
  <1>7. \A k, l \in M \ L : k[3] = l[3]
    BY <1>5
  <1>. QED  BY <1>3, <1>6, <1>7 DEF Topology!Draw, L, M

(* An edge of the graph has two ends in the topology.                      *)
LEMMA EdgeHasEnds ==
    ASSUME GraphInv(g), NEW v \in Nat, NEW w \in Nat, HasEdge(g, v, w)
    PROVE  <<v, w>> \in Topology!Ends
  <1>1. CASE v = w
    BY <1>1, EdgeEnds DEF Topology!Ends
  <1>2. CASE v # w
    <2>1. LabelOf(g, <<v, w>>) \in Labels
      BY LabelOfEdge
    <2>2. PICK p : p \in LabelOf(g, <<v, w>>).path
      BY <2>1 DEF Labels
    <2>3. Linked(g, v, w, p)
      BY <1>2, <2>2 DEF Linked, Carries
    <2>. DEFINE l == <<v, w, p>>
    <2>4. l \in LinksOfGraph(g)
      BY <2>3, LinksAreCarried
    <2>5. l[1] = v /\ l[2] = w
      OBVIOUS
    <2>. HIDE DEF l
    <2>6. <<l[1], l[2]>> \in Topology!Ends
      BY <2>4, Zenon DEF Topology!Ends
    <2>. QED  BY <2>5, <2>6
  <1>. QED  BY <1>1, <1>2

LEMMA MergesTopology ==
    ASSUME ITopTyped, Phase3Core
    PROVE  Topology!Merge \/ UNCHANGED Topology!vars
  <1>. DEFINE ei == FirstEdge
              ej == SecondEdge
  <1>1. /\ GraphInv(g) /\ ExistMergeOption(g) /\ phase = "phase3"
        /\ phase' \in {"phase3", "failed"}
    BY DEF ITopTyped, Phase3Core, Throw, Spliced
  <1>2. /\ ei \in Edges(g) /\ (ej # <<>> => ej \in Pair /\ HasEdge(g, ej[1], ej[2]))
    BY <1>1, PickedEdges
  <1>3. ~(phase \in {"new", "phase1"}) /\ ~(phase' \in {"new", "phase1"})
    BY <1>1
  <1>4. ej # <<>> => <<ei[1], ei[2]>> \in Topology!Ends /\ <<ej[1], ej[2]>> \in Topology!Ends
    <2>1. /\ ei[1] \in Nat /\ ei[2] \in Nat /\ HasEdge(g, ei[1], ei[2])
          /\ ej # <<>> => ej[1] \in Nat /\ ej[2] \in Nat
      BY <1>1, <1>2, EdgesArePairs DEF HasEdge, Pair
    <2>. QED  BY <1>1, <1>2, <2>1, EdgeHasEnds
  <1>5. CASE g' = [g EXCEPT !.label[ei].options = <<>>]
    <2>1. <<>> \in Seq(Pair)
      OBVIOUS
    <2>2. /\ GraphInv(g') /\ Nodes(g') = Nodes(g) /\ g'.edges = g.edges
          /\ \A d \in Edges(g) \ {ei} : g'.label[d] = g.label[d]
      BY <1>1, <1>2, <1>5, <2>1, SetOptionsInv
    <2>3. g'.label[ei].path = g.label[ei].path
      BY <1>1, <1>2, <1>5 DEF GraphInv, Labels
    <2>4. \A v, w \in Nat : \A p : Carries(g, v, w, p) <=> Carries(g', v, w, p)
      BY <2>2, <2>3 DEF Carries, HasEdge, LabelOf, Edges
    <2>5. LinksOfGraph(g') = LinksOfGraph(g)
      BY <1>1, <2>2, <2>4, SameLinks
    <2>. QED  BY <1>3, <2>2, <2>5 DEF Topology!vars
  <1>6. CASE ej # <<>> /\ MergeThrows(g, ei, ej) /\ g' = ContractedStart(g, ei, ej)
    <2>1. /\ Nodes(g') = Topology!GluedNodes(Nodes(g), ei[1], ej[1])
          /\ LinksOfGraph(g') = Topology!GluedLinks(LinksOfGraph(g), ei[1], ej[1])
      BY <1>1, <1>2, <1>6, StartGlues
    <2>2. Topology!Glued(ei[1], ej[1])
      BY <2>1 DEF Topology!Glued
    <2>. QED  BY <1>3, <1>4, <1>6, <2>2 DEF Topology!Merge
  <1>7. CASE ej # <<>> /\ ~MergeThrows(g, ei, ej) /\ g' = Merged(g, ei, ej)
    <2>1. /\ Nodes(g') = Topology!GluedNodes(Topology!GluedNodes(Nodes(g), ei[1], ej[1]),
                                             ei[2], ej[2])
          /\ LinksOfGraph(g') = Topology!GluedLinks(
                                    Topology!GluedLinks(LinksOfGraph(g), ei[1], ej[1]),
                                    ei[2], ej[2])
      BY <1>1, <1>2, <1>7, MergeGlues
    <2>2. Topology!GluedTwice(ei[1], ej[1], ei[2], ej[2])
      BY <2>1 DEF Topology!GluedTwice
    <2>. QED  BY <1>3, <1>4, <1>7, <2>2 DEF Topology!Merge
  <1>8. CASE g' = g
    BY <1>3, <1>8 DEF Topology!vars
  <1>. QED  BY <1>5, <1>6, <1>7, <1>8 DEF Phase3Core, Throw, Spliced

(* Phase 2 sets options.                                                   *)
LEMMA Phase2Links ==
    ASSUME ITopTyped, Phase2
    PROVE  Nodes(g') = Nodes(g) /\ LinksOfGraph(g') = LinksOfGraph(g) /\ g'.default = g.default
  <1>. DEFINE e == g.edges[next]
  <1>1. /\ GraphInv(g) /\ next \in 1..Len(g.edges)
        /\ next \in Nat
    BY DEF ITopTyped, Phase2, GraphInv
  <1>2. e \in Edges(g)
    BY <1>1 DEF GraphInv, Edges, ToSet
  <1>3. MergeOptions(e) \in Seq(Pair) /\ OptionsBefore(e) \in Seq(Pair)
    BY <1>1, <1>2, OptionsListed
  <1>4. PICK options \in Seq(Pair) : g' = [g EXCEPT !.label[e].options = options]
    BY <1>3 DEF Phase2, Throw
  <1>. HIDE DEF e
  <1>5. /\ GraphInv(g') /\ Nodes(g') = Nodes(g) /\ g'.edges = g.edges
        /\ \A d \in Edges(g) \ {e} : g'.label[d] = g.label[d]
    BY <1>1, <1>2, <1>4, SetOptionsInv
  <1>6. g'.label[e].path = g.label[e].path /\ g'.default = g.default
    BY <1>1, <1>2, <1>4 DEF GraphInv, Labels
  <1>7. \A v, w \in Nat : \A p : Carries(g, v, w, p) <=> Carries(g', v, w, p)
    BY <1>5, <1>6 DEF Carries, HasEdge, LabelOf, Edges
  <1>. QED  BY <1>1, <1>5, <1>6, <1>7, SameLinks

LEMMA TopologyNext == ITopTyped /\ [Next]_vars => [Topology!Next]_(Topology!vars)
  <1>. SUFFICES ASSUME ITopTyped, [Next]_vars
                PROVE  Topology!Next \/ UNCHANGED Topology!vars
    OBVIOUS
  <1>1. GraphInv(g) /\ GraphInv(g')
    BY TypedNext DEF ITopTyped
  <1>2. CASE Construct
    <2>1. g' = g /\ phase = "new" /\ phase' = "phase1"
      BY <1>2 DEF Construct
    <2>. QED  BY <2>1 DEF Topology!vars
  <1>3. CASE Phase1
    <2>1. Grown(g, g') /\ phase = "phase1"
      BY <1>3, Phase1Inv DEF Phase1
    <2>2. Topology!Draw
      BY <1>1, <1>3, <2>1, Phase1Adds, DrawsTopology
    <2>. QED  BY <2>2 DEF Topology!Next
  <1>4. CASE Phase1Ends
    <2>1. g' = g /\ phase = "phase1"
      BY <1>4 DEF Phase1Ends
    <2>2. Grown(g, g') /\ Adds(g, g', 0)
      BY <2>1, AddsNothing DEF Grown
    <2>3. Topology!Draw
      BY <1>1, <2>1, <2>2, DrawsTopology
    <2>. QED  BY <2>3 DEF Topology!Next
  <1>5. CASE Phase2
    <2>1. phase = "phase2" /\ phase' \in {"phase2", "failed"}
      BY <1>5 DEF Phase2, Throw
    <2>. QED  BY <1>5, <2>1, Phase2Links DEF Topology!vars
  <1>6. CASE Phase2Ends \/ Phase3Ends
    <2>1. g' = g /\ phase \in {"phase2", "phase3"} /\ phase' \in {"phase3", "done"}
      BY <1>6 DEF Phase2Ends, Phase3Ends
    <2>. QED  BY <2>1 DEF Topology!vars
  <1>7. CASE Phase3Core
    BY <1>7, MergesTopology DEF Topology!Next
  <1>8. CASE UNCHANGED vars
    BY <1>8 DEF vars, Topology!vars
  <1>. QED  BY <1>2, <1>3, <1>4, <1>5, <1>6, <1>7, <1>8 DEF Next

(* ITop implements VirtualTopology, whatever traces were measured and      *)
(* whatever throws on the way: links are drawn, of one trace at a time,    *)
(* and later nothing happens to them but that the ends of two edges are    *)
(* glued (lines 339-640).                                                  *)
THEOREM ImplementsTopology == Spec => RefinesTopology
  <1>1. Init => Topology!Init
    <2>1. Init => Nodes(g) = {} /\ Edges(g) = {} /\ phase = "new"
      BY EmptyGraphInv DEF Init
    <2>. QED  BY <2>1 DEF Topology!Init, LinksOfGraph
  <1>2. Spec => []ITopTyped
    BY ITopInit, TypedNext, PTL DEF Spec, ITopInv
  <1>. QED  BY <1>1, <1>2, TopologyNext, PTL DEF Spec, RefinesTopology, Topology!Spec
-----------------------------------------------------------------------------
(* The types of the routers.  A node that setEdge made shares its label    *)
(* with others; as long as that label says "R", a contraction of           *)
(* comparable routers leaves it alone.                                     *)
LEMMA ContractionTypes ==
    ASSUME NEW h, GraphInv(h), NEW n1 \in Nodes(h), NEW n2 \in Nodes(h), n1 # n2,
           h.default = "R", Comparable(TypeOf(h, n1), TypeOf(h, n2)),
           NEW type, type = MaxType(TypeOf(h, n1), TypeOf(h, n2)),
           NEW c, c = NodeContraction(h, n1, n2, type)
    PROVE  /\ GraphInv(c) /\ Nodes(c) = Nodes(h) \ {n2} /\ c.default = "R"
           /\ TypeOf(c, n1) = type
           /\ \A n \in Nodes(h) \ {n1, n2} : TypeOf(c, n) = TypeOf(h, n)
  <1>. DEFINE m == Moved(h, n1, n2)
              s == SetType(m, n1, type)
  <1>1. c = RemoveNode(s, n2)
    BY Zenon DEF NodeContraction, Moved
  <1>2. n1 \in Nat /\ n2 \in Nat /\ TypeOf(h, n1) \in Type /\ TypeOf(h, n2) \in Type
    BY TypeOfNode DEF GraphInv
  <1>3. type \in Type
    BY <1>2, MaxTypeIsType
  <1>4. GraphInv(c) /\ Nodes(c) = Nodes(h) \ {n2}
    BY <1>2, <1>3, NodeContractionInv
  <1>5. GraphInv(m) /\ Nodes(m) = Nodes(h)
    BY <1>2, MovedInv
  <1>6. m.default = "R" /\ \A n \in Nodes(h) : m.type[n] = h.type[n]
    BY <1>2, MovedCarries
  <1>. HIDE DEF m
  <1>7. /\ s.default = "R" /\ TypeOf(s, n1) = type
        /\ \A n \in Nodes(h) \ {n1} : TypeOf(s, n) = TypeOf(h, n)
    <2>1. CASE m.type[n1] = Default
      <3>1. TypeOf(h, n1) = "R"
        BY <1>6, <2>1 DEF TypeOf
      <3>2. type = "R"
        BY <1>2, <3>1, AnsweringStays
      <3>3. s = [m EXCEPT !.default = type]
        BY <2>1 DEF SetType
      <3>4. s.default = type /\ s.type = m.type
        BY <1>5, <3>3 DEF GraphInv
      <3>. QED  BY <1>6, <2>1, <3>2, <3>4 DEF TypeOf
    <2>2. CASE m.type[n1] # Default
      <3>1. s = [m EXCEPT !.type = [m.type EXCEPT ![n1] = type]]
        BY <2>2 DEF SetType
      <3>2. s.default = m.default /\ s.type = [m.type EXCEPT ![n1] = type]
        BY <1>5, <3>1 DEF GraphInv
      <3>3. m.type \in [Nodes(h) -> Type \cup {Default}] /\ type # Default
        BY <1>3, <1>5 DEF GraphInv, Type, Default
      <3>4. s.type[n1] = type /\ \A n \in Nodes(h) \ {n1} : s.type[n] = m.type[n]
        BY <3>2, <3>3
      <3>. QED  BY <1>6, <3>2, <3>3, <3>4 DEF TypeOf
    <2>. QED  BY <2>1, <2>2
  <1>8. GraphInv(s) /\ Nodes(s) = Nodes(h)
    BY <1>3, <1>5, SetTypeInv
  <1>. HIDE DEF s
  <1>9. c.default = s.default /\ \A n \in Nodes(h) \ {n2} : c.type[n] = s.type[n]
    BY <1>1, <1>8, RemovedCarries
  <1>. QED  BY <1>4, <1>7, <1>9 DEF TypeOf

LEMMA SwappedElement ==
    ASSUME NEW S, IsFiniteSet(S), NEW x \in S, NEW y, y \notin S
    PROVE  Cardinality((S \ {x}) \cup {y}) = Cardinality(S)
  <1>1. /\ IsFiniteSet(S \ {x}) /\ Cardinality(S \ {x}) = Cardinality(S) - 1
        /\ Cardinality(S) \in Nat
    BY FS_RemoveElement, FS_CardinalityType
  <1>2. Cardinality((S \ {x}) \cup {y}) = Cardinality(S \ {x}) + 1
    BY <1>1, FS_AddElement
  <1>. QED  BY <1>1, <1>2

(* Two routers of which at most one answered become one: as many as before *)
(* answered.                                                               *)
LEMMA ContractionCounts ==
    ASSUME NEW h, GraphInv(h), NEW n1 \in Nodes(h), NEW n2 \in Nodes(h), n1 # n2,
           h.default = "R", Comparable(TypeOf(h, n1), TypeOf(h, n2)),
           ~(TypeOf(h, n1) = "R" /\ TypeOf(h, n2) = "R"),
           NEW c, c = NodeContraction(h, n1, n2, MaxType(TypeOf(h, n1), TypeOf(h, n2)))
    PROVE  Cardinality(Answering(c)) = Cardinality(Answering(h))
  <1>. DEFINE x == TypeOf(h, n1)
              y == TypeOf(h, n2)
              A == Answering(h)
  <1>1. /\ Nodes(c) = Nodes(h) \ {n2} /\ TypeOf(c, n1) = MaxType(x, y)
        /\ \A n \in Nodes(h) \ {n1, n2} : TypeOf(c, n) = TypeOf(h, n)
    BY ContractionTypes
  <1>2. x \in Type /\ y \in Type
    BY TypeOfNode
  <1>3. IsFiniteSet(A)
    BY FS_Subset DEF GraphInv, Answering
  <1>4. MaxType(x, y) = "R" <=> x = "R" \/ y = "R"
    <2>1. x = "R" => MaxType(x, y) = "R"
      BY <1>2, AnsweringStays
    <2>2. y = "R" => MaxType(x, y) = "R"
      BY <1>2, AnsweringStays, MergeCommutes
    <2>3. MaxType(x, y) \in {x, y}
      BY DEF MaxType
    <2>. QED  BY <2>1, <2>2, <2>3
  <1>5. CASE y = "R"
    <2>1. n2 \in A /\ n1 \notin A
      BY <1>5 DEF Answering
    <2>2. Answering(c) = (A \ {n2}) \cup {n1}
      BY <1>1, <1>4, <1>5 DEF Answering
    <2>. HIDE DEF A
    <2>. QED  BY <1>3, <2>1, <2>2, SwappedElement DEF A
  <1>6. CASE y # "R"
    <2>1. Answering(c) = A
      BY <1>1, <1>4, <1>6 DEF Answering
    <2>. QED  BY <2>1
  <1>. QED  BY <1>5, <1>6

(* The first contraction of a merge of two compatible edges.               *)
LEMMA StartCounts ==
    ASSUME NEW h, GraphInv(h), h.default = "R",
           NEW ei \in Edges(h), NEW ej \in Pair, HasEdge(h, ej[1], ej[2]), Compatible(h, ei, ej),
           NEW c, c = ContractedStart(h, ei, ej)
    PROVE  /\ c.default = "R" /\ Cardinality(Answering(c)) = Cardinality(Answering(h))
           /\ \A n \in Nodes(h) \ {ei[1], ej[1]} : n \in Nodes(c) /\ TypeOf(c, n) = TypeOf(h, n)
  <1>1. ei[1] \in Nodes(h) /\ ej[1] \in Nodes(h)
    BY EdgeEnds DEF GraphInv, Pair
  <1>2. /\ Comparable(TypeOf(h, ei[1]), TypeOf(h, ej[1]))
        /\ TypeOf(h, ei[1]) = "R" /\ TypeOf(h, ej[1]) = "R" => ei[1] = ej[1]
    BY DEF Compatible, Mergeable
  <1>3. CASE ei[1] = ej[1]
    BY <1>3 DEF ContractedStart
  <1>4. CASE ei[1] # ej[1]
    <2>1. c = NodeContraction(h, ei[1], ej[1], MaxType(TypeOf(h, ei[1]), TypeOf(h, ej[1])))
      BY <1>4 DEF ContractedStart
    <2>2. Cardinality(Answering(c)) = Cardinality(Answering(h))
      BY <1>1, <1>2, <1>4, <2>1, ContractionCounts
    <2>3. /\ Nodes(c) = Nodes(h) \ {ej[1]} /\ c.default = "R"
          /\ \A n \in Nodes(h) \ {ei[1], ej[1]} : TypeOf(c, n) = TypeOf(h, n)
      BY <1>1, <1>2, <1>4, <2>1, ContractionTypes
    <2>. QED  BY <2>2, <2>3
  <1>. QED  BY <1>3, <1>4

(* The edges do not follow one another.                                    *)
Apart(ei, ej) == ei[1] # ei[2] /\ ei[1] # ej[2] /\ ei[2] # ej[1]

LEMMA MergeCounts ==
    ASSUME NEW h, GraphInv(h), h.default = "R",
           NEW ei \in Edges(h), NEW ej \in Pair, HasEdge(h, ej[1], ej[2]), Compatible(h, ei, ej),
           Apart(ei, ej), ~MergeThrows(h, ei, ej),
           NEW d, d = Merged(h, ei, ej)
    PROVE  d.default = "R" /\ Cardinality(Answering(d)) = Cardinality(Answering(h))
  <1>. DEFINE b == ContractedStart(h, ei, ej)
              c == Contracted(h, ei, ej)
              end == MaxType(TypeOf(h, ei[2]), TypeOf(h, ej[2]))
  <1>1. /\ b.default = "R" /\ Cardinality(Answering(b)) = Cardinality(Answering(h))
        /\ \A n \in Nodes(h) \ {ei[1], ej[1]} : n \in Nodes(b) /\ TypeOf(b, n) = TypeOf(h, n)
    BY StartCounts
  <1>2. GraphInv(b)
    BY ContractedStartInv
  <1>3. c = IF ei[2] = ej[2] THEN b ELSE NodeContraction(b, ei[2], ej[2], end)
    BY DEF Contracted
  <1>4. d.default = c.default /\ Answering(d) = Answering(c)
    <2>1. Nodes(d) = Nodes(c) /\ d.type = c.type /\ d.default = c.default
      BY MergedLinks
    <2>. HIDE DEF c
    <2>. QED  BY <2>1 DEF Answering, TypeOf
  <1>. HIDE DEF b, c
  <1>5. CASE ei[2] = ej[2]
    BY <1>1, <1>3, <1>4, <1>5
  <1>6. CASE ei[2] # ej[2]
    <2>1. ei[2] \in Nodes(h) /\ ej[2] \in Nodes(h)
      BY EdgeEnds DEF GraphInv, Pair
    <2>2. ei[2] \notin {ei[1], ej[1]} /\ ej[2] \notin {ei[1], ej[1]}
      BY <1>6 DEF Apart, MergeThrows
    <2>3. /\ ei[2] \in Nodes(b) /\ TypeOf(b, ei[2]) = TypeOf(h, ei[2])
          /\ ej[2] \in Nodes(b) /\ TypeOf(b, ej[2]) = TypeOf(h, ej[2])
      BY <1>1, <2>1, <2>2
    <2>4. /\ Comparable(TypeOf(b, ei[2]), TypeOf(b, ej[2]))
          /\ ~(TypeOf(b, ei[2]) = "R" /\ TypeOf(b, ej[2]) = "R")
      BY <1>6, <2>3 DEF Compatible, Mergeable
    <2>5. c = NodeContraction(b, ei[2], ej[2], MaxType(TypeOf(b, ei[2]), TypeOf(b, ej[2])))
      BY <1>3, <1>6, <2>3
    <2>6. c.default = "R"
      BY <1>1, <1>2, <1>6, <2>3, <2>4, <2>5, ContractionTypes
    <2>7. Cardinality(Answering(c)) = Cardinality(Answering(b))
      BY <1>1, <1>2, <1>6, <2>3, <2>4, <2>5, ContractionCounts
    <2>. QED  BY <1>1, <1>4, <2>6, <2>7
  <1>. QED  BY <1>5, <1>6

LEMMA RoundCounts ==
    ASSUME ITopTyped, g.default = "R", PickedPairApart, Phase3Core
    PROVE  g'.default = "R" /\ Cardinality(Answering(g')) = Cardinality(Answering(g))
  <1>. DEFINE ei == FirstEdge
              ej == SecondEdge
  <1>1. GraphInv(g) /\ ExistMergeOption(g) /\ phase = "phase3"
    BY DEF ITopTyped, Phase3Core
  <1>2. /\ ei \in Edges(g) /\ (ej # <<>> => ej \in Pair /\ HasEdge(g, ej[1], ej[2]))
    BY <1>1, PickedEdges
  <1>3. CASE g' = [g EXCEPT !.label[ei].options = <<>>]
    <2>1. g'.type = g.type /\ g'.default = g.default
      BY <1>1, <1>3 DEF GraphInv
    <2>2. Answering(g') = Answering(g)
      BY <2>1 DEF Answering, Nodes, TypeOf
    <2>. QED  BY <2>1, <2>2
  <1>4. CASE ej # <<>> /\ Compatible(g, ei, ej) /\ g' = ContractedStart(g, ei, ej)
    BY <1>1, <1>2, <1>4, StartCounts
  <1>5. CASE /\ ej # <<>> /\ Compatible(g, ei, ej) /\ ~MergeThrows(g, ei, ej)
             /\ g' = Merged(g, ei, ej)
    <2>1. Apart(ei, ej)
      BY <1>1, <1>5 DEF PickedPairApart, Apart
    <2>. QED  BY <1>1, <1>2, <1>5, <2>1, MergeCounts
  <1>6. CASE g' = g
    BY <1>6
  <1>. QED  BY <1>3, <1>4, <1>5, <1>6 DEF Phase3Core, Throw, Spliced

(* A node that setEdge creates counts as one that answered.                *)
RouterByDefault == g.default = "R"

LEMMA DefaultNext ==
    ITopTyped /\ RouterByDefault /\ PickedPairApart /\ [Next]_vars => RouterByDefault'
  <1>. SUFFICES ASSUME ITopTyped, g.default = "R", PickedPairApart, [Next]_vars
                PROVE  g'.default = "R"
    BY DEF RouterByDefault
  <1>1. CASE Phase1
    BY <1>1, Phase1Adds DEF Adds
  <1>2. CASE Phase2
    BY <1>2, Phase2Links
  <1>3. CASE Phase3Core
    BY <1>3, RoundCounts
  <1>4. CASE Construct \/ Phase1Ends \/ Phase2Ends \/ Phase3Ends \/ UNCHANGED vars
    BY <1>4 DEF Construct, Phase1Ends, Phase2Ends, Phase3Ends, vars
  <1>. QED  BY <1>1, <1>2, <1>3, <1>4 DEF Next

(* As long as the two edges that are picked do not follow one another,     *)
(* phase 3 neither makes one router of two that answered nor lets one pass *)
(* for another, in whatever order it merges, whichever of two nodes a      *)
(* contraction keeps and whichever nodes share the default label (lines    *)
(* 50-56, 172-212, 287-297 and 547-618).                                   *)
THEOREM RoutersKept == Spec /\ []PickedPairApart => RoutersKeptByPhase3
  <1>1. Init => RouterByDefault
    BY DEF Init, EmptyGraph, RouterByDefault
  <1>2. Spec => []ITopTyped
    BY ITopInit, TypedNext, PTL DEF Spec, ITopInv
  <1>3. ITopTyped /\ RouterByDefault /\ PickedPairApart /\ [Next]_vars =>
          [phase = "phase3" => Cardinality(Answering(g')) = Cardinality(Answering(g))]_vars
    <2>. SUFFICES ASSUME ITopTyped, g.default = "R", PickedPairApart, Next, phase = "phase3"
                  PROVE  Cardinality(Answering(g')) = Cardinality(Answering(g))
      BY DEF RouterByDefault
    <2>1. CASE Phase3Core
      BY <2>1, RoundCounts
    <2>2. CASE Phase3Ends
      BY <2>2 DEF Phase3Ends
    <2>. QED  BY <2>1, <2>2 DEF Next, Construct, Phase1, Phase1Ends, Phase2, Phase2Ends
  <1>. QED  BY <1>1, <1>2, <1>3, DefaultNext, PTL DEF Spec, RoutersKeptByPhase3
-----------------------------------------------------------------------------
(* The links of a path that lead from one router to another.               *)
Crosses(L, S) == \E l \in L : l[1] \in S /\ l[2] \notin S

LEMMA LeadCrosses ==
    ASSUME NEW L, NEW v, NEW w, Topology!Lead(L, v, w), NEW S, v \in S, w \notin S
    PROVE  Crosses(L, S)
  <1>. DEFINE A == Topology!Around(L, v)
              T == S \cap A
  <1>1. v \in A /\ \A l \in L : l[1] \in A /\ l[2] \in A
    BY DEF Topology!Around
  <1>2. T \in SUBSET A /\ v \in T /\ w \notin T
    BY <1>1
  <1>3. PICK l \in L : l[1] \in T /\ l[2] \notin T
    BY <1>2 DEF Topology!Lead
  <1>. HIDE DEF A
  <1>. QED  BY <1>1, <1>3 DEF Crosses

LEMMA CrossesLead ==
    ASSUME NEW L, NEW v, NEW w, \A S : v \in S /\ w \notin S => Crosses(L, S)
    PROVE  Topology!Lead(L, v, w)
  BY DEF Topology!Lead, Crosses

LEMMA LeadsNowhere == \A L, v : Topology!Lead(L, v, v)
  BY DEF Topology!Lead

LEMMA LinkLeads ==
    ASSUME NEW L, NEW v, NEW w, NEW p, <<v, w, p>> \in L
    PROVE  Topology!Lead(L, v, w)
  <1>. DEFINE l == <<v, w, p>>
  <1>1. l \in L /\ l[1] = v /\ l[2] = w
    OBVIOUS
  <1>. HIDE DEF l
  <1>2. \A S : v \in S /\ w \notin S => Crosses(L, S)
    BY <1>1 DEF Crosses
  <1>. QED  BY <1>2, CrossesLead

LEMMA LeadsOn ==
    ASSUME NEW L, NEW u, NEW v, NEW w, Topology!Lead(L, u, v), Topology!Lead(L, v, w)
    PROVE  Topology!Lead(L, u, w)
  <1>1. ASSUME NEW S, u \in S, w \notin S
        PROVE  Crosses(L, S)
    <2>1. CASE v \in S
      BY <1>1, <2>1, LeadCrosses
    <2>2. CASE v \notin S
      BY <1>1, <2>2, LeadCrosses
    <2>. QED  BY <2>1, <2>2
  <1>. QED  BY <1>1, CrossesLead

LEMMA MoreLead ==
    ASSUME NEW L, NEW M, L \subseteq M, NEW v, NEW w, Topology!Lead(L, v, w)
    PROVE  Topology!Lead(M, v, w)
  <1>1. ASSUME NEW S, v \in S, w \notin S
        PROVE  Crosses(M, S)
    BY <1>1, LeadCrosses DEF Crosses
  <1>. QED  BY <1>1, CrossesLead

(* What leads there leads back, if every link goes both ways.              *)
LEMMA LeadsBack ==
    ASSUME NEW L, \A l \in L : \E m \in L : m[1] = l[2] /\ m[2] = l[1],
           NEW v, NEW w, Topology!Lead(L, v, w)
    PROVE  Topology!Lead(L, w, v)
  <1>1. ASSUME NEW S, w \in S, v \notin S
        PROVE  Crosses(L, S)
    <2>. DEFINE A == Topology!Around(L, v)
                T == A \ S
    <2>1. v \in A /\ \A l \in L : l[1] \in A /\ l[2] \in A
      BY DEF Topology!Around
    <2>. HIDE DEF A
    <2>2. v \in T /\ w \notin T
      BY <1>1, <2>1
    <2>3. PICK l \in L : l[1] \in T /\ l[2] \notin T
      BY <2>2, LeadCrosses DEF Crosses
    <2>4. l[1] \notin S /\ l[2] \in S
      BY <2>1, <2>3
    <2>. QED  BY <2>4 DEF Crosses
  <1>. QED  BY <1>1, CrossesLead

(* Gluing keeps what leads somewhere.                                      *)
LEMMA GluedLead ==
    ASSUME NEW L, NEW a, NEW b, NEW v, NEW w, Topology!Lead(L, v, w)
    PROVE  Topology!Lead(Topology!GluedLinks(L, a, b),
                         Topology!Glue(v, a, b), Topology!Glue(w, a, b))
  <1>. DEFINE r(n) == Topology!Glue(n, a, b)
              M == Topology!GluedLinks(L, a, b)
  <1>1. M = {l \in {<<r(l[1]), r(l[2]), l[3]>> : l \in L} : l[1] # l[2]}
    BY DEF Topology!GluedLinks
  <1>. HIDE DEF r, M
  <1>2. ASSUME NEW S, r(v) \in S, r(w) \notin S
        PROVE  Crosses(M, S)
    <2>. DEFINE A == Topology!Around(L, v)
                T == {x \in A : r(x) \in S}
    <2>1. v \in A /\ \A l \in L : l[1] \in A /\ l[2] \in A
      BY DEF Topology!Around
    <2>. HIDE DEF A
    <2>2. v \in T /\ w \notin T
      BY <1>2, <2>1
    <2>3. PICK l \in L : l[1] \in T /\ l[2] \notin T
      BY <2>2, LeadCrosses DEF Crosses
    <2>4. r(l[1]) \in S /\ r(l[2]) \notin S
      BY <2>1, <2>3
    <2>. DEFINE m == <<r(l[1]), r(l[2]), l[3]>>
    <2>5. m[1] = r(l[1]) /\ m[2] = r(l[2])
      OBVIOUS
    <2>6. m \in M
      BY <1>1, <2>4, <2>5
    <2>. HIDE DEF m
    <2>. QED  BY <2>4, <2>5, <2>6 DEF Crosses
  <1>3. Topology!Lead(M, r(v), r(w))
    BY <1>2, CrossesLead
  <1>. QED  BY <1>3 DEF r, M

LEMMA GluedAlong ==
    ASSUME NEW L, NEW a, NEW b, NEW p
    PROVE  Topology!Along(Topology!GluedLinks(L, a, b), p)
              = Topology!GluedLinks(Topology!Along(L, p), a, b)
  <1>. DEFINE f(l) == <<Topology!Glue(l[1], a, b), Topology!Glue(l[2], a, b), l[3]>>
  <1>1. \A l : f(l)[3] = l[3]
    OBVIOUS
  <1>2. \A M : Topology!GluedLinks(M, a, b) = {l \in {f(l) : l \in M} : l[1] # l[2]}
    BY DEF Topology!GluedLinks
  <1>. HIDE DEF f
  <1>. QED  BY <1>1, <1>2 DEF Topology!Along

(* The links of one path in a graph.                                       *)
Led(h, path, v, w) == Topology!Lead(Topology!Along(LinksOfGraph(h), path), v, w)

LEMMA PathLinks ==
    ASSUME NEW h, GraphInv(h), NEW path, NEW L, L = Topology!Along(LinksOfGraph(h), path)
    PROVE  /\ \A v, w : <<v, w, path>> \in L <=> Linked(h, v, w, path)
           /\ \A l \in L : l = <<l[1], l[2], path>>
           /\ \A l \in L : \E m \in L : m[1] = l[2] /\ m[2] = l[1]
  <1>1. /\ \A v, w, p : <<v, w, p>> \in LinksOfGraph(h) <=> Linked(h, v, w, p)
        /\ \A l \in LinksOfGraph(h) : l = <<l[1], l[2], l[3]>>
    BY LinksAreCarried DEF Triples
  <1>2. \A v, w : <<v, w, path>> \in L <=> Linked(h, v, w, path)
    BY <1>1 DEF Topology!Along
  <1>3. \A l \in L : l = <<l[1], l[2], path>>
    BY <1>1 DEF Topology!Along
  <1>4. ASSUME NEW l \in L
        PROVE  \E m \in L : m[1] = l[2] /\ m[2] = l[1]
    <2>1. Linked(h, l[1], l[2], path)
      BY <1>2, <1>3
    <2>2. Linked(h, l[2], l[1], path)
      BY <2>1, CarriesBothWays DEF Linked
    <2>. DEFINE m == <<l[2], l[1], path>>
    <2>3. m \in L /\ m[1] = l[2] /\ m[2] = l[1]
      BY <1>2, <2>2
    <2>. HIDE DEF m
    <2>. QED  BY <2>3
  <1>. QED  BY <1>2, <1>3, <1>4

LEMMA LedBack ==
    ASSUME NEW h, GraphInv(h), NEW path, NEW v, NEW w, Led(h, path, v, w)
    PROVE  Led(h, path, w, v)
  <1>. DEFINE L == Topology!Along(LinksOfGraph(h), path)
  <1>1. \A l \in L : \E m \in L : m[1] = l[2] /\ m[2] = l[1]
    BY PathLinks
  <1>. QED  BY <1>1, LeadsBack DEF Led

LEMMA LedOn ==
    ASSUME NEW h, NEW path, NEW u, NEW v, NEW w, Led(h, path, u, v), Led(h, path, v, w)
    PROVE  Led(h, path, u, w)
  BY LeadsOn DEF Led

LEMMA LedStays ==
    ASSUME NEW h, GraphInv(h), NEW k, GraphInv(k), Grown(h, k), NEW path, NEW v, NEW w,
           Led(h, path, v, w)
    PROVE  Led(k, path, v, w)
  <1>. DEFINE L == Topology!Along(LinksOfGraph(h), path)
              M == Topology!Along(LinksOfGraph(k), path)
  <1>1. /\ \A l \in L : l = <<l[1], l[2], path>>
        /\ \A x, y : <<x, y, path>> \in L <=> Linked(h, x, y, path)
        /\ \A x, y : <<x, y, path>> \in M <=> Linked(k, x, y, path)
    BY PathLinks
  <1>. HIDE DEF L, M
  <1>2. L \subseteq M
    BY <1>1 DEF Grown, Linked
  <1>3. Topology!Lead(L, v, w)
    BY DEF Led, L
  <1>. QED  BY <1>2, <1>3, MoreLead DEF Led, M

(* A stretch leads from its first node to every other.                     *)
LEMMA StretchLeads ==
    ASSUME NEW h, GraphInv(h), NEW nodes \in Seq(Node), NEW path \in Pair,
           NEW n \in 1..Len(nodes)
    PROVE  Led(AddStretch(h, nodes, path), path, nodes[1].name, nodes[n].name)
  <1>. DEFINE k == AddStretch(h, nodes, path)
              L == Topology!Along(LinksOfGraph(k), path)
              S == {i \in Nat : i = 0 \/ Topology!Lead(L, nodes[1].name, nodes[i].name)}
  <1>1. Len(nodes) \in Nat /\ \A i \in 1..Len(nodes) : nodes[i].name \in Nat
    <2>1. \A node \in Node : node.name \in Nat
      BY DEF Node
    <2>2. Len(nodes) \in Nat /\ \A i \in 1..Len(nodes) : nodes[i] \in Node
      OBVIOUS
    <2>. QED  BY <2>1, <2>2
  <1>2. /\ GraphInv(k)
        /\ \A i \in 2..Len(nodes) : Carries(k, nodes[i-1].name, nodes[i].name, path)
    BY AddStretchInv
  <1>. HIDE DEF k
  <1>3. \A v, w : <<v, w, path>> \in L <=> Linked(k, v, w, path)
    BY <1>2, PathLinks
  <1>. HIDE DEF L
  <1>4. ASSUME NEW i \in 1..Len(nodes), i - 1 \in S
        PROVE  i \in S
    <2>1. CASE i = 1
      BY <2>1, LeadsNowhere
    <2>2. CASE i # 1
      <3>1. i \in Nat /\ i \in 2..Len(nodes) /\ i - 1 \in 1..Len(nodes)
        BY <1>1, <2>2
      <3>2. Topology!Lead(L, nodes[1].name, nodes[i-1].name)
        BY <1>4, <3>1
      <3>3. Topology!Lead(L, nodes[i-1].name, nodes[i].name)
        <4>1. CASE nodes[i-1].name = nodes[i].name
          BY <4>1, LeadsNowhere
        <4>2. CASE nodes[i-1].name # nodes[i].name
          <5>1. Linked(k, nodes[i-1].name, nodes[i].name, path)
            BY <1>1, <1>2, <3>1, <4>2 DEF Linked
          <5>2. <<nodes[i-1].name, nodes[i].name, path>> \in L
            BY <1>3, <5>1
          <5>. QED  BY <5>2, LinkLeads
        <4>. QED  BY <4>1, <4>2
      <3>4. Topology!Lead(L, nodes[1].name, nodes[i].name)
        BY <3>2, <3>3, LeadsOn
      <3>. QED  BY <3>1, <3>4
    <2>. QED  BY <2>1, <2>2
  <1>5. 0 \in S
    OBVIOUS
  <1>6. 0..Len(nodes) \subseteq S
    <2>. HIDE DEF S
    <2>. QED  BY <1>1, <1>4, <1>5, Drawing!UpToInduction
  <1>7. n \in S /\ n # 0
    BY <1>1, <1>6
  <1>. QED  BY <1>7 DEF Led, L, k
-----------------------------------------------------------------------------
(* Phase 1 draws a trace so that it leads to its destination.              *)
LEMMA ReachedLeads ==
    ASSUME ITopTyped, NEW t \in Trace, Reached(t), ReachedTrace(t)
    PROVE  Leads(g', t)
  <1>. DEFINE start == Router(Name(t.from))
              drawn == HopNodes(t.hops, anonymous)
              nodes == <<start>> \o drawn
              n == Len(t.hops)
  <1>1. /\ anonymous \in Nat /\ NamesOK /\ GraphInv(g) /\ PathName(t) \in Pair
        /\ t.hops \in Seq(Nat) /\ n \in Nat \ {0}
    BY PathNameOK DEF ITopTyped, Trace
  <1>2. nodes \in Seq(Node)
    BY <1>1, ReachedStretch
  <1>3. drawn \in Seq(Node) /\ Len(drawn) = n
    <2>1. drawn \in Seq(Node)
      BY <1>1, HopNodesOK
    <2>2. Len(drawn) = n
      BY <1>1 DEF HopNodes
    <2>. QED  BY <2>1, <2>2
  <1>4. drawn[n].name = Destination(t)
    BY <1>1 DEF HopNodes, Destination, Reached, Last
  <1>5. start.name = Name(t.from)
    BY DEF Router
  <1>6. g' = AddStretch(g, nodes, PathName(t))
    BY DEF ReachedTrace
  <1>. HIDE DEF drawn, start
  <1>7. n + 1 \in 1..Len(nodes) /\ nodes[n+1] = drawn[n] /\ nodes[1] = start
    BY <1>1, <1>3
  <1>. HIDE DEF nodes
  <1>8. Led(g', PathName(t), nodes[1].name, nodes[n+1].name)
    BY <1>1, <1>2, <1>6, <1>7, StretchLeads
  <1>. QED  BY <1>4, <1>5, <1>7, <1>8 DEF Leads, Led

LEMMA ReversedHops ==
    ASSUME NEW hops \in Seq(Nat), hops # <<>>
    PROVE  /\ Reverse(hops) \in Seq(Nat) /\ Len(Reverse(hops)) = Len(hops)
           /\ Reverse(hops)[Len(hops)] = hops[1]
  <1>1. Len(hops) \in Nat \ {0} /\ \A i \in 1..Len(hops) : hops[i] \in Nat
    OBVIOUS
  <1>2. Reverse(hops) = [i \in 1..Len(hops) |-> hops[(Len(hops) - i) + 1]]
    BY DEF Reverse
  <1>3. \A i \in 1..Len(hops) : (Len(hops) - i) + 1 \in 1..Len(hops)
    BY <1>1
  <1>4. \A i \in 1..Len(hops) : hops[(Len(hops) - i) + 1] \in Nat
    BY <1>1, <1>3
  <1>5. Reverse(hops) \in Seq(Nat) /\ Len(Reverse(hops)) = Len(hops)
    BY <1>1, <1>2, <1>4
  <1>6. Reverse(hops)[Len(hops)] = hops[1]
    BY <1>1, <1>2
  <1>. QED  BY <1>5, <1>6

LEMMA JoinedLeads ==
    ASSUME ITopTyped, NEW t \in Trace, NEW o \in Trace, Joinable(t, o), BlockedTrace(t, o),
           ~Reached(t), o.hops[1] # 0
    PROVE  Leads(g', t)
  <1>. DEFINE m == SuccessNumberBA(t, o)
              ba == SubSeq(o.hops, 1, m)
              way == WayThere(t, o)
              hidden == HiddenRouters(t, o)
              last == Router(Name(Last(ba)))
              there == Append(way, last)
              inward == HopNodes(Reverse(ba), NamedThere(t, o))
              back  == <<Last(hidden)>> \o inward
              arrival == <<Router(Name(t.to)), Router(Name(o.hops[1]))>>
              path == PathName(t)
              from == Name(t.from)
              first == Name(o.hops[1])
  <1>1. /\ anonymous \in Nat /\ NamesOK /\ GraphInv(g) /\ IsInput(input) /\ path \in Pair
        /\ way \in Seq(Node) /\ NamedThere(t, o) \in Nat
        /\ hidden \in Seq(Node) /\ Len(hidden) \in Nat \ {0}
    BY PathNameOK, WayThereOK, HiddenRoutersOK DEF ITopTyped
  <1>2. there \in Seq(Node) /\ back \in Seq(Node) /\ arrival \in Seq(Node)
    BY StretchesOK
  <1>3. m \in 1..Len(o.hops) /\ o.hops \in Seq(Nat)
    BY DEF Joinable, Trace
  <1>4. g' = AddStretch(AddStretch(AddStretch(g, there, path), back, path), arrival, path)
    BY DEF BlockedTrace
  <1>5. \A h : GraphInv(h) => \A nodes \in Seq(Node) :
            /\ GraphInv(AddStretch(h, nodes, path)) /\ Grown(h, AddStretch(h, nodes, path))
            /\ \A i \in 1..Len(nodes) :
                  Led(AddStretch(h, nodes, path), path, nodes[1].name, nodes[i].name)
    BY <1>1, AddStretchInv, StretchLeads
  <1>6. \E i \in 1..Len(there) : there[1].name = from /\ there[i] = Last(hidden)
    <2>. DEFINE start == Router(from)
                drawn == HopNodes(HopsAB(t), anonymous)
    <2>1. way = <<start>> \o drawn \o hidden /\ drawn \in Seq(Node) /\ start.name = from
      BY <1>1, AnsweredHops, HopNodesOK DEF WayThere, Router
    <2>. HIDE DEF start, drawn, way, hidden, last
    <2>2. /\ Len(way) = 1 + Len(drawn) + Len(hidden) /\ Len(drawn) \in Nat
          /\ way[1] = start /\ way[Len(way)] = hidden[Len(hidden)]
      BY <1>1, <2>1
    <2>3. /\ there[1] = way[1] /\ there[Len(way)] = way[Len(way)]
          /\ Len(way) \in 1..Len(there)
      BY <1>1, <2>2
    <2>. QED  BY <2>1, <2>2, <2>3 DEF Last
  <1>7. \E i \in 1..Len(back) : back[1] = Last(hidden) /\ back[i].name = first
    <2>1. ba \in Seq(Nat) /\ Len(ba) = m /\ ba[1] = o.hops[1] /\ m \in Nat \ {0}
      <3>. DEFINE hops == o.hops
      <3>. HIDE DEF hops, m
      <3>1. hops \in Seq(Nat) /\ m \in 1..Len(hops)
        BY <1>3 DEF hops
      <3>2. SubSeq(hops, 1, m) \in Seq(Nat)
        BY <3>1
      <3>3. Len(SubSeq(hops, 1, m)) = m /\ SubSeq(hops, 1, m)[1] = hops[1] /\ m \in Nat \ {0}
        BY <3>1
      <3>. QED  BY <3>2, <3>3 DEF hops
    <2>. HIDE DEF ba, m
    <2>2. Reverse(ba) \in Seq(Nat) /\ Len(Reverse(ba)) = m /\ Reverse(ba)[m] = o.hops[1]
      <3>1. ba # <<>>
        BY <2>1
      <3>. QED  BY <2>1, <3>1, ReversedHops
    <2>3. inward \in Seq(Node)
      BY <1>1, <2>2, HopNodesOK
    <2>4. Len(inward) = m /\ inward[m].name = first
      BY <2>1, <2>2 DEF HopNodes
    <2>. HIDE DEF inward, first, hidden
    <2>5. m + 1 \in 1..Len(back) /\ back[m+1] = inward[m] /\ back[1] = Last(hidden)
      BY <2>1, <2>3, <2>4
    <2>. QED  BY <2>4, <2>5
  <1>8. Len(arrival) = 2 /\ arrival[1].name = Name(t.to) /\ arrival[2].name = first
    BY DEF Router
  <1>9. Destination(t) = Name(t.to)
    BY DEF Destination
  <1>. HIDE DEF there, back, arrival, path, from, first, hidden
  <1>. DEFINE g1 == AddStretch(g, there, path)
              g2 == AddStretch(g1, back, path)
              g3 == AddStretch(g2, arrival, path)
              turn == Last(hidden).name
  <1>10. GraphInv(g1) /\ Led(g1, path, from, turn)
    BY <1>1, <1>2, <1>5, <1>6
  <1>11. GraphInv(g2) /\ Grown(g1, g2) /\ Led(g2, path, turn, first)
    BY <1>2, <1>5, <1>7, <1>10
  <1>12. GraphInv(g3) /\ Grown(g2, g3) /\ Led(g3, path, Name(t.to), first)
    <2>1. 2 \in 1..Len(arrival)
      BY <1>8
    <2>. QED  BY <1>2, <1>5, <1>8, <1>11, <2>1
  <1>13. g' = g3
    BY <1>4
  <1>. HIDE DEF g1, g2, g3, turn
  <1>14. Led(g3, path, from, turn) /\ Led(g3, path, turn, first)
    <2>1. Led(g2, path, from, turn)
      BY <1>10, <1>11, LedStays
    <2>. QED  BY <1>11, <1>12, <2>1, LedStays
  <1>15. Led(g3, path, first, Name(t.to))
    BY <1>12, LedBack
  <1>16. Led(g3, path, from, Name(t.to))
    BY <1>14, <1>15, LedOn
  <1>. QED  BY <1>9, <1>13, <1>16 DEF Led, Leads, path, from

(* What leads to its destination stays so while the other traces are drawn *)
(* and while options are collected.                                        *)
ToBeLed(i, flagged) ==
    \/ Reached(traces[i])
    \/ /\ i \notin flagged /\ OppositePath(traces[i]) # 0
       /\ traces[OppositePath(traces[i])].hops[1] # 0

LeadsDrawn ==
    \A i \in 1..Len(traces) : LookedAt(i) /\ ToBeLed(i, used) => Leads(g, traces[i])

LeadsInv == LeadsDrawn /\ (phase = "new" => next = 1) /\ TracesLead

LEMMA LeadsGrow ==
    ASSUME NEW h, GraphInv(h), NEW k, GraphInv(k), Grown(h, k), NEW t, Leads(h, t)
    PROVE  Leads(k, t)
  BY LedStays DEF Leads, Led

LEMMA LeadsStay ==
    ASSUME UNCHANGED <<input, names>>,
           \A i \in 1..Len(traces) : LookedAt(i)' /\ ToBeLed(i, used') => Leads(g', traces[i])
    PROVE  LeadsDrawn'
  <1>1. traces' = traces
    BY DEF traces
  <1>2. \A i : Leads(g, traces[i])' <=> Leads(g', traces[i])
    BY <1>1 DEF Leads, Destination, Reached, PathName, Name
  <1>3. \A i : ToBeLed(i, used)' <=> ToBeLed(i, used')
    <2>1. \A i : OppositePath(traces[i])' = OppositePath(traces[i])
      BY <1>1 DEF OppositePath, SelectInSeq, Name
    <2>. QED  BY <1>1, <2>1 DEF ToBeLed, Reached
  <1>. QED  BY <1>1, <1>2, <1>3 DEF LeadsDrawn

LEMMA LeadsKept ==
    ASSUME LeadsDrawn, GraphInv(g), GraphInv(g'), UNCHANGED <<input, names>>, Grown(g, g'),
           used \subseteq used', \A i \in 1..Len(traces) : LookedAt(i)' => LookedAt(i)
    PROVE  LeadsDrawn'
  <1>1. ASSUME NEW i \in 1..Len(traces), LookedAt(i)', ToBeLed(i, used')
        PROVE  Leads(g', traces[i])
    <2>1. ToBeLed(i, used)
      BY <1>1 DEF ToBeLed
    <2>. QED  BY <1>1, <2>1, LeadsGrow DEF LeadsDrawn
  <1>. QED  BY <1>1, LeadsStay

LEMMA LeadsOfPhase1 ==
    ASSUME ITopTyped, LeadsDrawn, Phase1
    PROVE  LeadsDrawn'
  <1>. DEFINE t == traces[next]
              opposite == OppositePath(t)
              o == traces[opposite]
  <1>1. /\ UNCHANGED <<input, names>> /\ phase = "phase1"
        /\ phase' = "failed" \/ (phase' = "phase1" /\ next' = next + 1)
        /\ used \subseteq used'
    <2>1. used \subseteq used'
      BY DEF Phase1, ReachedTrace
    <2>. QED  BY <2>1 DEF Phase1, Throw, NotJoined
  <1>2. Grown(g, g') /\ GraphInv(g) /\ GraphInv(g')
    BY Phase1Inv DEF ITopTyped
  <1>3. IsInput(input) /\ next \in Nat /\ next \in 1..Len(traces) /\ Len(traces) \in Nat
    <2>1. IsInput(input) /\ next \in Nat \ {0} /\ next <= Len(traces)
      BY DEF ITopTyped, Phase1
    <2>2. Len(traces) \in Nat
      BY <2>1 DEF IsInput, traces
    <2>. QED  BY <2>1, <2>2
  <1>4. t \in Trace /\ opposite \in 0..Len(traces)
    BY <1>3, TraceOK, OppositeIndex
  <1>5. ASSUME phase' # "failed", ToBeLed(next, used')
        PROVE  Leads(g', t)
    <2>1. CASE Reached(t)
      <3>1. ReachedTrace(t)
        BY <2>1 DEF Phase1
      <3>. QED  BY <1>4, <2>1, <3>1, ReachedLeads
    <2>2. CASE ~Reached(t)
      <3>1. next \notin used /\ opposite # 0 /\ o.hops[1] # 0
        BY <1>1, <1>5, <2>2 DEF ToBeLed
      <3>2. Joinable(t, o) /\ BlockedTrace(t, o)
        BY <1>1, <1>5, <2>2, <3>1 DEF Phase1, Throw, NotJoined
      <3>3. o \in Trace
        BY <1>3, <1>4, <3>1, TraceOK
      <3>. HIDE DEF t, o
      <3>. QED  BY <1>4, <2>2, <3>1, <3>2, <3>3, JoinedLeads
    <2>. QED  BY <2>1, <2>2
  <1>6. ASSUME NEW i \in 1..Len(traces), LookedAt(i)', ToBeLed(i, used')
        PROVE  Leads(g', traces[i])
    <2>1. i \in Nat /\ phase' = "phase1" /\ i < next + 1
      BY <1>1, <1>3, <1>6 DEF LookedAt
    <2>2. CASE i = next
      BY <1>5, <1>6, <2>1, <2>2
    <2>3. CASE i # next
      <3>1. LookedAt(i) /\ ToBeLed(i, used)
        BY <1>1, <1>3, <1>6, <2>1, <2>3 DEF LookedAt, ToBeLed
      <3>. QED  BY <1>2, <3>1, LeadsGrow DEF LeadsDrawn
    <2>. QED  BY <2>2, <2>3
  <1>. QED  BY <1>1, <1>6, LeadsStay

(* A merge keeps what leads from one router that is left to another.       *)
LEMMA RoundLeads ==
    ASSUME ITopTyped, PickedPairApart, Phase3Core, phase' # "failed",
           NEW path, NEW v \in Nodes(g'), NEW w \in Nodes(g'),
           v \in Nodes(g) /\ w \in Nodes(g) => Led(g, path, v, w)
    PROVE  Led(g', path, v, w)
  <1>. DEFINE ei == FirstEdge
              ej == SecondEdge
  <1>1. GraphInv(g) /\ ExistMergeOption(g) /\ phase = "phase3"
    BY DEF ITopTyped, Phase3Core
  <1>2. /\ ei \in Edges(g) /\ (ej # <<>> => ej \in Pair /\ HasEdge(g, ej[1], ej[2]))
    BY <1>1, PickedEdges
  <1>3. CASE g' = [g EXCEPT !.label[ei].options = <<>>]
    <2>1. <<>> \in Seq(Pair)
      OBVIOUS
    <2>2. GraphInv(g') /\ Nodes(g') = Nodes(g) /\ Grown(g, g')
      BY <1>1, <1>2, <1>3, <2>1, SetOptionsInv
    <2>. QED  BY <1>1, <2>2, LedStays
  <1>4. CASE /\ ej # <<>> /\ Compatible(g, ei, ej) /\ ~MergeThrows(g, ei, ej)
             /\ g' = Merged(g, ei, ej)
    <2>. DEFINE r(n) == Topology!Glue(n, ei[1], ej[1])
                s(n) == Topology!Glue(n, ei[2], ej[2])
                L == Topology!Along(LinksOfGraph(g), path)
                K == Topology!GluedLinks(LinksOfGraph(g), ei[1], ej[1])
    <2>1. ei[1] # ei[2] /\ ei[1] # ej[2] /\ ei[2] # ej[1]
      BY <1>1, <1>4 DEF PickedPairApart
    <2>2. ei[1] \in Nodes(g) /\ ei[2] \in Nodes(g)
      BY <1>1, <1>2 DEF GraphInv
    <2>3. /\ Nodes(g') = Topology!GluedNodes(Topology!GluedNodes(Nodes(g), ei[1], ej[1]),
                                             ei[2], ej[2])
          /\ LinksOfGraph(g') = Topology!GluedLinks(K, ei[2], ej[2])
      BY <1>1, <1>2, <1>4, MergeGlues
    <2>4. \A n \in Nodes(g') : n \in Nodes(g) /\ r(n) = n /\ s(n) = n
      <3>1. \A n \in Nodes(g') : \E m \in Nodes(g) : n = s(r(m))
        BY <2>3 DEF Topology!GluedNodes
      <3>. QED  BY <2>1, <2>2, <3>1 DEF Topology!Glue
    <2>5. Topology!Along(LinksOfGraph(g'), path)
            = Topology!GluedLinks(Topology!GluedLinks(L, ei[1], ej[1]), ei[2], ej[2])
      <3>1. Topology!Along(K, path) = Topology!GluedLinks(L, ei[1], ej[1])
        BY GluedAlong
      <3>. HIDE DEF K, L
      <3>. QED  BY <2>3, <3>1, GluedAlong
    <2>6. Topology!Lead(L, v, w)
      BY <2>4 DEF Led
    <2>. HIDE DEF L
    <2>7. Topology!Lead(Topology!GluedLinks(L, ei[1], ej[1]), r(v), r(w))
      BY <2>6, GluedLead
    <2>8. r(v) = v /\ r(w) = w /\ s(v) = v /\ s(w) = w
      BY <2>4
    <2>9. Topology!Lead(Topology!GluedLinks(Topology!GluedLinks(L, ei[1], ej[1]), ei[2], ej[2]),
                        s(v), s(w))
      <3>. DEFINE M == Topology!GluedLinks(L, ei[1], ej[1])
      <3>1. Topology!Lead(M, v, w)
        BY <2>7, <2>8
      <3>. HIDE DEF M
      <3>2. Topology!Lead(Topology!GluedLinks(M, ei[2], ej[2]), s(v), s(w))
        BY <3>1, GluedLead
      <3>. QED  BY <3>2 DEF M
    <2>. QED  BY <2>5, <2>8, <2>9 DEF Led
  <1>5. CASE g' = g
    BY <1>5
  <1>. QED  BY <1>3, <1>4, <1>5 DEF Phase3Core, Throw, Spliced

LEMMA TracesLeadStill ==
    ASSUME UNCHANGED <<input, names, used>>,
           \A i \in 1..Len(traces) :
              /\ phase' \in {"phase2", "phase3", "done"} /\ ToBeLed(i, used)
              /\ Name(traces[i].from) \in Nodes(g') /\ Destination(traces[i]) \in Nodes(g')
              => Leads(g', traces[i])
    PROVE  TracesLead'
  <1>1. traces' = traces
    BY DEF traces
  <1>2. \A i : Leads(g, traces[i])' <=> Leads(g', traces[i])
    BY <1>1 DEF Leads, Destination, Reached, PathName, Name
  <1>3. \A i : (Reached(traces[i]) \/ Joined(i))' <=> ToBeLed(i, used)
    <2>1. \A i : OppositePath(traces[i])' = OppositePath(traces[i])
      BY <1>1 DEF OppositePath, SelectInSeq, Name
    <2>. QED  BY <1>1, <2>1 DEF ToBeLed, Joined, LooksBack, Reached
  <1>4. \A i : /\ Name(traces[i].from)' = Name(traces[i].from)
               /\ Destination(traces[i])' = Destination(traces[i])
    BY <1>1 DEF Destination, Reached, Name
  <1>. QED  BY <1>1, <1>2, <1>3, <1>4, Zenon DEF TracesLead, Nodes

LEMMA LeadsNext == ITopTyped /\ LeadsInv /\ PickedPairApart /\ [Next]_vars => LeadsInv'
  <1>. SUFFICES ASSUME ITopTyped, LeadsInv, PickedPairApart, [Next]_vars PROVE LeadsInv'
    OBVIOUS
  <1>1. LeadsDrawn /\ (phase = "new" => next = 1) /\ TracesLead
    BY DEF LeadsInv
  <1>2. GraphInv(g) /\ GraphInv(g') /\ \A h : Grown(h, h)
    BY TypedNext DEF ITopTyped, Grown
  <1>3. phase \in {"phase2", "phase3", "done"} =>
          \A i \in 1..Len(traces) :
             /\ ToBeLed(i, used)
             /\ Name(traces[i].from) \in Nodes(g) /\ Destination(traces[i]) \in Nodes(g)
             => Leads(g, traces[i])
    BY <1>1 DEF TracesLead, ToBeLed, Joined, LooksBack
  <1>4. CASE Construct
    <2>1. next' = 1 /\ phase' = "phase1"
      BY <1>1, <1>4 DEF Construct
    <2>2. \A i \in Nat \ {0} : ~LookedAt(i)'
      BY <2>1 DEF LookedAt
    <2>3. Len(traces') \in Nat
      BY <1>4 DEF Construct, ITopTyped, IsInput, traces
    <2>. QED  BY <2>1, <2>2, <2>3 DEF LeadsInv, LeadsDrawn, TracesLead
  <1>5. CASE Phase1
    <2>1. phase' \in {"phase1", "failed"}
      BY <1>5 DEF Phase1, Throw, NotJoined
    <2>. QED  BY <1>1, <1>5, <2>1, LeadsOfPhase1 DEF LeadsInv, TracesLead
  <1>6. CASE Phase1Ends
    <2>1. /\ UNCHANGED <<input, names, g, used>> /\ phase' = "phase2"
          /\ phase = "phase1" /\ next > Len(traces) /\ next \in Nat /\ Len(traces) \in Nat
      BY <1>6 DEF Phase1Ends, ITopTyped, IsInput, traces
    <2>2. \A i \in 1..Len(traces) : LookedAt(i)
      BY <2>1 DEF LookedAt
    <2>3. LeadsDrawn'
      BY <1>1, <1>2, <2>1, <2>2, LeadsKept
    <2>4. TracesLead'
      BY <1>1, <2>1, <2>2, TracesLeadStill DEF LeadsDrawn
    <2>. QED  BY <2>1, <2>3, <2>4 DEF LeadsInv
  <1>7. CASE Phase2
    <2>1. /\ UNCHANGED <<input, names, used>> /\ Grown(g, g') /\ phase = "phase2"
          /\ phase' \in {"phase2", "failed"}
      BY <1>7, Phase2Inv DEF Phase2, Throw
    <2>2. \A i \in 1..Len(traces) : LookedAt(i)
      BY <2>1 DEF LookedAt
    <2>3. LeadsDrawn'
      BY <1>1, <1>2, <2>1, <2>2, LeadsKept
    <2>4. \A i \in 1..Len(traces) : ToBeLed(i, used) => Leads(g', traces[i])
      BY <1>1, <1>2, <2>1, <2>2, LeadsGrow DEF LeadsDrawn
    <2>5. TracesLead'
      BY <2>1, <2>4, TracesLeadStill
    <2>. QED  BY <2>1, <2>3, <2>5 DEF LeadsInv
  <1>8. CASE Phase2Ends \/ Phase3Ends
    <2>1. /\ UNCHANGED <<input, names, used, g>> /\ phase \in {"phase2", "phase3"}
          /\ phase' \in {"phase3", "done"}
      BY <1>8 DEF Phase2Ends, Phase3Ends
    <2>2. TracesLead'
      BY <1>3, <2>1, TracesLeadStill
    <2>. QED  BY <2>1, <2>2 DEF LeadsInv, LeadsDrawn, LookedAt
  <1>9. CASE Phase3Core
    <2>1. /\ UNCHANGED <<input, names, used>> /\ phase = "phase3"
          /\ phase' \in {"phase3", "failed"}
      BY <1>9 DEF Phase3Core, Throw
    <2>2. ASSUME phase' # "failed", NEW i \in 1..Len(traces), ToBeLed(i, used),
                 Name(traces[i].from) \in Nodes(g'), Destination(traces[i]) \in Nodes(g')
          PROVE  Leads(g', traces[i])
      <3>1. /\ Name(traces[i].from) \in Nodes(g) /\ Destination(traces[i]) \in Nodes(g)
            => Led(g, PathName(traces[i]), Name(traces[i].from), Destination(traces[i]))
        BY <1>3, <2>1, <2>2 DEF Leads, Led
      <3>2. Led(g', PathName(traces[i]), Name(traces[i].from), Destination(traces[i]))
        BY <1>9, <2>2, <3>1, RoundLeads
      <3>. QED  BY <3>2 DEF Leads, Led
    <2>3. TracesLead'
      BY <2>1, <2>2, TracesLeadStill
    <2>. QED  BY <2>1, <2>3 DEF LeadsInv, LeadsDrawn, LookedAt
  <1>10. CASE UNCHANGED vars
    <2>1. UNCHANGED <<input, names, used, g, phase, next>>
      BY <1>10 DEF vars
    <2>2. \A i : LookedAt(i)' <=> LookedAt(i)
      BY <2>1 DEF LookedAt
    <2>3. LeadsDrawn'
      BY <1>1, <1>2, <2>1, <2>2, LeadsKept
    <2>4. TracesLead'
      BY <1>3, <2>1, TracesLeadStill
    <2>. QED  BY <1>1, <2>1, <2>3, <2>4 DEF LeadsInv
  <1>. QED  BY <1>4, <1>5, <1>6, <1>7, <1>8, <1>9, <1>10 DEF Next

(* Phase 1 draws each trace as a way between its ends, whatever else is    *)
(* drawn over it, the hidden routers of two joined traces included; and as *)
(* long as the edges that are picked do not follow one another, no merge   *)
(* tears that way or hands it on to other routers (lines 358-471, 172-212  *)
(* and 547-618).                                                           *)
THEOREM TracesLeadThere == Spec /\ []PickedPairApart => []TracesLead
  <1>1. Init => LeadsInv
    BY DEF Init, LeadsInv, LeadsDrawn, LookedAt, TracesLead
  <1>2. Spec => []ITopTyped
    BY ITopInit, TypedNext, PTL DEF Spec, ITopInv
  <1>3. Spec /\ []PickedPairApart => []LeadsInv
    BY <1>1, <1>2, LeadsNext, PTL DEF Spec
  <1>4. LeadsInv => TracesLead
    BY DEF LeadsInv
  <1>. QED  BY <1>3, <1>4, PTL
=============================================================================

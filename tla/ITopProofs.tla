----------------------------- MODULE ITopProofs ------------------------------
(***************************************************************************)
(* Proofs about ITop, for every network and whatever traces were measured  *)
(* in it: the graph is well formed wherever a phase fails, every router    *)
(* that answered has a name and its links, and phase 3 counts down.        *)
(***************************************************************************)
EXTENDS ITop, MergeGraphProofs, FiniteSetTheorems

NamesOK == \A a \in DOMAIN names : names[a] \in Nat

ITopTyped ==
    /\ IsInput(input) /\ NamesOK
    /\ anonymous \in Nat /\ known \in Nat /\ next \in Nat \ {0}
    /\ used \subseteq 1..Len(traces)
    /\ phase \in {"new", "phase1", "phase2", "phase3", "done", "failed"}
    /\ GraphInv(g)

(* A step keeps edges from being options of their own, but for a merge     *)
(* that throws in phase 3.                                                 *)
OptionsKept ==
    NoOwnOption(g) => NoOwnOption(g') \/ (phase = "phase3" /\ phase' = "failed")

ITopInv == ITopTyped /\ (phase # "failed" => NoOwnOption(g))

LEMMA TypedIsTypeOK == ITopTyped => TypeOK
  <1>. SUFFICES ASSUME ITopTyped PROVE TypeOK
    OBVIOUS
  <1>1. /\ IsInjective(g.edges) /\ DOMAIN g.label = Edges(g)
        /\ \A n \in Nodes(g) : g.type[n] \in Type \cup {Default}
        /\ g.default \in Type
    BY DEF ITopTyped, GraphInv
  <1>2. \A e \in Edges(g) : e[1] <= e[2] /\ {e[1], e[2]} \subseteq Nodes(g)
    BY DEF ITopTyped, GraphInv
  <1>. QED  BY <1>1, <1>2 DEF TypeOK, GraphOK, ITopTyped

-----------------------------------------------------------------------------
(* Names, traces and hops.                                                 *)
Trace == [from : Nat, to : Nat, hops : Seq(Nat) \ {<<>>}]
Node == [name : Nat, type : Type]

LEMMA NameIsNat ==
    ASSUME NamesOK, NEW a \in Nat
    PROVE  Name(a) \in Nat
  BY DEF NamesOK, Name

LEMMA RouterNames ==
    ASSUME NEW n \in Nat
    PROVE  AnonRouter(n) \in Nat /\ KnownRouter(n) \in Nat
  BY DEF AnonRouter, KnownRouter, Rank

LEMMA RouterNode == \A name \in Nat : Router(name) \in Node
  BY DEF Router, Node, Type

LEMMA TraceOK ==
    ASSUME IsInput(input), NEW i \in 1..Len(traces)
    PROVE  /\ traces[i] \in Trace
           /\ traces[i].from \in Nat /\ traces[i].to \in Nat
           /\ traces[i].hops \in Seq(Nat) /\ Len(traces[i].hops) \in Nat \ {0}
  <1>1. traces \in Seq(Trace)
    BY DEF IsInput, traces, Trace
  <1>2. traces[i] \in Trace
    BY <1>1
  <1>. QED  BY <1>2 DEF Trace

LEMMA SilentIsNat ==
    ASSUME NEW hops, NEW i \in Nat
    PROVE  SilentUpTo(hops, i) \in Nat
  <1>1. IsFiniteSet(1..i)
    BY FS_Interval
  <1>2. {j \in 1..i : hops[j] = 0} \subseteq 1..i
    OBVIOUS
  <1>3. IsFiniteSet({j \in 1..i : hops[j] = 0})
    BY <1>1, <1>2, FS_Subset
  <1>. QED  BY <1>3, FS_CardinalityType DEF SilentUpTo

LEMMA AnsweredIndex ==
    ASSUME NEW hops \in Seq(Nat)
    PROVE  /\ Answered(hops) \in 0..Len(hops)
           /\ \A i \in 1..Len(hops) : hops[i] # 0 => i <= Answered(hops)
  <1>. DEFINE I == {i \in 1..Len(hops) : hops[i] # 0}
  <1>1. Answered(hops) = IF I # {} THEN Max(I) ELSE 0
    BY DEF Answered, SelectLastInSeq
  <1>2. I \in SUBSET (0..Len(hops)) /\ Len(hops) \in Nat
    OBVIOUS
  <1>3. \A i \in 1..Len(hops) : hops[i] # 0 => i \in I
    OBVIOUS
  <1>. HIDE DEF I
  <1>4. I # {} => Max(I) \in I /\ \A i \in I : Max(I) >= i
    BY <1>2, Filter!MaxIn DEF Max, Filter!Max
  <1>5. 0 \in 0..Len(hops)
    BY <1>2
  <1>6. I # {} => Max(I) \in 0..Len(hops)
    BY ONLY <1>2, <1>4, Zenon
  <1>7. Answered(hops) \in 0..Len(hops)
    BY ONLY <1>1, <1>5, <1>6, Zenon
  <1>8. ASSUME NEW i \in 1..Len(hops), hops[i] # 0
        PROVE  i <= Answered(hops)
    <2>1. i \in I
      BY <1>3, <1>8
    <2>2. Answered(hops) = Max(I) /\ Max(I) >= i
      BY <1>1, <1>4, <2>1
    <2>. QED  BY <1>2, <1>7, <2>2
  <1>. QED  BY <1>7, <1>8

(* SelectInSeq returns an index of the sequence, or 0.                     *)
LEMMA LeastIndex ==
    ASSUME NEW n \in Nat, NEW I \in SUBSET (1..n)
    PROVE  (IF I # {} THEN Min(I) ELSE 0) \in 0..n
  <1>1. I \in SUBSET Nat
    OBVIOUS
  <1>2. I # {} => Min(I) \in I
    BY <1>1, Filter!MinOf DEF Min, Filter!Min
  <1>3. 1..n \subseteq 0..n /\ 0 \in 0..n
    OBVIOUS
  <1>. QED  BY ONLY I \in SUBSET (1..n), <1>2, <1>3, Zenon

LEMMA OppositeIndex ==
    ASSUME IsInput(input), NEW t
    PROVE  OppositePath(t) \in 0..Len(traces)
  <1>. DEFINE I == {i \in 1..Len(traces) : /\ Name(traces[i].from) = Name(t.to)
                                            /\ Name(traces[i].to) = Name(t.from)}
  <1>1. OppositePath(t) = IF I # {} THEN Min(I) ELSE 0
    BY DEF OppositePath, SelectInSeq
  <1>2. Len(traces) \in Nat /\ I \in SUBSET (1..Len(traces))
    BY DEF IsInput, traces
  <1>. HIDE DEF I
  <1>. QED  BY <1>1, <1>2, LeastIndex

LEMMA PathNameOK ==
    ASSUME NamesOK, NEW t \in Trace
    PROVE  PathName(t) \in Pair /\ Name(t.from) \in Nat /\ Name(t.to) \in Nat
  <1>1. t.from \in Nat /\ t.to \in Nat
    BY DEF Trace
  <1>. QED  BY <1>1, NameIsNat DEF PathName, Pair

LEMMA DistanceIsInt ==
    ASSUME IsInput(input), NEW t
    PROVE  DistanceOf(t) \in Int
  BY DEF IsInput, DistanceOf

-----------------------------------------------------------------------------
(* A stretch of hops is drawn on the graph.                                *)
LEMMA HopNodesOK ==
    ASSUME NamesOK, NEW hops \in Seq(Nat), NEW count \in Nat
    PROVE  HopNodes(hops, count) \in Seq(Node)
  <1>1. ASSUME NEW i \in 1..Len(hops)
        PROVE  (IF hops[i] = 0
                THEN [name |-> AnonRouter(count + SilentUpTo(hops, i)), type |-> "A"]
                ELSE [name |-> Name(hops[i]), type |-> "R"]) \in Node
    <2>1. i \in Nat /\ hops[i] \in Nat
      OBVIOUS
    <2>2. AnonRouter(count + SilentUpTo(hops, i)) \in Nat
      <3>1. SilentUpTo(hops, i) \in Nat
        BY <2>1, SilentIsNat
      <3>2. count + SilentUpTo(hops, i) \in Nat
        BY <3>1
      <3>. QED  BY <3>2, RouterNames
    <2>3. Name(hops[i]) \in Nat
      BY <2>1, NameIsNat
    <2>. QED  BY <2>2, <2>3 DEF Node, Type
  <1>2. Len(hops) \in Nat
    OBVIOUS
  <1>3. HopNodes(hops, count) \in [1..Len(hops) -> Node]
    BY <1>1 DEF HopNodes
  <1>. QED  BY <1>2, <1>3

StretchStep(p, h, i) ==
    IF i = 1 THEN h
    ELSE AddHop(h, p[1][i].name, p[1][i-1].name, p[1][i].type, p[2])

Drawing == INSTANCE FoldTheorems WITH Op <- StretchStep

LEMMA StretchIsFold ==
    ASSUME NEW h, NEW nodes, NEW path
    PROVE  AddStretch(h, nodes, path)
            = Drawing!Fold(<<nodes, path>>, h, [i \in DOMAIN nodes |-> i])
  BY DEF AddStretch, StretchStep, FoldLeftDomain, FoldLeft, MapThenFoldSet, Max,
         Drawing!Fold, Drawing!FoldLeft, Drawing!MapThenFoldSet, Drawing!Max

(* An edge that a path goes through stays one.                             *)
Grown(h, k) == \A v, w, path : Carries(h, v, w, path) => Carries(k, v, w, path)

LEMMA AddHopGrows ==
    ASSUME NEW h, GraphInv(h), NEW c \in Nat, NEW p \in Nat, NEW type \in Type, NEW path \in Pair
    PROVE  /\ Grown(h, AddHop(h, c, p, type, path))
           /\ Carries(AddHop(h, c, p, type, path), p, c, path)
  <1>1. /\ Edges(AddHop(h, c, p, type, path)) = Edges(h) \cup {Canonical(p, c)}
        /\ path \in AddHop(h, c, p, type, path).label[Canonical(p, c)].path
        /\ \A d \in Edges(h) :
              h.label[d].path \subseteq AddHop(h, c, p, type, path).label[d].path
    BY AddHopInv
  <1>2. SUFFICES ASSUME NEW k, Edges(k) = Edges(h) \cup {Canonical(p, c)},
                        path \in k.label[Canonical(p, c)].path,
                        \A d \in Edges(h) : h.label[d].path \subseteq k.label[d].path
                 PROVE  Grown(h, k) /\ Carries(k, p, c, path)
    BY <1>1
  <1>3. Carries(k, p, c, path)
    BY <1>2 DEF Carries, HasEdge, LabelOf
  <1>4. Grown(h, k)
    BY <1>2 DEF Grown, Carries, HasEdge, LabelOf
  <1>. QED  BY <1>3, <1>4

(* Every two nodes that follow one another on the stretch are joined.      *)
LEMMA AddStretchInv ==
    ASSUME NEW h, GraphInv(h), NEW nodes \in Seq(Node), NEW path \in Pair
    PROVE  /\ GraphInv(AddStretch(h, nodes, path))
           /\ NoOwnOption(h) => NoOwnOption(AddStretch(h, nodes, path))
           /\ Grown(h, AddStretch(h, nodes, path))
           /\ \A i \in 2..Len(nodes) :
                 Carries(AddStretch(h, nodes, path), nodes[i-1].name, nodes[i].name, path)
  <1>. DEFINE UpTo(k, n) == \A i \in 2..n : Carries(k, nodes[i-1].name, nodes[i].name, path)
              I == [n \in Nat |-> {k \in GraphSet : /\ NoOwnOption(h) => NoOwnOption(k)
                                                    /\ Grown(h, k)
                                                    /\ UpTo(k, n)}]
              seq == [i \in DOMAIN nodes |-> i]
  <1>1. Len(nodes) \in Nat /\ DOMAIN nodes = 1..Len(nodes)
    OBVIOUS
  <1>2. seq \in Seq(Nat) /\ Len(seq) = Len(nodes) /\ \A i \in 1..Len(nodes) : seq[i] = i
    BY <1>1
  <1>3. h \in I[0]
    <2>1. h \in GraphSet /\ Grown(h, h) /\ UpTo(h, 0)
      BY GraphSetIsGraphs DEF Grown
    <2>. QED  BY <2>1
  <1>4. ASSUME NEW i \in 1..Len(nodes), NEW k \in I[i-1]
        PROVE  StretchStep(<<nodes, path>>, k, i) \in I[i]
    <2>1. i \in Nat /\ i - 1 \in Nat
      BY <1>1
    <2>2. /\ k \in GraphSet /\ (NoOwnOption(h) => NoOwnOption(k)) /\ Grown(h, k)
          /\ UpTo(k, i-1)
      BY <2>1
    <2>3. CASE i = 1
      <3>1. StretchStep(<<nodes, path>>, k, i) = k
        BY <2>3 DEF StretchStep
      <3>2. UpTo(k, 1)
        OBVIOUS
      <3>. QED  BY <2>1, <2>2, <2>3, <3>1, <3>2
    <2>4. CASE i # 1
      <3>1. i - 1 \in 1..Len(nodes)
        BY <1>1, <2>4
      <3>2. nodes[i] \in Node /\ nodes[i-1] \in Node
        BY <3>1
      <3>3. nodes[i].name \in Nat /\ nodes[i].type \in Type /\ nodes[i-1].name \in Nat
        BY <3>2 DEF Node
      <3>. DEFINE m == AddHop(k, nodes[i].name, nodes[i-1].name, nodes[i].type, path)
      <3>4. /\ GraphInv(m) /\ (NoOwnOption(k) => NoOwnOption(m))
            /\ Grown(k, m) /\ Carries(m, nodes[i-1].name, nodes[i].name, path)
        <4>1. GraphInv(k)
          BY <2>2, GraphSetIsGraphs
        <4>2. \A c, p \in Nat, type \in Type :
                /\ GraphInv(AddHop(k, c, p, type, path))
                /\ NoOwnOption(k) => NoOwnOption(AddHop(k, c, p, type, path))
                /\ Grown(k, AddHop(k, c, p, type, path))
                /\ Carries(AddHop(k, c, p, type, path), p, c, path)
          BY <4>1, AddHopInv, AddHopGrows
        <4>. QED  BY <3>3, <4>2
      <3>5. StretchStep(<<nodes, path>>, k, i) = m
        BY <2>4 DEF StretchStep
      <3>. HIDE DEF m
      <3>6. Grown(h, m)
        BY <2>2, <3>4 DEF Grown
      <3>7. UpTo(m, i)
        <4>1. \A j \in 2..i : j \in 2..(i-1) \/ j = i
          BY <2>1
        <4>. QED  BY <2>2, <3>4, <4>1 DEF Grown
      <3>8. m \in GraphSet
        BY <3>4, GraphSetIsGraphs
      <3>. HIDE DEF UpTo
      <3>. QED  BY <2>1, <2>2, <3>4, <3>5, <3>6, <3>7, <3>8
    <2>. QED  BY <2>3, <2>4
  <1>5. Drawing!Fold(<<nodes, path>>, h, seq) \in I[Len(nodes)]
    <2>. HIDE DEF I, seq
    <2>. QED  BY <1>2, <1>3, <1>4, Drawing!FoldKeeps
  <1>6. AddStretch(h, nodes, path) = Drawing!Fold(<<nodes, path>>, h, seq)
    BY StretchIsFold
  <1>7. AddStretch(h, nodes, path) \in I[Len(nodes)]
    BY <1>5, <1>6
  <1>. QED  BY <1>1, <1>7, GraphSetIsGraphs

(* The hidden routers: one B, or two N with any number of H between them.  *)
LEMMA UnknownRoutersOK ==
    ASSUME NEW n \in Int, NEW count \in Nat
    PROVE  UnknownRouters(n, count) \in Seq(Node) /\ Len(UnknownRouters(n, count)) \in Nat \ {0}
  <1>. DEFINE middle == [i \in 1..Max({n - 2, 0}) |-> "H"]
              types == IF n = 1 THEN <<"B">> ELSE <<"N">> \o middle \o <<"N">>
              routers == [i \in 1..Len(types) |-> [name |-> AnonRouter(count + i), type |-> types[i]]]
  <1>1. Max({n - 2, 0}) \in Nat
    <2>1. PICK k \in {n - 2, 0} : \A y \in {n - 2, 0} : k >= y
      OBVIOUS
    <2>2. Max({n - 2, 0}) \in {n - 2, 0} /\ Max({n - 2, 0}) >= 0
      BY <2>1, Zenon DEF Max
    <2>. QED  BY <2>2
  <1>2. middle \in Seq(Type)
    <2>. DEFINE n0 == Max({n - 2, 0})
    <2>. HIDE DEF n0
    <2>1. n0 \in Nat => [i \in 1..n0 |-> "H"] \in Seq(Type)
      BY DEF Type
    <2>. QED  BY <1>1, <2>1 DEF n0
  <1>3. <<"B">> \in Seq(Type) /\ <<"N">> \in Seq(Type) /\ Len(<<"B">>) = 1
        /\ Len(<<"N">>) = 1
    BY DEF Type
  <1>4. types \in Seq(Type) /\ Len(types) \in Nat \ {0}
    <2>. HIDE DEF middle
    <2>1. <<"N">> \o middle \o <<"N">> \in Seq(Type)
      BY <1>2, <1>3
    <2>2. Len(<<"N">> \o middle \o <<"N">>) = 1 + Len(middle) + 1 /\ Len(middle) \in Nat
      BY <1>2, <1>3
    <2>. QED  BY <1>3, <2>1, <2>2
  <1>5. UnknownRouters(n, count) = routers
    BY DEF UnknownRouters
  <1>. HIDE DEF types
  <1>6. \A i \in 1..Len(types) : [name |-> AnonRouter(count + i), type |-> types[i]] \in Node
    <2>. SUFFICES ASSUME NEW i \in 1..Len(types)
                  PROVE  [name |-> AnonRouter(count + i), type |-> types[i]] \in Node
      OBVIOUS
    <2>1. types[i] \in Type /\ count + i \in Nat
      BY <1>4
    <2>. QED  BY <2>1, RouterNames DEF Node
  <1>7. routers \in Seq(Node) /\ Len(routers) = Len(types)
    BY <1>4, <1>6
  <1>. QED  BY <1>4, <1>5, <1>7

-----------------------------------------------------------------------------
(* Phase 1: the stretches of a reached trace and of two joined ones.       *)
LEMMA ReachedStretch ==
    ASSUME NamesOK, NEW t \in Trace, anonymous \in Nat
    PROVE  <<Router(Name(t.from))>> \o HopNodes(t.hops, anonymous) \in Seq(Node)
  <1>1. Router(Name(t.from)) \in Node
    BY PathNameOK, RouterNode
  <1>2. t.hops \in Seq(Nat)
    BY DEF Trace
  <1>3. HopNodes(t.hops, anonymous) \in Seq(Node)
    BY <1>2, HopNodesOK
  <1>. QED  BY <1>1, <1>3

LEMMA AnsweredHops ==
    ASSUME NEW t \in Trace
    PROVE  HopsAB(t) \in Seq(Nat) /\ Answered(t.hops) \in Nat
  <1>1. t.hops \in Seq(Nat)
    BY DEF Trace
  <1>2. Answered(t.hops) \in 0..Len(t.hops)
    BY <1>1, AnsweredIndex
  <1>. QED  BY <1>1, <1>2 DEF HopsAB

LEMMA HiddenRoutersOK ==
    ASSUME IsInput(input), anonymous \in Nat, NEW t \in Trace, NEW o \in Trace
    PROVE  HiddenRouters(t, o) \in Seq(Node) /\ Len(HiddenRouters(t, o)) \in Nat \ {0}
  <1>. DEFINE n == DistanceOf(t) - Answered(t.hops) - SuccessNumberBA(t, o)
              count == anonymous + SilentUpTo(HopsAB(t), Answered(t.hops))
  <1>1. /\ Answered(t.hops) \in Nat /\ Answered(o.hops) \in Nat
        /\ Len(t.hops) \in Nat /\ Len(o.hops) \in Nat
    BY AnsweredHops DEF Trace
  <1>2. SuccessNumberBA(t, o) \in Int
    BY <1>1 DEF SuccessNumberBA
  <1>3. n \in Int
    BY <1>1, <1>2, DistanceIsInt
  <1>4. SilentUpTo(HopsAB(t), Answered(t.hops)) \in Nat
    BY <1>1, SilentIsNat
  <1>5. count \in Nat
    BY <1>4
  <1>6. HiddenRouters(t, o) = UnknownRouters(n, count)
    BY DEF HiddenRouters
  <1>. HIDE DEF n, count
  <1>. QED  BY <1>3, <1>5, <1>6, UnknownRoutersOK

LEMMA WayThereOK ==
    ASSUME IsInput(input), NamesOK, anonymous \in Nat, NEW t \in Trace, NEW o \in Trace
    PROVE  WayThere(t, o) \in Seq(Node) /\ NamedThere(t, o) \in Nat
  <1>1. HopNodes(HopsAB(t), anonymous) \in Seq(Node)
    BY AnsweredHops, HopNodesOK
  <1>2. Router(Name(t.from)) \in Node
    BY PathNameOK, RouterNode
  <1>3. HiddenRouters(t, o) \in Seq(Node) /\ Len(HiddenRouters(t, o)) \in Nat
    BY HiddenRoutersOK
  <1>4. SilentUpTo(HopsAB(t), Answered(t.hops)) \in Nat
    BY AnsweredHops, SilentIsNat
  <1>5. WayThere(t, o) \in Seq(Node)
    BY <1>1, <1>2, <1>3 DEF WayThere
  <1>. QED  BY <1>3, <1>4, <1>5 DEF NamedThere

(* What a step of phase 1 leaves of the graph and of anonRouter's counter. *)
LEMMA ReachedTraceInv ==
    ASSUME ITopTyped, NEW t \in Trace, ReachedTrace(t)
    PROVE  GraphInv(g') /\ anonymous' \in Nat /\ (NoOwnOption(g) => NoOwnOption(g')) /\ Grown(g, g')
  <1>1. anonymous \in Nat /\ NamesOK /\ GraphInv(g)
    BY DEF ITopTyped
  <1>2. <<Router(Name(t.from))>> \o HopNodes(t.hops, anonymous) \in Seq(Node)
    BY <1>1, ReachedStretch
  <1>3. PathName(t) \in Pair
    BY <1>1, PathNameOK
  <1>4. GraphInv(g') /\ (NoOwnOption(g) => NoOwnOption(g')) /\ Grown(g, g')
    BY <1>1, <1>2, <1>3, AddStretchInv DEF ReachedTrace
  <1>5. SilentUpTo(t.hops, Len(t.hops)) \in Nat
    BY SilentIsNat DEF Trace
  <1>. QED  BY <1>1, <1>4, <1>5 DEF ReachedTrace

LEMMA StretchesOK ==
    ASSUME ITopTyped, NEW t \in Trace, NEW o \in Trace, Joinable(t, o)
    PROVE  LET ba == SubSeq(o.hops, 1, SuccessNumberBA(t, o))
           IN /\ Append(WayThere(t, o), Router(Name(Last(ba)))) \in Seq(Node)
              /\ <<Last(HiddenRouters(t, o))>> \o HopNodes(Reverse(ba), NamedThere(t, o))
                    \in Seq(Node)
              /\ <<Router(Name(t.to)), Router(Name(o.hops[1]))>> \in Seq(Node)
              /\ ba \in Seq(Nat) /\ Len(ba) \in Nat
  <1>. DEFINE ba == SubSeq(o.hops, 1, SuccessNumberBA(t, o))
  <1>1. /\ anonymous \in Nat /\ NamesOK /\ IsInput(input)
        /\ WayThere(t, o) \in Seq(Node) /\ NamedThere(t, o) \in Nat
    BY WayThereOK DEF ITopTyped
  <1>2. SuccessNumberBA(t, o) \in 1..Len(o.hops) /\ o.hops \in Seq(Nat) /\ o.hops # <<>>
    BY DEF Joinable, Trace
  <1>3. ba \in Seq(Nat) /\ Len(ba) \in Nat \ {0} /\ o.hops[1] \in Nat
    BY <1>2
  <1>. HIDE DEF ba
  <1>4. Last(ba) \in Nat /\ Reverse(ba) \in Seq(Nat)
    BY <1>3 DEF Last, Reverse
  <1>5. Append(WayThere(t, o), Router(Name(Last(ba)))) \in Seq(Node)
    <2>1. Router(Name(Last(ba))) \in Node
      BY <1>1, <1>4, NameIsNat, RouterNode
    <2>. QED  BY <1>1, <2>1
  <1>6. <<Last(HiddenRouters(t, o))>> \o HopNodes(Reverse(ba), NamedThere(t, o)) \in Seq(Node)
    <2>1. HopNodes(Reverse(ba), NamedThere(t, o)) \in Seq(Node)
      BY <1>1, <1>4, HopNodesOK
    <2>2. Last(HiddenRouters(t, o)) \in Node
      BY <1>1, HiddenRoutersOK DEF Last
    <2>. QED  BY <2>1, <2>2
  <1>7. <<Router(Name(t.to)), Router(Name(o.hops[1]))>> \in Seq(Node)
    <2>1. Router(Name(t.to)) \in Node /\ Router(Name(o.hops[1])) \in Node
      BY <1>1, <1>3, PathNameOK, NameIsNat, RouterNode
    <2>. QED  BY <2>1
  <1>. QED  BY <1>3, <1>5, <1>6, <1>7 DEF ba

LEMMA BlockedTraceInv ==
    ASSUME ITopTyped, NEW t \in Trace, NEW o \in Trace, Joinable(t, o), BlockedTrace(t, o)
    PROVE  GraphInv(g') /\ anonymous' \in Nat /\ (NoOwnOption(g) => NoOwnOption(g')) /\ Grown(g, g')
  <1>. DEFINE ba == SubSeq(o.hops, 1, SuccessNumberBA(t, o))
              there == Append(WayThere(t, o), Router(Name(Last(ba))))
              back  == <<Last(HiddenRouters(t, o))>> \o HopNodes(Reverse(ba), NamedThere(t, o))
              arrival == <<Router(Name(t.to)), Router(Name(o.hops[1]))>>
              path == PathName(t)
  <1>1. /\ anonymous \in Nat /\ NamesOK /\ GraphInv(g) /\ IsInput(input)
        /\ NamedThere(t, o) \in Nat /\ path \in Pair
    BY WayThereOK, PathNameOK DEF ITopTyped
  <1>2. /\ there \in Seq(Node) /\ back \in Seq(Node) /\ arrival \in Seq(Node)
        /\ ba \in Seq(Nat) /\ Len(ba) \in Nat
    BY StretchesOK
  <1>3. g' = AddStretch(AddStretch(AddStretch(g, there, path), back, path), arrival, path)
    BY DEF BlockedTrace
  <1>4. anonymous' = NamedThere(t, o) + SilentUpTo(ba, Len(ba))
    BY DEF BlockedTrace
  <1>. HIDE DEF ba, there, back, arrival, path
  <1>5. \A h : GraphInv(h) => \A nodes \in Seq(Node) :
            /\ GraphInv(AddStretch(h, nodes, path))
            /\ NoOwnOption(h) => NoOwnOption(AddStretch(h, nodes, path))
            /\ Grown(h, AddStretch(h, nodes, path))
    BY <1>1, AddStretchInv
  <1>6. GraphInv(g') /\ (NoOwnOption(g) => NoOwnOption(g')) /\ Grown(g, g')
    BY <1>1, <1>2, <1>3, <1>5 DEF Grown
  <1>7. SilentUpTo(ba, Len(ba)) \in Nat
    BY <1>2, SilentIsNat
  <1>. QED  BY <1>1, <1>4, <1>6, <1>7

LEMMA NotJoinedInv ==
    ASSUME ITopTyped, NEW t \in Trace, NEW o \in Trace, NotJoined(t, o)
    PROVE  GraphInv(g') /\ anonymous' \in Nat /\ (NoOwnOption(g) => NoOwnOption(g')) /\ Grown(g, g')
  <1>1. /\ anonymous \in Nat /\ NamesOK /\ GraphInv(g) /\ IsInput(input)
        /\ WayThere(t, o) \in Seq(Node) /\ NamedThere(t, o) \in Nat
    BY WayThereOK DEF ITopTyped
  <1>2. CASE ~AnyAnswer(t, o)
    BY <1>1, <1>2 DEF NotJoined, Throw, Grown
  <1>3. CASE AnyAnswer(t, o)
    <2>1. PathName(t) \in Pair
      BY <1>1, PathNameOK
    <2>2. g' = AddStretch(g, WayThere(t, o), PathName(t)) /\ anonymous' = NamedThere(t, o)
      BY <1>3 DEF NotJoined, Throw
    <2>. QED  BY <1>1, <2>1, <2>2, AddStretchInv
  <1>. QED  BY <1>2, <1>3

-----------------------------------------------------------------------------
(* The constructor: the addresses it names, in the order it meets them.    *)
NewStep(have, s, a) ==
    IF a = 0 \/ a \in have \cup ToSet(s) THEN s ELSE Append(s, a)

NewHops == INSTANCE FoldTheorems WITH Op <- NewStep

NewOfStep(have, s, t) == NewHops!Fold(have, s, t.hops)

NewTraces == INSTANCE FoldTheorems WITH Op <- NewOfStep

LEMMA UnnamedIsFold == Unnamed = NewTraces!Fold(DOMAIN names, <<>>, traces)
  BY DEF Unnamed, NewOfStep, NewStep, FoldLeft, MapThenFoldSet, Max,
         NewTraces!Fold, NewTraces!FoldLeft, NewTraces!MapThenFoldSet, NewTraces!Max,
         NewHops!Fold, NewHops!FoldLeft, NewHops!MapThenFoldSet, NewHops!Max

(* The lists of new addresses: no address twice, none with a name.         *)
NewLists(have) == {s \in Seq(Nat \ {0}) : IsInjective(s) /\ ToSet(s) \cap have = {}}

(* One trace adds its hops that answered to the list, and takes none away. *)
LEMMA NewHopsListed ==
    ASSUME NEW have, NEW s \in NewLists(have), NEW hops \in Seq(Nat)
    PROVE  /\ NewHops!Fold(have, s, hops) \in NewLists(have)
           /\ ToSet(s) \cup (ToSet(hops) \ {0}) \subseteq ToSet(NewHops!Fold(have, s, hops)) \cup have
  <1>. DEFINE First(i) == {hops[j] : j \in 1..i}
              I == [i \in Nat |->
                      {r \in NewLists(have) :
                          ToSet(s) \cup (First(i) \ {0}) \subseteq ToSet(r) \cup have}]
  <1>1. Len(hops) \in Nat /\ ToSet(hops) = First(Len(hops))
    BY Elements
  <1>2. s \in I[0]
    BY <1>1
  <1>3. ASSUME NEW i \in 1..Len(hops), NEW r \in I[i-1]
        PROVE  NewStep(have, r, hops[i]) \in I[i]
    <2>1. i \in Nat /\ i - 1 \in Nat /\ hops[i] \in Nat
      BY <1>1
    <2>2. /\ r \in Seq(Nat \ {0}) /\ IsInjective(r) /\ ToSet(r) \cap have = {}
          /\ ToSet(s) \cup (First(i-1) \ {0}) \subseteq ToSet(r) \cup have
      BY <2>1 DEF NewLists
    <2>3. First(i) = First(i-1) \cup {hops[i]}
      <3>1. \A j : j \in 1..i <=> j \in 1..(i-1) \/ j = i
        BY <2>1
      <3>. QED  BY <3>1
    <2>. HIDE DEF First
    <2>4. CASE hops[i] = 0 \/ hops[i] \in have \cup ToSet(r)
      <3>1. NewStep(have, r, hops[i]) = r
        BY <2>4 DEF NewStep
      <3>. QED  BY <2>1, <2>2, <2>3, <2>4, <3>1
    <2>5. CASE ~(hops[i] = 0 \/ hops[i] \in have \cup ToSet(r))
      <3>. DEFINE q == Append(r, hops[i])
      <3>1. NewStep(have, r, hops[i]) = q
        BY <2>5 DEF NewStep
      <3>2. hops[i] \in Nat \ {0}
        BY <2>1, <2>5
      <3>3. q \in Seq(Nat \ {0}) /\ IsInjective(q) /\ ToSet(q) = ToSet(r) \cup {hops[i]}
        BY <2>2, <2>5, <3>2, AppendElements
      <3>. HIDE DEF q
      <3>4. q \in NewLists(have)
        BY <2>2, <2>5, <3>3 DEF NewLists
      <3>. QED  BY <2>1, <2>2, <2>3, <3>1, <3>3, <3>4
    <2>. QED  BY <2>4, <2>5
  <1>4. NewHops!Fold(have, s, hops) \in I[Len(hops)]
    <2>. HIDE DEF I
    <2>. QED  BY <1>2, <1>3, NewHops!FoldKeeps
  <1>. QED  BY <1>1, <1>4

(* Unnamed lists the addresses without a name that answered, each once.    *)
LEMMA UnnamedListed ==
    ASSUME IsInput(input)
    PROVE  /\ Unnamed \in NewLists(DOMAIN names)
           /\ \A i \in 1..Len(traces) :
                 ToSet(traces[i].hops) \ {0} \subseteq DOMAIN names \cup ToSet(Unnamed)
  <1>. DEFINE have == DOMAIN names
              I == [i \in Nat |->
                      {r \in NewLists(have) : \A j \in 1..i :
                          ToSet(traces[j].hops) \ {0} \subseteq ToSet(r) \cup have}]
  <1>1. traces \in Seq(Trace) /\ Len(traces) \in Nat
    BY DEF IsInput, traces, Trace
  <1>2. <<>> \in I[0]
    <2>1. <<>> \in NewLists(have)
      BY DEF NewLists, IsInjective, ToSet
    <2>2. 1..0 = {}
      OBVIOUS
    <2>. QED  BY <2>1, <2>2
  <1>3. ASSUME NEW i \in 1..Len(traces), NEW r \in I[i-1]
        PROVE  NewOfStep(have, r, traces[i]) \in I[i]
    <2>. DEFINE q == NewHops!Fold(have, r, traces[i].hops)
    <2>1. i \in Nat /\ i - 1 \in Nat /\ \A j \in 1..i : j \in 1..(i-1) \/ j = i
      BY <1>1
    <2>2. /\ r \in NewLists(have)
          /\ \A j \in 1..(i-1) : ToSet(traces[j].hops) \ {0} \subseteq ToSet(r) \cup have
      BY <2>1
    <2>3. /\ q \in NewLists(have)
          /\ ToSet(r) \cup (ToSet(traces[i].hops) \ {0}) \subseteq ToSet(q) \cup have
      BY <2>2, TraceOK, NewHopsListed
    <2>4. NewOfStep(have, r, traces[i]) = q
      BY DEF NewOfStep
    <2>. HIDE DEF q
    <2>5. \A j \in 1..i : ToSet(traces[j].hops) \ {0} \subseteq ToSet(q) \cup have
      BY <2>1, <2>2, <2>3
    <2>. QED  BY <2>1, <2>3, <2>4, <2>5
  <1>4. NewTraces!Fold(have, <<>>, traces) \in I[Len(traces)]
    <2>. HIDE DEF I
    <2>. QED  BY <1>1, <1>2, <1>3, NewTraces!FoldKeeps
  <1>. QED  BY <1>1, <1>4, UnnamedIsFold
(* The new names are numbers, and two new names are never the same.        *)
LEMMA ConstructInv ==
    ASSUME ITopTyped, Construct
    PROVE  ITopTyped' /\ OptionsKept
  <1>1. /\ IsInput(input) /\ NamesOK /\ known \in Nat /\ phase' = "phase1"
        /\ UNCHANGED <<input, anonymous, used, g, next>>
    BY DEF ITopTyped, Construct
  <1>2. Unnamed \in Seq(Nat \ {0}) /\ Len(Unnamed) \in Nat
    BY <1>1, UnnamedListed DEF NewLists
  <1>3. ASSUME NEW a
        PROVE  KnownRouter(known + SelectInSeq(Unnamed, LAMBDA b : b = a)) \in Nat
    <2>. DEFINE I == {i \in 1..Len(Unnamed) : Unnamed[i] = a}
                n == SelectInSeq(Unnamed, LAMBDA b : b = a)
    <2>1. n = IF I # {} THEN Min(I) ELSE 0
      BY DEF SelectInSeq
    <2>2. I \in SUBSET (1..Len(Unnamed))
      OBVIOUS
    <2>. HIDE DEF I, n
    <2>3. n \in 0..Len(Unnamed)
      BY <1>2, <2>1, <2>2, LeastIndex
    <2>4. known + n \in Nat
      BY <1>1, <1>2, <2>3
    <2>. QED  BY <2>4, RouterNames DEF n
  <1>4. NamesOK'
    <2>. DEFINE N(a) == KnownRouter(known + SelectInSeq(Unnamed, LAMBDA b : b = a))
    <2>1. names' = [a \in DOMAIN names \cup ToSet(Unnamed) |->
                       IF a \in DOMAIN names THEN names[a] ELSE N(a)]
      BY DEF Construct
    <2>2. \A a : N(a) \in Nat
      BY <1>3
    <2>. HIDE DEF N
    <2>. QED  BY <1>1, <2>1, <2>2 DEF NamesOK
  <1>5. known' \in Nat
    BY <1>1, <1>2 DEF Construct
  <1>. QED  BY <1>1, <1>4, <1>5 DEF ITopTyped, OptionsKept, traces

LEMMA Phase1Inv ==
    ASSUME ITopTyped, Phase1
    PROVE  ITopTyped' /\ OptionsKept /\ Grown(g, g')
  <1>. DEFINE t == traces[next]
              opposite == OppositePath(t)
              o == traces[opposite]
  <1>1. /\ IsInput(input) /\ NamesOK /\ anonymous \in Nat /\ known \in Nat
        /\ next \in Nat \ {0} /\ used \subseteq 1..Len(traces) /\ GraphInv(g)
        /\ phase = "phase1" /\ next <= Len(traces) /\ input' = input
    BY DEF ITopTyped, Phase1
  <1>2. Len(traces) \in Nat /\ next \in 1..Len(traces)
    BY <1>1 DEF IsInput, traces
  <1>3. t \in Trace
    BY <1>1, <1>2, TraceOK
  <1>4. opposite \in 0..Len(traces)
    BY <1>1, OppositeIndex
  <1>5. names' = names /\ known' = known
    BY DEF Phase1, Throw, NotJoined
  <1>6. next' \in Nat \ {0} /\ phase' \in {"phase1", "failed"}
    BY <1>1 DEF Phase1, Throw, NotJoined
  <1>7. /\ used' \subseteq 1..Len(traces)
        /\ GraphInv(g') /\ anonymous' \in Nat
        /\ (NoOwnOption(g) => NoOwnOption(g')) /\ Grown(g, g')
    <2>1. CASE Reached(t) /\ ReachedTrace(t)
      <3>1. used' = used
        BY <2>1 DEF ReachedTrace
      <3>. QED  BY <1>1, <1>3, <2>1, <3>1, ReachedTraceInv
    <2>2. CASE UNCHANGED <<g, anonymous, used>>
      BY <1>1, <2>2 DEF Grown
    <2>3. CASE Throw(g) /\ UNCHANGED <<anonymous, used>>
      BY <1>1, <2>3 DEF Throw, Grown
    <2>4. CASE /\ opposite # 0
               /\ used' = used \cup Flags(opposite)
               /\ \/ Joinable(t, o) /\ BlockedTrace(t, o)
                  \/ ~Joinable(t, o) /\ NotJoined(t, o)
      <3>1. opposite \in 1..Len(traces)
        BY <1>2, <1>4, <2>4
      <3>2. used' \subseteq 1..Len(traces)
        BY <1>1, <2>4, <3>1 DEF Flags
      <3>3. o \in Trace
        BY <1>1, <3>1, TraceOK
      <3>. HIDE DEF t, o, opposite
      <3>. QED  BY <1>3, <2>4, <3>2, <3>3, BlockedTraceInv, NotJoinedInv
    <2>. QED  BY <2>1, <2>2, <2>3, <2>4 DEF Phase1
  <1>. QED  BY <1>1, <1>5, <1>6, <1>7 DEF ITopTyped, OptionsKept, NamesOK, traces

-----------------------------------------------------------------------------
(* Phase 2 changes nothing but the options of one edge.                    *)
LEMMA SetOptionsInv ==
    ASSUME NEW h, GraphInv(h), NEW e \in Edges(h), NEW options \in Seq(Pair)
    PROVE  LET r == [h EXCEPT !.label[e].options = options]
           IN /\ GraphInv(r) /\ Nodes(r) = Nodes(h) /\ r.edges = h.edges
              /\ r.label[e].options = options
              /\ \A d \in Edges(h) \ {e} : r.label[d] = h.label[d]
              /\ Grown(h, r)
              /\ NoOwnOption(h) /\ (\A o \in ToSet(options) : ~SameEdge(o, e)) => NoOwnOption(r)
  <1>. DEFINE l == [h.label EXCEPT ![e].options = options]
              r == [type |-> h.type, default |-> h.default, edges |-> h.edges, label |-> l]
  <1>1. [h EXCEPT !.label = l] = r
    BY ChangedGraph
  <1>2. [h EXCEPT !.label[e].options = options] = [h EXCEPT !.label = l]
    OBVIOUS
  <1>3. l \in [Edges(h) -> Labels]
    <2>1. h.label \in [Edges(h) -> Labels]
      BY DEF GraphInv
    <2>2. [h.label[e] EXCEPT !.options = options] \in Labels
      BY <2>1 DEF Labels
    <2>. QED  BY <2>1, <2>2
  <1>6. /\ l[e].options = options /\ l[e].path = h.label[e].path
        /\ \A d \in Edges(h) \ {e} : l[d] = h.label[d]
    BY DEF GraphInv, Labels
  <1>. HIDE DEF l
  <1>4. Nodes(r) = Nodes(h) /\ Edges(r) = Edges(h)
    BY DEF Nodes, Edges
  <1>5. GraphInv(r)
    BY <1>3, <1>4 DEF GraphInv
  <1>7. NoOwnOption(h) /\ (\A o \in ToSet(options) : ~SameEdge(o, e)) => NoOwnOption(r)
    BY <1>4, <1>6 DEF NoOwnOption
  <1>8. Grown(h, r)
    BY <1>4, <1>6 DEF Grown, Carries, HasEdge, LabelOf
  <1>. QED  BY <1>1, <1>2, <1>4, <1>5, <1>6, <1>7, <1>8

LEMMA OptionsListed ==
    ASSUME GraphInv(g), NEW e \in Edges(g)
    PROVE  /\ MergeOptions(e) \in Seq(Pair) /\ OptionsBefore(e) \in Seq(Pair)
           /\ \A o \in ToSet(MergeOptions(e)) \cup ToSet(OptionsBefore(e)) : ~SameEdge(o, e)
  <1>1. g.edges \in Seq(Pair) /\ Len(g.edges) \in Nat
    BY DEF GraphInv
  <1>2. /\ MergeOptions(e) \in Seq(Pair)
        /\ ToSet(MergeOptions(e)) \subseteq Edges(g) \cap Tried(e)
    BY <1>1, OnlyElements DEF MergeOptions, Edges
  <1>. DEFINE Throws(f) == f \in Tried(e) /\ MergeThrows(Copied(g), e, f)
              I == {i \in 1..Len(g.edges) : Throws(g.edges[i])}
              k == SelectInSeq(g.edges, Throws)
              before == SubSeq(g.edges, 1, k - 1)
  <1>3. k \in 0..Len(g.edges)
    <2>1. k = IF I # {} THEN Min(I) ELSE 0
      BY DEF SelectInSeq
    <2>2. I \in SUBSET (1..Len(g.edges))
      OBVIOUS
    <2>. HIDE DEF I, k
    <2>. QED  BY <1>1, <2>1, <2>2, LeastIndex
  <1>4. before \in Seq(Pair) /\ ToSet(before) \subseteq Edges(g)
    <2>. HIDE DEF k
    <2>1. k - 1 <= Len(g.edges) /\ k - 1 \in Int
      BY <1>1, <1>3
    <2>2. before \in Seq(Edges(g))
      <3>1. g.edges \in Seq(Edges(g))
        BY <1>1, Elements DEF Edges
      <3>. QED  BY <1>1, <2>1, <3>1
    <2>3. before \in Seq(Pair)
      BY <1>1, <2>1
    <2>. QED  BY <2>2, <2>3, Elements
  <1>5. OptionsBefore(e)
          = Only(before, {f \in Tried(e) \cap ToSet(before) : DistancesKept(e, f)})
    BY DEF OptionsBefore
  <1>. HIDE DEF before
  <1>6. /\ OptionsBefore(e) \in Seq(Pair)
        /\ ToSet(OptionsBefore(e)) \subseteq Edges(g) \cap Tried(e)
    BY <1>4, <1>5, OnlyElements
  <1>7. \A o \in Edges(g) \cap Tried(e) : ~SameEdge(o, e)
    BY EdgesArePairs DEF Tried, SameEdge
  <1>. QED  BY <1>2, <1>6, <1>7

LEMMA Phase2Inv ==
    ASSUME ITopTyped, Phase2
    PROVE  ITopTyped' /\ OptionsKept /\ Grown(g, g')
  <1>. DEFINE e == g.edges[next]
  <1>1. /\ IsInput(input) /\ NamesOK /\ anonymous \in Nat /\ known \in Nat
        /\ next \in Nat \ {0} /\ used \subseteq 1..Len(traces) /\ GraphInv(g)
        /\ phase = "phase2" /\ next <= Len(g.edges)
        /\ UNCHANGED <<input, anonymous, used>>
    BY DEF ITopTyped, Phase2
  <1>2. e \in Edges(g)
    BY <1>1 DEF GraphInv, Edges, ToSet
  <1>3. \A options \in Seq(Pair) :
            LET r == [g EXCEPT !.label[e].options = options]
            IN /\ GraphInv(r) /\ Grown(g, r)
               /\ NoOwnOption(g) /\ (\A o \in ToSet(options) : ~SameEdge(o, e)) => NoOwnOption(r)
    BY <1>1, <1>2, SetOptionsInv
  <1>4. /\ MergeOptions(e) \in Seq(Pair) /\ OptionsBefore(e) \in Seq(Pair)
        /\ \A o \in ToSet(MergeOptions(e)) \cup ToSet(OptionsBefore(e)) : ~SameEdge(o, e)
    BY <1>1, <1>2, OptionsListed
  <1>5. \/ g' = [g EXCEPT !.label[e].options = OptionsBefore(e)]
        \/ g' = [g EXCEPT !.label[e].options = MergeOptions(e)]
    BY DEF Phase2, Throw
  <1>6. /\ names' = names /\ known' = known /\ next' \in Nat \ {0}
        /\ phase' \in {"phase2", "failed"}
    BY <1>1 DEF Phase2, Throw
  <1>7. GraphInv(g') /\ Grown(g, g') /\ (NoOwnOption(g) => NoOwnOption(g'))
    BY <1>3, <1>4, <1>5
  <1>. QED  BY <1>1, <1>6, <1>7 DEF ITopTyped, OptionsKept, NamesOK, traces

-----------------------------------------------------------------------------
(* Phase 3 picks two edges of the graph.                                   *)
LEMMA PickedEdges ==
    ASSUME GraphInv(g), ExistMergeOption(g)
    PROVE  /\ FirstEdge \in Edges(g)
           /\ SecondEdge # <<>> =>
                SecondEdge \in Pair /\ HasEdge(g, SecondEdge[1], SecondEdge[2])
           /\ g.label[FirstEdge].options # <<>>
           /\ NoOwnOption(g) => FirstEdge # SecondEdge
  <1>1. g.edges \in Seq(Pair)
    BY DEF GraphInv
  <1>2. FirstEdge \in Edges(g) /\ Options(g, FirstEdge) # <<>>
    BY <1>1, LeastOptionsPicked DEF FirstEdge, ExistMergeOption, Edges
  <1>. DEFINE options == Options(g, FirstEdge)
  <1>3. options \in Seq(Pair) /\ options = g.label[FirstEdge].options
    <2>1. Canonical(FirstEdge[1], FirstEdge[2]) = FirstEdge
      BY <1>2, EdgesArePairs
    <2>2. g.label[FirstEdge] \in Labels
      BY <1>2 DEF GraphInv
    <2>. QED  BY <2>1, <2>2 DEF Options, LabelOf, Labels
  <1>4. SecondEdge = EdgeWithLessMergeOptions(g, options)
    BY DEF SecondEdge
  <1>. HIDE DEF options
  <1>5. SecondEdge # <<>> => /\ SecondEdge \in ToSet(options)
                             /\ HasEdge(g, SecondEdge[1], SecondEdge[2])
    BY <1>3, <1>4, LeastOptionsPicked
  <1>6. FirstEdge # <<>>
    BY <1>2, EdgesArePairs DEF Pair
  <1>7. NoOwnOption(g) => FirstEdge # SecondEdge
    <2>. SUFFICES ASSUME NoOwnOption(g), FirstEdge = SecondEdge
                  PROVE  FALSE
      OBVIOUS
    <2>1. FirstEdge \in ToSet(options)
      BY <1>5, <1>6
    <2>2. ~SameEdge(FirstEdge, FirstEdge)
      BY <1>2, <1>3, <2>1 DEF NoOwnOption
    <2>. QED  BY <2>2 DEF SameEdge
  <1>. QED  BY <1>2, <1>3, <1>5, <1>7, Elements DEF options

LEMMA Phase3Inv ==
    ASSUME ITopTyped, Phase3Core
    PROVE  ITopTyped' /\ OptionsKept
  <1>. DEFINE ei == FirstEdge
              ej == SecondEdge
  <1>1. /\ IsInput(input) /\ NamesOK /\ anonymous \in Nat /\ known \in Nat
        /\ next \in Nat \ {0} /\ used \subseteq 1..Len(traces) /\ GraphInv(g)
        /\ phase = "phase3" /\ ExistMergeOption(g)
        /\ UNCHANGED <<input, anonymous, used>>
    BY DEF ITopTyped, Phase3Core
  <1>2. ei \in Edges(g) /\ (ej # <<>> => ej \in Pair /\ HasEdge(g, ej[1], ej[2]))
    BY <1>1, PickedEdges
  <1>3. /\ names' = names /\ known' = known /\ next' = next
        /\ phase' \in {"phase3", "failed"}
    BY <1>1 DEF Phase3Core, Spliced, Throw
  <1>4. GraphInv(g') /\ OptionsKept
    <2>1. CASE g' = [g EXCEPT !.label[ei].options = <<>>]
      <3>1. <<>> \in Seq(Pair) /\ ToSet(<<>>) = {}
        BY DEF ToSet
      <3>. QED  BY <1>1, <1>2, <2>1, <3>1, SetOptionsInv DEF OptionsKept
    <2>2. CASE /\ ej # <<>> /\ MergeThrows(g, ei, ej)
               /\ g' = ContractedStart(g, ei, ej) /\ phase' = "failed"
      BY <1>1, <1>2, <2>2, ContractedStartInv DEF OptionsKept
    <2>3. CASE ej # <<>> /\ ~MergeThrows(g, ei, ej) /\ g' = Merged(g, ei, ej)
      BY <1>1, <1>2, <2>3, MergedInv DEF OptionsKept
    <2>4. CASE g' = g
      BY <1>1, <2>4 DEF OptionsKept
    <2>. QED  BY <2>1, <2>2, <2>3, <2>4 DEF Phase3Core, Spliced, Throw
  <1>. QED  BY <1>1, <1>3, <1>4 DEF ITopTyped, NamesOK, traces

-----------------------------------------------------------------------------
LEMMA ITopInit == Init => ITopInv
  <1>. SUFFICES ASSUME Init PROVE ITopInv
    OBVIOUS
  <1>1. IsInput(input)
    BY ITopAssumption DEF Init
  <1>2. names = input.alias /\ known = input.routers
    BY DEF Init
  <1>3. NamesOK /\ known \in Nat
    BY <1>1, <1>2 DEF NamesOK, IsInput
  <1>4. g = EmptyGraph
    BY DEF Init
  <1>5. GraphInv(g) /\ NoOwnOption(g)
    BY <1>4, EmptyGraphInv DEF NoOwnOption
  <1>. QED  BY <1>1, <1>3, <1>5 DEF Init, ITopInv, ITopTyped

LEMMA TypedNext == ITopTyped /\ [Next]_vars => ITopTyped' /\ OptionsKept
  <1>. SUFFICES ASSUME ITopTyped, [Next]_vars PROVE ITopTyped' /\ OptionsKept
    OBVIOUS
  <1>1. CASE Construct
    BY <1>1, ConstructInv
  <1>2. CASE Phase1
    BY <1>2, Phase1Inv
  <1>3. CASE Phase1Ends
    BY <1>3 DEF Phase1Ends, ITopTyped, OptionsKept, NamesOK, traces
  <1>4. CASE Phase2
    BY <1>4, Phase2Inv
  <1>5. CASE Phase2Ends
    BY <1>5 DEF Phase2Ends, ITopTyped, OptionsKept, NamesOK, traces
  <1>6. CASE Phase3Core
    BY <1>6, Phase3Inv
  <1>7. CASE Phase3Ends
    BY <1>7 DEF Phase3Ends, ITopTyped, OptionsKept, NamesOK, traces
  <1>8. CASE UNCHANGED vars
    BY <1>8 DEF vars, ITopTyped, OptionsKept, NamesOK, traces
  <1>. QED  BY <1>1, <1>2, <1>3, <1>4, <1>5, <1>6, <1>7, <1>8 DEF Next

(* A failed iTop makes no step.                                            *)
LEMMA ITopNext == ITopInv /\ [Next]_vars => ITopInv'
  <1>. SUFFICES ASSUME ITopInv, [Next]_vars PROVE ITopInv'
    OBVIOUS
  <1>1. ITopTyped' /\ OptionsKept
    BY TypedNext DEF ITopInv
  <1>2. CASE phase = "failed"
    <2>1. UNCHANGED vars
      BY <1>2 DEF Next, Construct, Phase1, Phase1Ends, Phase2, Phase2Ends, Phase3Core, Phase3Ends
    <2>. QED  BY <1>1, <1>2, <2>1 DEF ITopInv, vars
  <1>3. CASE phase # "failed"
    BY <1>1, <1>3 DEF ITopInv, OptionsKept
  <1>. QED  BY <1>2, <1>3

(* Whatever traces were measured, and wherever a phase fails: no edge is   *)
(* listed twice or without a label, both ends of an edge are nodes, and    *)
(* every node has a type, whatever phase 1 drew and phase 3 contracted     *)
(* (lines 159-281).                                                        *)
THEOREM ITopTypeCorrect == Spec => []TypeOK
  <1>1. Spec => []ITopInv
    BY ITopInit, ITopNext, PTL DEF Spec
  <1>2. ITopInv => TypeOK
    BY TypedIsTypeOK DEF ITopInv
  <1>. QED  BY <1>1, <1>2, PTL
-----------------------------------------------------------------------------
(* Each round of phase 3 that changes anything is one of finitely many.    *)
LEMMA Fewer ==
    ASSUME NEW S, IsFiniteSet(S), NEW T \in SUBSET S, T # S
    PROVE  Cardinality(T) < Cardinality(S)
  <1>1. /\ Cardinality(S) \in Nat /\ Cardinality(T) \in Nat
        /\ Cardinality(T) <= Cardinality(S) /\ Cardinality(T) # Cardinality(S)
    BY FS_Subset, FS_CardinalityType
  <1>. QED  BY <1>1

LEMMA EdgesAreFinite ==
    ASSUME NEW h, GraphInv(h)
    PROVE  IsFiniteSet(Edges(h))
  <1>1. h.edges \in Seq(Pair)
    BY DEF GraphInv
  <1>2. Edges(h) = {h.edges[i] : i \in 1..Len(h.edges)} /\ Len(h.edges) \in Nat
    BY <1>1, Elements DEF Edges
  <1>3. IsFiniteSet(1..Len(h.edges))
    BY <1>2, FS_Interval
  <1>4. h.edges \in Surjection(1..Len(h.edges), Edges(h))
    BY <1>1, <1>2 DEF Surjection
  <1>. QED  BY <1>3, <1>4, FS_Surjection

(* With its options thrown away, the edge is the one that is not open any  *)
(* more.                                                                   *)
LEMMA EdgeCloses ==
    ASSUME NEW h, GraphInv(h), NEW e \in Edges(h), h.label[e].options # <<>>,
           NEW r, r = [h EXCEPT !.label[e].options = <<>>]
    PROVE  Nodes(r) = Nodes(h) /\ Cardinality(Open(r)) < Cardinality(Open(h))
  <1>1. <<>> \in Seq(Pair)
    OBVIOUS
  <1>2. /\ GraphInv(r) /\ Nodes(r) = Nodes(h) /\ r.edges = h.edges
        /\ r.label[e].options = <<>>
        /\ \A d \in Edges(h) \ {e} : r.label[d] = h.label[d]
    BY <1>1, SetOptionsInv
  <1>3. \A d \in Edges(h) : /\ Options(h, d) = h.label[d].options
                            /\ Options(r, d) = r.label[d].options
    BY EdgesArePairs DEF Options, LabelOf
  <1>4. Edges(r) = Edges(h)
    BY <1>2 DEF Edges
  <1>5. Open(r) \subseteq Open(h) /\ e \in Open(h) /\ e \notin Open(r)
    BY <1>2, <1>3, <1>4 DEF Open
  <1>6. IsFiniteSet(Open(h))
    <2>1. IsFiniteSet(Edges(h)) /\ Open(h) \subseteq Edges(h)
      BY EdgesAreFinite DEF Open
    <2>. QED  BY <2>1, FS_Subset
  <1>7. Cardinality(Open(r)) < Cardinality(Open(h))
    BY <1>5, <1>6, Fewer
  <1>. QED  BY <1>2, <1>7

LEMMA RoundAdvances ==
    ASSUME ITopTyped, NoOwnOption(g), Phase3Core, phase' # "failed", ~UNCHANGED vars
    PROVE  \/ Cardinality(Nodes(g')) < Cardinality(Nodes(g))
           \/ Nodes(g') = Nodes(g) /\ Cardinality(Open(g')) < Cardinality(Open(g))
  <1>. DEFINE ei == FirstEdge
              ej == SecondEdge
  <1>1. GraphInv(g) /\ ExistMergeOption(g) /\ NoOwnOption(g) /\ IsFiniteSet(Nodes(g))
    BY DEF ITopTyped, Phase3Core, GraphInv
  <1>2. /\ ei \in Edges(g) /\ g.label[ei].options # <<>> /\ ei # ej
        /\ ej # <<>> => ej \in Pair /\ HasEdge(g, ej[1], ej[2])
    BY <1>1, PickedEdges
  <1>3. CASE g' = [g EXCEPT !.label[ei].options = <<>>]
    BY <1>1, <1>2, <1>3, EdgeCloses
  <1>4. CASE ej # <<>> /\ ~MergeThrows(g, ei, ej) /\ g' = Merged(g, ei, ej)
    <2>1. Nodes(g') \subseteq Nodes(g) /\ Nodes(g') # Nodes(g)
      BY <1>1, <1>2, <1>4, MergedInv
    <2>. QED  BY <1>1, <2>1, Fewer
  <1>5. CASE g' = g /\ UNCHANGED <<names, known, phase, next>>
    BY <1>5 DEF Phase3Core, Spliced, vars
  <1>. QED  BY <1>3, <1>4, <1>5 DEF Phase3Core, Spliced, Throw

(* Phase 3 cannot go on for ever while it changes the graph: whatever the  *)
(* traces, a round leaves fewer nodes, or the same nodes and fewer edges   *)
(* with options (phase3core, lines 547-618).  That leaves the round that   *)
(* changes nothing, the one of an incompatible pair: it is the only way in *)
(* which the loop of line 623 can be endless.                              *)
THEOREM RoundsAdvance == Spec => Phase3Advances
  <1>1. ITopInv /\ [Next]_vars =>
          [Phase3Core /\ phase' # "failed" =>
             \/ Cardinality(Nodes(g')) < Cardinality(Nodes(g))
             \/ Nodes(g') = Nodes(g) /\ Cardinality(Open(g')) < Cardinality(Open(g))]_vars
    BY RoundAdvances DEF ITopInv, Phase3Core
  <1>2. Spec => []ITopInv
    BY ITopInit, ITopNext, PTL DEF Spec
  <1>. QED  BY <1>1, <1>2, PTL DEF Spec, Phase3Advances

(* A node that setEdge creates has a label in a graph that was never read  *)
(* back from JSON; what is left is the option that is a loop.              *)
NoLoop == \A e \in Edges(g) : e[1] # e[2]

LEMMA OnlyLoopsThrow == ITopTyped => (NoLoop => PickedPairMerges)
  <1>. SUFFICES ASSUME ITopTyped, NoLoop, ExistMergeOption(g), SecondEdge # <<>>
                PROVE  ~MergeThrows(g, FirstEdge, SecondEdge)
    BY DEF PickedPairMerges
  <1>. DEFINE ej == SecondEdge
  <1>1. GraphInv(g) /\ g.default # Undefined
    BY DEF ITopTyped, GraphInv, Type, Undefined
  <1>2. ej \in Pair /\ Canonical(ej[1], ej[2]) \in Edges(g)
    BY <1>1, PickedEdges DEF HasEdge
  <1>3. ej[1] # ej[2]
    BY <1>2 DEF NoLoop, Canonical, Pair
  <1>. QED  BY <1>1, <1>3 DEF MergeThrows

(* No merge of phase 3 throws unless it meets an edge from a router to     *)
(* itself, whatever was contracted before (merge, lines 200-212).          *)
THEOREM MergesWithoutLoops == Spec => [](NoLoop => PickedPairMerges)
  <1>1. Spec => []ITopTyped
    BY ITopInit, TypedNext, PTL DEF Spec, ITopInv
  <1>. QED  BY <1>1, OnlyLoopsThrow, PTL

-----------------------------------------------------------------------------
(* The links of a trace are drawn with it, and stay.                       *)
LinksInv == LinksDrawn /\ (phase = "new" => next = 1)

LEMMA LinksGrow ==
    ASSUME NEW h, NEW k, Grown(h, k), NEW t, LinksOf(h, t)
    PROVE  LinksOf(k, t)
  BY DEF Grown, LinksOf

(* The stretch of a trace up to its n-th hop, and what follows it.         *)
FollowsWay(nodes, t, n) ==
    /\ nodes \in Seq(Node) /\ Len(nodes) >= n + 1
    /\ \A j \in 1..(n + 1) : Way(t)[j] # 0 => nodes[j].name = Name(Way(t)[j])

LEMMA WayOfHops ==
    ASSUME NamesOK, NEW t \in Trace, NEW count \in Nat, NEW n \in 0..Len(t.hops),
           NEW hops \in Seq(Nat), Len(hops) = n, \A j \in 1..n : hops[j] = t.hops[j]
    PROVE  FollowsWay(<<Router(Name(t.from))>> \o HopNodes(hops, count), t, n)
  <1>. DEFINE start == Router(Name(t.from))
              drawn == HopNodes(hops, count)
              nodes == <<start>> \o drawn
  <1>1. t.hops \in Seq(Nat) /\ Len(t.hops) \in Nat /\ n \in Nat /\ n <= Len(t.hops)
    BY DEF Trace
  <1>2. /\ drawn \in Seq(Node) /\ Len(drawn) = n
        /\ start \in Node /\ start.name = Name(t.from)
    <2>1. drawn \in Seq(Node)
      BY HopNodesOK
    <2>2. Len(drawn) = n
      BY <1>1 DEF HopNodes
    <2>. QED  BY <2>1, <2>2, PathNameOK, RouterNode DEF Router
  <1>3. \A i \in 1..n : t.hops[i] # 0 => drawn[i].name = Name(t.hops[i])
    BY <1>1 DEF HopNodes
  <1>. HIDE DEF start, drawn
  <1>4. nodes \in Seq(Node) /\ Len(nodes) = n + 1
    BY <1>1, <1>2
  <1>5. ASSUME NEW j \in 1..(n + 1), Way(t)[j] # 0
        PROVE  nodes[j].name = Name(Way(t)[j])
    <2>1. CASE j = 1
      BY <1>1, <1>2, <2>1 DEF Way
    <2>2. CASE j # 1
      <3>1. j - 1 \in 1..n
        BY <1>1, <2>2
      <3>2. nodes[j] = drawn[j-1] /\ Way(t)[j] = t.hops[j-1]
        BY <1>1, <1>2, <3>1 DEF Way
      <3>. QED  BY <1>3, <1>5, <3>1, <3>2
    <2>. QED  BY <2>1, <2>2
  <1>. HIDE DEF nodes
  <1>. QED  BY <1>1, <1>4, <1>5 DEF FollowsWay, nodes, start, drawn

LEMMA LongerWay ==
    ASSUME NEW t, NEW n \in Nat, NEW nodes, FollowsWay(nodes, t, n), NEW more \in Seq(Node)
    PROVE  FollowsWay(nodes \o more, t, n)
  <1>1. nodes \in Seq(Node) /\ Len(nodes) >= n + 1 /\ Len(nodes) \in Nat
    BY DEF FollowsWay
  <1>2. /\ nodes \o more \in Seq(Node) /\ Len(nodes \o more) >= n + 1
        /\ \A j \in 1..(n + 1) : (nodes \o more)[j] = nodes[j]
    BY <1>1
  <1>. QED  BY <1>2 DEF FollowsWay

(* No hop after the n-th answered: every link of the trace is drawn.       *)
LEMMA StretchLinks ==
    ASSUME NamesOK, NEW h, GraphInv(h), NEW t \in Trace, NEW n \in 0..Len(t.hops),
           NEW nodes, FollowsWay(nodes, t, n),
           \A i \in 1..Len(t.hops) : t.hops[i] # 0 => i <= n
    PROVE  LinksOf(AddStretch(h, nodes, PathName(t)), t)
  <1>1. t.hops \in Seq(Nat) /\ Len(t.hops) \in Nat /\ n \in Nat
    BY DEF Trace
  <1>2. /\ nodes \in Seq(Node) /\ Len(nodes) \in Nat /\ Len(nodes) >= n + 1
        /\ \A j \in 1..(n + 1) : Way(t)[j] # 0 => nodes[j].name = Name(Way(t)[j])
    BY DEF FollowsWay
  <1>. DEFINE k == AddStretch(h, nodes, PathName(t))
  <1>3. \A i \in 2..Len(nodes) : Carries(k, nodes[i-1].name, nodes[i].name, PathName(t))
    BY <1>2, PathNameOK, AddStretchInv
  <1>. HIDE DEF k
  <1>4. ASSUME NEW j \in 1..Len(t.hops), Way(t)[j] # 0, Way(t)[j+1] # 0
        PROVE  Carries(k, Name(Way(t)[j]), Name(Way(t)[j+1]), PathName(t))
    <2>1. Way(t)[j+1] = t.hops[j]
      BY <1>1 DEF Way
    <2>2. j <= n
      BY <1>4, <2>1
    <2>3. /\ j \in 1..(n + 1) /\ j + 1 \in 1..(n + 1)
          /\ j + 1 \in 2..Len(nodes) /\ (j + 1) - 1 = j
      BY <1>1, <1>2, <2>2
    <2>. QED  BY <1>2, <1>3, <1>4, <2>3
  <1>. QED  BY <1>4 DEF LinksOf, k

LEMMA ReachedLinks ==
    ASSUME ITopTyped, NEW t \in Trace, ReachedTrace(t)
    PROVE  LinksOf(g', t)
  <1>. DEFINE nodes == <<Router(Name(t.from))>> \o HopNodes(t.hops, anonymous)
  <1>1. /\ anonymous \in Nat /\ NamesOK /\ GraphInv(g)
        /\ t.hops \in Seq(Nat) /\ Len(t.hops) \in Nat
    BY DEF ITopTyped, Trace
  <1>2. FollowsWay(nodes, t, Len(t.hops))
    BY <1>1, WayOfHops
  <1>3. g' = AddStretch(g, nodes, PathName(t))
    BY DEF ReachedTrace
  <1>. HIDE DEF nodes
  <1>. QED  BY <1>1, <1>2, <1>3, StretchLinks

(* The way there is drawn first, and what is drawn of the way back takes   *)
(* none of its links away.                                                 *)
LEMMA JoinedLinks ==
    ASSUME ITopTyped, NEW t \in Trace, NEW o \in Trace, Joinable(t, o), BlockedTrace(t, o)
    PROVE  LinksOf(g', t)
  <1>. DEFINE n == Answered(t.hops)
              ba == SubSeq(o.hops, 1, SuccessNumberBA(t, o))
              there == Append(WayThere(t, o), Router(Name(Last(ba))))
              back  == <<Last(HiddenRouters(t, o))>> \o HopNodes(Reverse(ba), NamedThere(t, o))
              arrival == <<Router(Name(t.to)), Router(Name(o.hops[1]))>>
              path == PathName(t)
  <1>1. /\ anonymous \in Nat /\ NamesOK /\ GraphInv(g) /\ IsInput(input)
        /\ t.hops \in Seq(Nat) /\ Len(t.hops) \in Nat /\ path \in Pair
    BY PathNameOK DEF ITopTyped, Trace
  <1>2. n \in 0..Len(t.hops) /\ \A i \in 1..Len(t.hops) : t.hops[i] # 0 => i <= n
    BY <1>1, AnsweredIndex
  <1>3. there \in Seq(Node) /\ back \in Seq(Node) /\ arrival \in Seq(Node)
    BY <1>1, StretchesOK
  <1>4. HopsAB(t) \in Seq(Nat) /\ Len(HopsAB(t)) = n /\ \A j \in 1..n : HopsAB(t)[j] = t.hops[j]
    BY <1>1, <1>2 DEF HopsAB
  <1>5. FollowsWay(there, t, n)
    <2>. DEFINE way == <<Router(Name(t.from))>> \o HopNodes(HopsAB(t), anonymous)
                last == Router(Name(Last(ba)))
    <2>1. FollowsWay(way, t, n)
      BY <1>1, <1>2, <1>4, WayOfHops
    <2>2. HiddenRouters(t, o) \in Seq(Node)
      BY <1>1, HiddenRoutersOK
    <2>. HIDE DEF way, n
    <2>3. FollowsWay(way \o HiddenRouters(t, o), t, n)
      BY <1>1, <1>2, <2>1, <2>2, LongerWay
    <2>4. WayThere(t, o) = way \o HiddenRouters(t, o)
      BY DEF WayThere, way
    <2>. HIDE DEF last
    <2>5. there = Append(WayThere(t, o), last)
      BY DEF last
    <2>6. /\ WayThere(t, o) \in Seq(Node) /\ Len(WayThere(t, o)) >= n + 1
          /\ \A j \in 1..(n + 1) :
                Way(t)[j] # 0 => WayThere(t, o)[j].name = Name(Way(t)[j])
      BY <2>3, <2>4 DEF FollowsWay
    <2>7. \A j \in 1..(n + 1) : there[j] = WayThere(t, o)[j]
      BY <1>1, <1>2, <2>5, <2>6
    <2>8. Len(there) = Len(WayThere(t, o)) + 1
      BY <2>5, <2>6
    <2>. HIDE DEF there
    <2>. QED  BY <1>1, <1>2, <1>3, <2>6, <2>7, <2>8 DEF FollowsWay
  <1>6. g' = AddStretch(AddStretch(AddStretch(g, there, path), back, path), arrival, path)
    BY DEF BlockedTrace
  <1>. HIDE DEF n, there, back, arrival, path
  <1>7. \A h : GraphInv(h) => \A nodes \in Seq(Node) :
            GraphInv(AddStretch(h, nodes, path)) /\ Grown(h, AddStretch(h, nodes, path))
    BY <1>1, AddStretchInv
  <1>8. LinksOf(AddStretch(g, there, path), t)
    BY <1>1, <1>2, <1>5, StretchLinks DEF path
  <1>. QED  BY <1>1, <1>3, <1>6, <1>7, <1>8, LinksGrow

(* The links of the traces that were looked at are there after a step that *)
(* leaves the names and the traces alone.                                  *)
LEMMA LinksStay ==
    ASSUME UNCHANGED <<input, names>>,
           \A i \in 1..Len(traces) :
              /\ LookedAt(i)'
              /\ Reached(traces[i]) \/ (i \notin used' /\ OppositePath(traces[i]) # 0)
              => LinksOf(g', traces[i])
    PROVE  LinksDrawn'
  <1>1. traces' = traces
    BY DEF traces
  <1>2. \A i : LinksOf(g, traces[i])' <=> LinksOf(g', traces[i])
    BY <1>1 DEF LinksOf, Way, PathName, Name
  <1>3. \A i : Reached(traces[i])' <=> Reached(traces[i])
    BY <1>1 DEF Reached
  <1>4. \A i : OppositePath(traces[i])' = OppositePath(traces[i])
    BY <1>1 DEF OppositePath, SelectInSeq, Name
  <1>. QED  BY <1>1, <1>2, <1>3, <1>4 DEF LinksDrawn, LooksBack

(* So they are after a step that looks at no trace.                        *)
LEMMA LinksKept ==
    ASSUME LinksDrawn, UNCHANGED <<input, names>>, Grown(g, g'), used \subseteq used',
           \A i \in 1..Len(traces) : LookedAt(i)' => LookedAt(i)
    PROVE  LinksDrawn'
  <1>1. \A i \in 1..Len(traces) :
           /\ LookedAt(i)'
           /\ Reached(traces[i]) \/ (i \notin used' /\ OppositePath(traces[i]) # 0)
           => LinksOf(g', traces[i])
    BY LinksGrow DEF LinksDrawn, LooksBack
  <1>. QED  BY <1>1, LinksStay

(* A step of phase 1 draws those of its trace.                             *)
LEMMA LinksOfPhase1 ==
    ASSUME ITopTyped, LinksDrawn, Phase1
    PROVE  LinksDrawn'
  <1>. DEFINE t == traces[next]
              opposite == OppositePath(t)
              o == traces[opposite]
  <1>1. /\ UNCHANGED <<input, names>> /\ Grown(g, g') /\ phase = "phase1"
        /\ phase' = "failed" \/ (phase' = "phase1" /\ next' = next + 1)
        /\ used \subseteq used'
    <2>1. /\ UNCHANGED <<input, names>> /\ phase = "phase1"
          /\ phase' = "failed" \/ (phase' = "phase1" /\ next' = next + 1)
      BY DEF Phase1, Throw, NotJoined
    <2>2. used \subseteq used'
      BY DEF Phase1, ReachedTrace
    <2>. QED  BY <2>1, <2>2, Phase1Inv
  <1>2. IsInput(input) /\ next \in Nat /\ next \in 1..Len(traces) /\ Len(traces) \in Nat
    <2>1. IsInput(input) /\ next \in Nat \ {0} /\ next <= Len(traces)
      BY DEF ITopTyped, Phase1
    <2>2. Len(traces) \in Nat
      BY <2>1 DEF IsInput, traces
    <2>. QED  BY <2>1, <2>2
  <1>3. t \in Trace /\ opposite \in 0..Len(traces)
    BY <1>2, TraceOK, OppositeIndex
  <1>4. ASSUME phase' # "failed", Reached(t) \/ (next \notin used' /\ opposite # 0)
        PROVE  LinksOf(g', t)
    <2>1. CASE Reached(t)
      <3>1. ReachedTrace(t)
        BY <2>1 DEF Phase1
      <3>. QED  BY <1>3, <3>1, ReachedLinks
    <2>2. CASE ~Reached(t)
      <3>1. next \notin used /\ opposite # 0
        BY <1>1, <1>4, <2>2
      <3>2. Joinable(t, o) /\ BlockedTrace(t, o)
        BY <1>1, <1>4, <2>2, <3>1 DEF Phase1, Throw, NotJoined
      <3>3. o \in Trace
        BY <1>2, <1>3, <3>1, TraceOK
      <3>. HIDE DEF t, o
      <3>. QED  BY <1>3, <3>2, <3>3, JoinedLinks
    <2>. QED  BY <2>1, <2>2
  <1>5. ASSUME NEW i \in 1..Len(traces), LookedAt(i)',
               Reached(traces[i]) \/ (i \notin used' /\ OppositePath(traces[i]) # 0)
        PROVE  LinksOf(g', traces[i])
    <2>1. i \in Nat /\ phase' = "phase1" /\ i < next + 1
      BY <1>1, <1>2, <1>5 DEF LookedAt
    <2>2. CASE i = next
      BY <1>4, <1>5, <2>1, <2>2
    <2>3. CASE i # next
      <3>1. LookedAt(i)
        BY <1>1, <1>2, <2>1, <2>3 DEF LookedAt
      <3>2. LinksOf(g, traces[i])
        BY <1>1, <1>5, <3>1 DEF LinksDrawn, LooksBack
      <3>. QED  BY <1>1, <3>2, LinksGrow
    <2>. QED  BY <2>2, <2>3
  <1>. QED  BY <1>1, <1>5, LinksStay

LEMMA LinksOfConstruct ==
    ASSUME ITopTyped, next = 1, Construct
    PROVE  LinksDrawn'
  <1>1. next' = 1 /\ phase' = "phase1"
    BY DEF Construct
  <1>2. \A i \in Nat \ {0} : ~LookedAt(i)'
    BY <1>1 DEF LookedAt
  <1>3. Len(traces') \in Nat
    BY DEF Construct, ITopTyped, IsInput, traces
  <1>. QED  BY <1>2, <1>3 DEF LinksDrawn

LEMMA LinksNext == ITopTyped /\ LinksInv /\ [Next]_vars => LinksInv'
  <1>. SUFFICES ASSUME ITopTyped, LinksInv, [Next]_vars PROVE LinksInv'
    OBVIOUS
  <1>1. LinksDrawn /\ (phase = "new" => next = 1)
    BY DEF LinksInv
  <1>2. \A h : Grown(h, h)
    BY DEF Grown
  <1>3. CASE Construct
    <2>1. phase = "new" /\ phase' = "phase1"
      BY <1>3 DEF Construct
    <2>. QED  BY <1>1, <1>3, <2>1, LinksOfConstruct DEF LinksInv
  <1>4. CASE Phase1
    <2>1. phase' # "new"
      BY <1>4 DEF Phase1, Throw, NotJoined
    <2>. QED  BY <1>1, <1>4, <2>1, LinksOfPhase1 DEF LinksInv
  <1>5. CASE Phase1Ends
    <2>1. /\ UNCHANGED <<input, names, g, used>> /\ phase' = "phase2"
          /\ phase = "phase1" /\ next > Len(traces) /\ next \in Nat /\ Len(traces) \in Nat
      BY <1>5 DEF Phase1Ends, ITopTyped, IsInput, traces
    <2>2. \A i \in 1..Len(traces) : LookedAt(i)
      BY <2>1 DEF LookedAt
    <2>. QED  BY <1>1, <1>2, <2>1, <2>2, LinksKept DEF LinksInv
  <1>6. CASE Phase2
    <2>1. /\ UNCHANGED <<input, names, used>> /\ Grown(g, g') /\ phase = "phase2"
          /\ phase' \in {"phase2", "failed"}
      BY <1>6, Phase2Inv DEF Phase2, Throw
    <2>2. \A i \in 1..Len(traces) : LookedAt(i)
      BY <2>1 DEF LookedAt
    <2>. QED  BY <1>1, <2>1, <2>2, LinksKept DEF LinksInv
  <1>7. CASE Phase2Ends \/ Phase3Core \/ Phase3Ends
    <2>1. phase' \in {"phase3", "failed", "done"}
      BY <1>7 DEF Phase2Ends, Phase3Core, Phase3Ends, Throw
    <2>. QED  BY <2>1 DEF LinksInv, LinksDrawn, LookedAt
  <1>8. CASE UNCHANGED vars
    <2>1. UNCHANGED <<input, names, used, g, phase, next>>
      BY <1>8 DEF vars
    <2>2. \A i : LookedAt(i)' <=> LookedAt(i)
      BY <2>1 DEF LookedAt
    <2>. QED  BY <1>1, <1>2, <2>1, <2>2, LinksKept DEF LinksInv
  <1>. QED  BY <1>3, <1>4, <1>5, <1>6, <1>7, <1>8 DEF Next

(* Two routers that answered one after the other, on the way of a trace    *)
(* that was reached or joined, are joined in the graph by an edge of that  *)
(* trace's path, whatever the later traces draw over it and whatever       *)
(* options are collected (lines 159-170, 371-392 and 410-425).             *)
THEOREM LinksDrawnThere == Spec => []LinksDrawn
  <1>1. Init => LinksInv
    BY DEF Init, LinksInv, LinksDrawn, LookedAt
  <1>2. Spec => []ITopTyped
    BY ITopInit, TypedNext, PTL DEF Spec, ITopInv
  <1>3. Spec => []LinksInv
    BY <1>1, <1>2, LinksNext, PTL DEF Spec
  <1>4. LinksInv => LinksDrawn
    BY DEF LinksInv
  <1>. QED  BY <1>3, <1>4, PTL
-----------------------------------------------------------------------------
(* The names that the constructor makes up.                                *)
LEMMA RouterNamesDiffer ==
    ASSUME NEW n \in Nat, NEW m \in Nat, KnownRouter(n) = KnownRouter(m)
    PROVE  n = m
  BY DEF KnownRouter, Rank

LEMMA NameIndex ==
    ASSUME IsInput(input), NEW a \in ToSet(Unnamed)
    PROVE  LET n == SelectInSeq(Unnamed, LAMBDA b : b = a)
           IN n \in 1..Len(Unnamed) /\ Unnamed[n] = a
  <1>. DEFINE I == {i \in 1..Len(Unnamed) : Unnamed[i] = a}
              n == SelectInSeq(Unnamed, LAMBDA b : b = a)
  <1>1. n = IF I # {} THEN Min(I) ELSE 0
    BY DEF SelectInSeq
  <1>2. Unnamed \in Seq(Nat \ {0})
    BY UnnamedListed DEF NewLists
  <1>3. I # {} /\ I \in SUBSET Nat
    BY <1>2, Elements
  <1>4. \A i \in I : i \in 1..Len(Unnamed) /\ Unnamed[i] = a
    OBVIOUS
  <1>. HIDE DEF I, n
  <1>5. n \in I
    BY <1>1, <1>3, Filter!MinOf DEF Min, Filter!Min
  <1>. QED  BY <1>4, <1>5 DEF n

NamesInv == HopsNamed /\ (phase = "new" => DOMAIN names = DOMAIN input.alias)

LEMMA NamesNext == ITopTyped /\ NamesInv /\ [Next]_vars => NamesInv'
  <1>. SUFFICES ASSUME ITopTyped, NamesInv, [Next]_vars PROVE NamesInv'
    OBVIOUS
  <1>1. CASE Construct
    <2>. DEFINE have == DOMAIN input.alias
                N(a) == SelectInSeq(Unnamed, LAMBDA b : b = a)
    <2>1. /\ IsInput(input) /\ known \in Nat /\ DOMAIN names = have /\ phase' = "phase1"
          /\ input' = input
      BY <1>1 DEF ITopTyped, NamesInv, Construct
    <2>2. names' = [a \in DOMAIN names \cup ToSet(Unnamed) |->
                       IF a \in DOMAIN names THEN names[a] ELSE KnownRouter(known + N(a))]
      BY <1>1 DEF Construct
    <2>3. Unnamed \in Seq(Nat \ {0}) /\ ToSet(Unnamed) \cap have = {}
      BY <2>1, UnnamedListed DEF NewLists
    <2>4. \A a \in ToSet(Unnamed) : N(a) \in Nat /\ Unnamed[N(a)] = a
      BY <2>1, <2>3, NameIndex
    <2>. HIDE DEF N
    <2>5. \A a \in ToSet(Unnamed) : names'[a] = KnownRouter(known + N(a))
      BY <2>1, <2>2, <2>3
    <2>6. ASSUME NEW a \in ToSet(Unnamed), NEW b \in ToSet(Unnamed), names'[a] = names'[b]
          PROVE  a = b
      <3>1. known + N(a) \in Nat /\ known + N(b) \in Nat
        BY <2>1, <2>4
      <3>2. known + N(a) = known + N(b)
        BY <2>5, <2>6, <3>1, RouterNamesDiffer
      <3>3. N(a) = N(b)
        BY <2>1, <2>4, <3>2
      <3>. QED  BY <2>4, <3>3
    <2>7. DOMAIN names' = have \cup ToSet(Unnamed)
      BY <2>1, <2>2
    <2>8. \A a \in DOMAIN names' \ have, b \in DOMAIN names' \ have :
             a # b => names'[a] # names'[b]
      BY <2>6, <2>7
    <2>9. \A i \in 1..Len(traces) : ToSet(traces[i].hops) \ {0} \subseteq DOMAIN names'
      BY <2>1, <2>7, UnnamedListed
    <2>. QED  BY <2>1, <2>8, <2>9 DEF NamesInv, HopsNamed, traces
  <1>2. CASE Phase1 \/ Phase1Ends \/ Phase2 \/ Phase2Ends \/ Phase3Core \/ Phase3Ends
    <2>1. /\ input' = input /\ names' = names /\ phase # "new"
          /\ phase' \in {"phase1", "phase2", "phase3", "done", "failed"}
      BY <1>2 DEF Phase1, Phase1Ends, Phase2, Phase2Ends, Phase3Core, Phase3Ends, Throw, NotJoined
    <2>. QED  BY <2>1 DEF NamesInv, HopsNamed, traces
  <1>3. CASE UNCHANGED vars
    BY <1>3 DEF vars, NamesInv, HopsNamed, traces
  <1>. QED  BY <1>1, <1>2, <1>3 DEF Next

(* Every router that answered has a name of its own once the iTop is made, *)
(* whatever the other monitors' traces and alias lists have (lines         *)
(* 327-336).                                                               *)
THEOREM HopsNamedByConstructor == Spec => []HopsNamed
  <1>1. Init => NamesInv
    BY DEF Init, NamesInv, HopsNamed
  <1>2. Spec => []ITopTyped
    BY ITopInit, TypedNext, PTL DEF Spec, ITopInv
  <1>3. Spec => []NamesInv
    BY <1>1, <1>2, NamesNext, PTL DEF Spec
  <1>4. NamesInv => HopsNamed
    BY DEF NamesInv
  <1>. QED  BY <1>3, <1>4, PTL
=============================================================================

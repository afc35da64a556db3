----------------------------- MODULE MergeGraph ------------------------------
(***************************************************************************)
(* The graph that iTop works on and the operations of server/itop.js that  *)
(* rewrite it: addHop, nodeContraction, merge, compatible and the choice   *)
(* of an edge (lines 63-83, 159-317), on top of an undirected graphlib     *)
(* graph.                                                                  *)
(*                                                                         *)
(* A node is a number that stands for its name, < being the order of the   *)
(* strings.  An edge is the pair of its ends in that order, an option is   *)
(* an edge in either orientation.  g.edges lists the edges in the order of *)
(* their insertion, g.label[e] holds the paths and the merge options of e, *)
(* g.type the type of a node; Default marks a node that setEdge created    *)
(* and that shares the one default label, of type g.default, with all the  *)
(* others.                                                                 *)
(***************************************************************************)
EXTENDS RouterTypes, Integers, Sequences, FiniteSets, SequencesExt

Default == "default"
Undefined == "undefined"      \* a copy read back from JSON has no default label

EmptyGraph ==
    [type |-> <<>>, default |-> "R", edges |-> <<>>, label |-> <<>>]

Nodes(g) == DOMAIN g.type
Edges(g) == ToSet(g.edges)
TypeOf(g, n) == IF g.type[n] = Default THEN g.default ELSE g.type[n]

Canonical(v, w) == IF w < v THEN <<w, v>> ELSE <<v, w>>
SameEdge(e, f) == Canonical(e[1], e[2]) = Canonical(f[1], f[2])
HasEdge(g, v, w) == Canonical(v, w) \in Edges(g)
LabelOf(g, e) == g.label[Canonical(e[1], e[2])]
Options(g, e) == LabelOf(g, e).options

(* An assignment to a property of an object, and the elements of a list    *)
(* that a filter lets through.                                             *)
Put(f, x, value) ==
    [y \in DOMAIN f \cup {x} |-> IF y = x THEN value ELSE f[y]]

Only(seq, S) ==
    LET Keep(kept, e) == IF e \in S THEN Append(kept, e) ELSE kept
    IN FoldLeft(Keep, <<>>, seq)

-----------------------------------------------------------------------------
(* graphlib.                                                               *)

SetNode(g, n, type) == [g EXCEPT !.type = Put(@, n, type)]

WithEnds(type, v, w) ==
    [n \in DOMAIN type \cup {v, w} |-> IF n \in DOMAIN type THEN type[n] ELSE Default]

SetEdgeTwice(g, v, w, label) ==      \* mutant: does not look for the edge
    [g EXCEPT !.type  = WithEnds(@, v, w),
              !.edges = Append(@, Canonical(v, w)),
              !.label = Put(@, Canonical(v, w), label)]

SetEdge(g, v, w, label) ==
    [g EXCEPT !.type  = WithEnds(@, v, w),
              !.edges = IF HasEdge(g, v, w) THEN @ ELSE Append(@, Canonical(v, w)),
              !.label = Put(@, Canonical(v, w), label)]

AddHopOfOnePath(g, current, previous, type, path) ==      \* mutant: forgets the others
    LET h == IF current \in Nodes(g) THEN g ELSE SetNode(g, current, type)
    IN SetEdge(h, previous, current, [path |-> {path}, options |-> <<>>])

(* Lines 159-170.                                                          *)
AddHop(g, current, previous, type, path) ==
    LET h == IF current \in Nodes(g) THEN g ELSE SetNode(g, current, type)
        label == IF HasEdge(g, previous, current)
                 THEN [LabelOf(g, <<previous, current>>) EXCEPT !.path = @ \cup {path}]
                 ELSE [path |-> {path}, options |-> <<>>]
    IN SetEdge(h, previous, current, label)

RemoveNode(g, n) ==
    LET kept == {e \in Edges(g) : n \notin {e[1], e[2]}}
    IN [g EXCEPT !.type  = Restrict(@, DOMAIN @ \ {n}),
                 !.edges = Only(@, kept),
                 !.label = Restrict(@, kept)]

(* First the edges that end in n, then those that start there.             *)
NodeEdges(g, n) ==
    Only(g.edges, {e \in Edges(g) : e[2] = n}) \o Only(g.edges, {e \in Edges(g) : e[1] = n})

(* A shared label is changed for every node that has it.                   *)
SetType(g, n, type) ==
    IF g.type[n] = Default THEN [g EXCEPT !.default = type]
    ELSE [g EXCEPT !.type[n] = type]

(* What JSON.parse(JSON.stringify(json.write(g))) reads back.              *)
Copied(g) ==
    [g EXCEPT !.type = [n \in DOMAIN @ |-> TypeOf(g, n)], !.default = Undefined]

-----------------------------------------------------------------------------
(* mergeLabels keeps the options of the first label the second one has.    *)
SharedOptions(l1, l2) ==
    Only(l1.options,
         {o \in ToSet(l1.options) : \E p \in ToSet(l2.options) : SameEdge(o, p)})

MergeLabelsOfFirst(l1, l2) ==      \* mutant: forgets the second label's paths
    [path |-> l1.path, options |-> SharedOptions(l1, l2)]

MergeLabels(l1, l2) ==
    [path |-> l1.path \cup l2.path, options |-> SharedOptions(l1, l2)]

(* nodeContraction (lines 172-198): the edges of n2 move to n1.            *)
Reattached(g, e, n1, n2) ==
    LET other == IF e[1] = n2 THEN e[2] ELSE e[1]
    IN SetEdge(g, other, n1,
               IF HasEdge(g, other, n1)
               THEN MergeLabels(LabelOf(g, <<other, n1>>), g.label[e])
               ELSE g.label[e])

NodeContraction(g, n1, n2, resultingType) ==
    LET Move(h, e) == Reattached(h, e, n1, n2)
        moved == FoldLeft(Move, g, NodeEdges(g, n2))
    IN RemoveNode(SetType(moved, n1, resultingType), n2)

(* The first half of merge (lines 200-212): both ends of ej go into ei.    *)
ContractedStart(g, ei, ej) ==
    IF ei[1] = ej[1] THEN g
    ELSE NodeContraction(g, ei[1], ej[1], MaxType(TypeOf(g, ei[1]), TypeOf(g, ej[1])))

Contracted(g, ei, ej) ==
    LET end == MaxType(TypeOf(g, ei[2]), TypeOf(g, ej[2]))
        h == ContractedStart(g, ei, ej)
    IN IF ei[2] = ej[2] THEN h ELSE NodeContraction(h, ei[2], ej[2], end)

(* Its second contraction throws when the first one removed ej's end, or   *)
(* ei's: then setEdge creates it anew, without a label in a copy.          *)
MergeThrows(g, ei, ej) ==
    /\ ei[1] # ej[1] /\ ei[2] # ej[2]
    /\ \/ ej[2] = ej[1]
       \/ ei[2] = ej[1] /\ g.default = Undefined

(* The second half (lines 214-277): the options of every edge.  An edge    *)
(* that has both merged edges as options keeps ei, one that has only one   *)
(* of them loses it; then ej's ends are renamed, and double options and    *)
(* the edge itself are dropped.                                            *)
LastOption(options, e) ==
    LET Same(o) == SameEdge(o, e) IN SelectLastInSeq(options, Same)

WithoutMerged(options, ei, ej) ==
    LET index == LastOption(options, ei)
        jndex == LastOption(options, ej)
    IN IF jndex # 0 THEN RemoveAt(options, jndex)
       ELSE IF index # 0 THEN RemoveAt(options, index)
       ELSE options

Renamed(o, ei, ej) ==
    <<IF o[1] = ej[1] THEN ei[1] ELSE IF o[1] = ej[2] THEN ei[2] ELSE o[1],
      IF o[2] = ej[2] THEN ei[2] ELSE IF o[2] = ej[1] THEN ei[1] ELSE o[2]>>

RenamedOptions(options, e, ei, ej) ==
    LET Add(s, o) ==
            LET r == Renamed(o, ei, ej)
            IN IF r \in ToSet(s) \/ SameEdge(r, e) THEN s ELSE Append(s, r)
    IN FoldLeft(Add, <<>>, options)

Merged(g, ei, ej) ==
    LET h == Contracted(g, ei, ej)
        Kept(e) == RenamedOptions(WithoutMerged(h.label[e].options, ei, ej), e, ei, ej)
    IN [h EXCEPT !.label = [e \in DOMAIN @ |-> [@[e] EXCEPT !.options = Kept(e)]]]

-----------------------------------------------------------------------------
(* compatible (lines 283-301): two routers that answered are different.    *)
Compatible(g, e, f) ==
    /\ \A k \in 1..2 : TypeOf(g, e[k]) = "R" /\ TypeOf(g, f[k]) = "R" => e[k] = f[k]
    /\ Mergeable(TypeOf(g, e[1]), TypeOf(g, e[2]), TypeOf(g, f[1]), TypeOf(g, f[2]))

(* findEdgeWithLessMergeOptions (lines 303-312), <<>> for undefined: the   *)
(* first one of the existing edges with the fewest options, but some.      *)
Candidates(g, range) ==
    Only(range, {e \in ToSet(range) : HasEdge(g, e[1], e[2]) /\ Options(g, e) # <<>>})

EdgeWithLessMergeOptions(g, range) ==
    LET some == Candidates(g, range)
        Fewer(least, e) ==
            IF Len(Options(g, e)) < Len(Options(g, least)) THEN e ELSE least
    IN IF some = <<>> THEN <<>> ELSE FoldLeft(Fewer, some[1], some)

ExistMergeOption(g) == Candidates(g, g.edges) # <<>>

(* floydWarshall with every edge of weight 1; -1 stands for Infinity.      *)
Neighbours(g, S) ==
    {e[2] : e \in {e \in Edges(g) : e[1] \in S}}
    \cup {e[1] : e \in {e \in Edges(g) : e[2] \in S}}

Distance(g, from, to) ==
    LET steps[S \in SUBSET Nodes(g)] ==      \* from a node of S to "to"
            LET T == S \cup Neighbours(g, S)
            IN IF to \in S THEN 0
               ELSE IF T = S THEN -1
               ELSE LET n == steps[T] IN IF n = -1 THEN -1 ELSE n + 1
    IN IF from = to THEN (IF HasEdge(g, from, to) THEN 1 ELSE 0)
       ELSE steps[{from}]

SameDistance(g, h, from, to) ==
    /\ {from, to} \subseteq Nodes(g) \cap Nodes(h)
    /\ Distance(g, from, to) = Distance(h, from, to)
=============================================================================

-------------------------------- MODULE ITop ---------------------------------
(***************************************************************************)
(* The topology inference of server/itop.js: the constructor names the     *)
(* addresses (lines 327-336), phase 1 builds a virtual topology from the   *)
(* traces (339-474), phase 2 finds the pairs of edges that may be one link *)
(* (476-545), phase 3 merges them one by one (547-640).                    *)
(*                                                                         *)
(* An input is a record: the traces, the alias table as a function from    *)
(* addresses to names, and the distances.  A hop is an address, 0 being    *)
(* "0.0.0.0", the address of a hop without an answer.                      *)
(***************************************************************************)
EXTENDS MergeGraph

CONSTANT Inputs      \* what the server may have collected when itop is made

(* Names are numbers in the order of the strings: "A1" < "A10" < "A2", and *)
(* any "A.." < any "R..".  Holds for the first 99 of each.                 *)
Rank(n) == IF n < 10 THEN 100 * n ELSE 10 * n + 1
AnonRouter(n) == 1000 + Rank(n)
KnownRouter(n) == 3000 + Rank(n)

IsInput(in) ==
    /\ DOMAIN in = {"traces", "alias", "distance", "diameter", "routers"}
    /\ in.traces \in Seq([from : Nat, to : Nat, hops : Seq(Nat) \ {<<>>}])
    /\ \A a \in DOMAIN in.alias : a \in Nat \ {0} /\ in.alias[a] \in Nat
    /\ \A p \in DOMAIN in.distance : in.distance[p] \in Nat
    /\ in.diameter \in Nat /\ in.routers \in Nat

ASSUME ITopAssumption == \A in \in Inputs : IsInput(in)

VARIABLES
    input,       \* tracerouteData and networkData
    names,       \* the alias lists: address -> name
    anonymous,   \* anonRouter's routerName
    known,       \* anonRouter's routerKnownName
    used,        \* indexes of the traces with alreadyUsed
    g,           \* the graph
    phase,       \* the next thing to do
    next         \* index of the next trace (phase 1) or edge (phase 2)

vars == <<input, names, anonymous, known, used, g, phase, next>>

traces == input.traces
Name(address) == IF address \in DOMAIN names THEN names[address] ELSE address

Init ==
    /\ input \in Inputs
    /\ names = input.alias
    /\ anonymous = 0 /\ known = input.routers /\ used = {}
    /\ g = EmptyGraph
    /\ phase = "new" /\ next = 1

(* An uncaught exception ends the request, and leaves the graph h behind.  *)
Throw(h) ==
    /\ phase' = "failed" /\ g' = h
    /\ UNCHANGED <<names, known, next>>

-----------------------------------------------------------------------------
(* The constructor: an address that no alias list has gets a new router.   *)
Unnamed ==
    LET New(s, a) == IF a = 0 \/ a \in DOMAIN names \cup ToSet(s) THEN s
                     ELSE Append(s, a)
        NewOf(s, t) == FoldLeft(New, s, t.hops)
    IN FoldLeft(NewOf, <<>>, traces)

ConstructOneName ==      \* mutant: the counter is moved on only at the end
    /\ phase = "new"
    /\ names' = [a \in DOMAIN names \cup ToSet(Unnamed) |->
                    IF a \in DOMAIN names THEN names[a] ELSE KnownRouter(known + 1)]
    /\ known' = known + Len(Unnamed)
    /\ phase' = "phase1"
    /\ UNCHANGED <<input, anonymous, used, g, next>>

Construct ==
    /\ phase = "new"
    /\ names' = [a \in DOMAIN names \cup ToSet(Unnamed) |->
                    IF a \in DOMAIN names THEN names[a]
                    ELSE KnownRouter(known + SelectInSeq(Unnamed, LAMBDA b : b = a))]
    /\ known' = known + Len(Unnamed)
    /\ phase' = "phase1"
    /\ UNCHANGED <<input, anonymous, used, g, next>>

-----------------------------------------------------------------------------
(* Phase 1.  A stretch of hops is a sequence of nodes, each with the type  *)
(* that addHop gives it if it is new; each silent hop is a new A router.   *)
SilentUpTo(hops, i) == Cardinality({j \in 1..i : hops[j] = 0})

HopNodes(hops, count) ==
    [i \in 1..Len(hops) |->
        IF hops[i] = 0 THEN [name |-> AnonRouter(count + SilentUpTo(hops, i)), type |-> "A"]
        ELSE [name |-> Name(hops[i]), type |-> "R"]]

Router(name) == [name |-> name, type |-> "R"]

(* addHop from each node of a stretch to the one after it.                 *)
AddStretch(h, nodes, path) ==
    LET Add(f, i) == IF i = 1 THEN f
                     ELSE AddHop(f, nodes[i].name, nodes[i-1].name, nodes[i].type, path)
    IN FoldLeftDomain(Add, h, nodes)

(* The hops up to the last one that answered: the while loops of lines     *)
(* 399 and 406.                                                            *)
Answered(hops) == SelectLastInSeq(hops, LAMBDA a : a # 0)

PathName(t) == <<Name(t.from), Name(t.to)>>

Reached(t) == Last(t.hops) # 0

OppositePath(t) ==
    SelectInSeq(traces, LAMBDA o : /\ Name(o.from) = Name(t.to)
                                   /\ Name(o.to) = Name(t.from))

(* Line 386; -1 when there is no distance, or no distances of the origin.  *)
DistanceOf(t) ==
    IF input.diameter # 0 THEN input.diameter
    ELSE IF PathName(t) \in DOMAIN input.distance THEN input.distance[PathName(t)]
    ELSE -1

ReachedTrace(t) ==
    /\ g' = AddStretch(g, <<Router(Name(t.from))>> \o HopNodes(t.hops, anonymous),
                       PathName(t))
    /\ anonymous' = anonymous + SilentUpTo(t.hops, Len(t.hops))
    /\ UNCHANGED used

(* Lines 427-451: one B router, or two N routers with H routers between.   *)
UnknownRoutersOneMore(n, count) ==      \* mutant: counts to n - 1
    LET types == IF n = 1 THEN <<"B">>
                 ELSE <<"N">> \o [i \in 1..Max({n - 1, 0}) |-> "H"] \o <<"N">>
    IN [i \in 1..Len(types) |-> [name |-> AnonRouter(count + i), type |-> types[i]]]

UnknownRouters(n, count) ==
    LET types == IF n = 1 THEN <<"B">>
                 ELSE <<"N">> \o [i \in 1..Max({n - 2, 0}) |-> "H"] \o <<"N">>
    IN [i \in 1..Len(types) |-> [name |-> AnonRouter(count + i), type |-> types[i]]]

(* A blocked trace and the trace o that came the other way; successNumberBA *)
(* is computed from the length of t.hops (line 396).                       *)
SuccessNumberBA(t, o) == Len(t.hops) - (Len(o.hops) - Answered(o.hops))

AnyAnswer(t, o) == Answered(t.hops) > 0 /\ Answered(o.hops) > 0

Joinable(t, o) == AnyAnswer(t, o) /\ SuccessNumberBA(t, o) \in 1..Len(o.hops)

HopsAB(t) == SubSeq(t.hops, 1, Answered(t.hops))

HiddenRouters(t, o) ==
    UnknownRouters(DistanceOf(t) - Answered(t.hops) - SuccessNumberBA(t, o),
                   anonymous + SilentUpTo(HopsAB(t), Answered(t.hops)))

WayThere(t, o) ==
    <<Router(Name(t.from))>> \o HopNodes(HopsAB(t), anonymous) \o HiddenRouters(t, o)

NamedThere(t, o) ==
    anonymous + SilentUpTo(HopsAB(t), Answered(t.hops)) + Len(HiddenRouters(t, o))

BlockedTrace(t, o) ==
    LET ba == SubSeq(o.hops, 1, SuccessNumberBA(t, o))
        there == Append(WayThere(t, o), Router(Name(Last(ba))))
        back  == <<Last(HiddenRouters(t, o))>> \o HopNodes(Reverse(ba), NamedThere(t, o))
        arrival == <<Router(Name(t.to)), Router(Name(o.hops[1]))>>
    IN /\ g' = AddStretch(AddStretch(AddStretch(g, there, PathName(t)),
                                     back, PathName(t)),
                          arrival, PathName(t))
       /\ anonymous' = NamedThere(t, o) + SilentUpTo(ba, Len(ba))

(* Without an answer, a while loop runs out of the hops; with a wrong      *)
(* number of hops back, the first of them is missing (line 434 or 448).    *)
NotJoined(t, o) ==
    \/ ~AnyAnswer(t, o) /\ Throw(g) /\ UNCHANGED anonymous
    \/ /\ AnyAnswer(t, o)
       /\ Throw(AddStretch(g, WayThere(t, o), PathName(t)))
       /\ anonymous' = NamedThere(t, o)

FlagsBoth(opposite) == {opposite, next}      \* mutant

(* The traces that are not looked at any more (line 394).                  *)
Flags(opposite) == {opposite}

Phase1 ==
    /\ phase = "phase1" /\ next <= Len(traces)
    /\ UNCHANGED input
    /\ LET t == traces[next]
           opposite == OppositePath(t)
           o == traces[opposite]
           Added == /\ next' = next + 1
                    /\ UNCHANGED <<names, known, phase>>
       IN \/ /\ Reached(t)
             /\ ReachedTrace(t) /\ Added
          \/ /\ ~Reached(t)
             /\ \/ next \in used
                \/ DistanceOf(t) # -1 /\ opposite = 0
             /\ Added /\ UNCHANGED <<g, anonymous, used>>
          \/ /\ ~Reached(t) /\ next \notin used
             /\ DistanceOf(t) = -1
             /\ Throw(g) /\ UNCHANGED <<anonymous, used>>
          \/ /\ ~Reached(t) /\ next \notin used
             /\ DistanceOf(t) # -1 /\ opposite # 0
             /\ used' = used \cup Flags(opposite)
             /\ \/ Joinable(t, o) /\ BlockedTrace(t, o) /\ Added
                \/ ~Joinable(t, o) /\ NotJoined(t, o)

Phase1Ends ==
    /\ phase = "phase1" /\ next > Len(traces)
    /\ phase' = "phase2" /\ next' = 1
    /\ UNCHANGED <<input, names, anonymous, known, used, g>>

-----------------------------------------------------------------------------
(* Phase 2.  The options of an edge are the edges on other paths that are  *)
(* compatible with it and whose merge, tried on a copy, leaves the         *)
(* distance between the ends of every trace as it is.                      *)
SharePath(e, f) == g.label[e].path \cap g.label[f].path # {}

DistancesKeptOfOne(e, f) ==      \* mutant: one trace is enough
    LET merged == Contracted(Copied(g), e, f)
    IN \E i \in 1..Len(traces) :
          SameDistance(g, merged, Name(traces[i].from), Name(traces[i].to))

DistancesKept(e, f) ==
    LET merged == Contracted(Copied(g), e, f)
    IN \A i \in 1..Len(traces) :
          SameDistance(g, merged, Name(traces[i].from), Name(traces[i].to))

TriedOfAnyType(e) == {f \in Edges(g) \ {e} : ~SharePath(e, f)}      \* mutant

Tried(e) == {f \in Edges(g) \ {e} : ~SharePath(e, f) /\ Compatible(g, e, f)}

MergeOptionsOnce(e) ==      \* mutant: leaves out the edges done before
    Only(SubSeq(g.edges, next, Len(g.edges)), {f \in Tried(e) : DistancesKept(e, f)})

MergeOptions(e) == Only(g.edges, {f \in Tried(e) : DistancesKept(e, f)})

(* A merge that throws leaves the options found before it.                 *)
OptionsBefore(e) ==
    LET Throws(f) == f \in Tried(e) /\ MergeThrows(Copied(g), e, f)
        before == SubSeq(g.edges, 1, SelectInSeq(g.edges, Throws) - 1)
    IN Only(before, {f \in Tried(e) \cap ToSet(before) : DistancesKept(e, f)})

Phase2 ==
    /\ phase = "phase2" /\ next <= Len(g.edges)
    /\ UNCHANGED <<input, anonymous, used>>
    /\ LET e == g.edges[next]
       IN \/ /\ \E f \in Tried(e) : MergeThrows(Copied(g), e, f)
             /\ Throw([g EXCEPT !.label[e].options = OptionsBefore(e)])
          \/ /\ \A f \in Tried(e) : ~MergeThrows(Copied(g), e, f)
             /\ g' = [g EXCEPT !.label[e].options = MergeOptions(e)]
             /\ next' = next + 1
             /\ UNCHANGED <<names, known, phase>>

Phase2Ends ==
    /\ phase = "phase2" /\ next > Len(g.edges)
    /\ phase' = "phase3"
    /\ UNCHANGED <<input, names, anonymous, known, used, g, next>>

-----------------------------------------------------------------------------
(* Phase 3: merge an edge with the fewest options with one of its options. *)
FirstEdge == EdgeWithLessMergeOptions(g, g.edges)
SecondEdge == EdgeWithLessMergeOptions(g, Options(g, FirstEdge))

(* Both loops of the branch for an incompatible pair look for a v and a w  *)
(* of an array of edges, so that neither list loses the other edge.        *)
Spliced(ei, ej) == g

Phase3Core ==
    /\ phase = "phase3" /\ ExistMergeOption(g)
    /\ UNCHANGED <<input, anonymous, used>>
    /\ LET ei == FirstEdge
           ej == SecondEdge
           Update(h) == g' = h /\ UNCHANGED <<names, known, phase, next>>
       IN \/ /\ ej = <<>>
             /\ Update([g EXCEPT !.label[ei].options = <<>>])
          \/ /\ ej # <<>> /\ Compatible(g, ei, ej)
             /\ IF MergeThrows(g, ei, ej) THEN Throw(ContractedStart(g, ei, ej))
                ELSE Update(Merged(g, ei, ej))
          \/ /\ ej # <<>> /\ ~Compatible(g, ei, ej)
             /\ Update(Spliced(ei, ej))

Phase3Ends ==
    /\ phase = "phase3" /\ ~ExistMergeOption(g)
    /\ phase' = "done"
    /\ UNCHANGED <<input, names, anonymous, known, used, g, next>>

Next ==
    \/ Construct
    \/ Phase1 \/ Phase1Ends
    \/ Phase2 \/ Phase2Ends
    \/ Phase3Core \/ Phase3Ends

(* One request runs to its end: the phases are synchronous.                *)
Spec == Init /\ [][Next]_vars

-----------------------------------------------------------------------------
(* Properties.                                                             *)

(* The graph is well formed: no edge is listed twice or without a label,   *)
(* and both ends of an edge are nodes, whatever a contraction removed.     *)
GraphOK ==
    /\ IsInjective(g.edges)
    /\ DOMAIN g.label = Edges(g)
    /\ \A e \in Edges(g) : e[1] <= e[2] /\ {e[1], e[2]} \subseteq Nodes(g)
    /\ \A n \in Nodes(g) : g.type[n] \in Type \cup {Default}
    /\ g.default \in Type

TypeOK ==
    /\ anonymous \in Nat /\ known \in Nat /\ next \in Nat \ {0}
    /\ used \subseteq 1..Len(traces)
    /\ phase \in {"new", "phase1", "phase2", "phase3", "done", "failed"}
    /\ GraphOK

(* The constructor leaves no address that answered without a name, and no  *)
(* two routers that it names have one name (lines 327-336).                *)
HopsNamed ==
    phase # "new" =>
        /\ \A i \in 1..Len(traces) : ToSet(traces[i].hops) \ {0} \subseteq DOMAIN names
        /\ \A a, b \in DOMAIN names \ DOMAIN input.alias : a # b => names[a] # names[b]

(* The part of the graph that a path goes through.                         *)
PathGraph(h, path) ==
    [h EXCEPT !.edges = Only(@, {e \in Edges(h) : path \in h.label[e].path})]

PathDistance(h, t) == Distance(PathGraph(h, PathName(t)), Name(t.from), Name(t.to))

(* A blocked trace that was joined with the one that came the other way;   *)
(* the hop next to its destination has to answer (line 467).               *)
LooksBack(i) == i \notin used /\ OppositePath(traces[i]) # 0

Joined(i) ==
    /\ ~Reached(traces[i]) /\ LooksBack(i)
    /\ traces[OppositePath(traces[i])].hops[1] # 0

(* Phase 1 draws each trace as one path between its two ends, of the       *)
(* measured length: as many edges as a reached trace has hops, and for a   *)
(* joined trace one edge more than there are routers between the ends,     *)
(* hidden ones included (lines 358-471).                                   *)
TracesDrawn ==
    phase = "phase2" /\ next = 1 =>
        \A i \in 1..Len(traces) :
            LET t == traces[i]
            IN /\ Reached(t) => PathDistance(g, t) = Len(t.hops)
               /\ Joined(i) => PathDistance(g, t) = DistanceOf(t) + 1

(* Wherever two routers that follow one another on a trace answered, there *)
(* is an edge between them that the path of the trace goes through, on the *)
(* way of a blocked trace that was joined as well, and it stays one while  *)
(* the other traces are drawn, over the same edges or not, and while       *)
(* options are collected (lines 159-170, 371-392, 410-425).                *)
Carries(h, v, w, path) == HasEdge(h, v, w) /\ path \in LabelOf(h, <<v, w>>).path

Way(t) == <<t.from>> \o t.hops

LinksOf(h, t) ==
    \A j \in 1..Len(t.hops) :
        Way(t)[j] # 0 /\ Way(t)[j+1] # 0 =>
            Carries(h, Name(Way(t)[j]), Name(Way(t)[j+1]), PathName(t))

LookedAt(i) ==
    \/ phase = "phase1" /\ i < next
    \/ phase = "phase2"

LinksDrawn ==
    \A i \in 1..Len(traces) :
        LookedAt(i) /\ (Reached(traces[i]) \/ LooksBack(i)) => LinksOf(g, traces[i])

(* When phase 2 ends, each option of an edge is an edge that has that edge *)
(* as an option: what SymmetryCheck (lines 85-121) logs an error for.      *)
OptionsSymmetric ==
    phase = "phase2" /\ next > Len(g.edges) =>
        \A e \in Edges(g), f \in Edges(g) :
            f \in ToSet(Options(g, e)) <=> e \in ToSet(Options(g, f))

(* Merging never changes the distance between the two ends of a trace,     *)
(* which phase 2 makes sure of for each merge alone (lines 490, 517-527)   *)
(* and phase 3 does not look at again.                                     *)
DistancesKeptByPhase3 ==
    [][phase = "phase3" =>
        \A i \in 1..Len(traces) :
            LET from == Name(traces[i].from)
                to == Name(traces[i].to)
            IN {from, to} \subseteq Nodes(g) => SameDistance(g, g', from, to)]_vars

(* Trace preservation (line 499): merging never puts two edges of one path *)
(* into one, so every path keeps its number of edges.                      *)
PathEdges(h, path) == {e \in Edges(h) : path \in h.label[e].path}

PathsKeptByPhase3 ==
    [][phase = "phase3" =>
        \A i \in 1..Len(traces) :
            LET path == PathName(traces[i])
            IN Cardinality(PathEdges(g', path)) = Cardinality(PathEdges(g, path))]_vars

(* Merging never makes one router of two that answered (lines 287-297),    *)
(* and never lets one that answered pass for one that did not, whichever   *)
(* of two nodes a contraction keeps and whichever type the other one had   *)
(* by then (max, lines 50-56, and lines 172-212).                          *)
Answering(h) == {n \in Nodes(h) : TypeOf(h, n) = "R"}

RoutersKeptByPhase3 ==
    [][phase = "phase3" => Cardinality(Answering(g')) = Cardinality(Answering(g))]_vars

(* The two edges that phase 3 picks are compatible whenever there are two, *)
(* whatever became of their ends' types since phase 2 compared them, and   *)
(* whichever way round an option was renamed.  The branch for an           *)
(* incompatible pair takes nothing out of any list (lines 579-613), so     *)
(* that the loop of line 623 would never end.                              *)
PickedPairCompatible ==
    phase = "phase3" /\ ExistMergeOption(g) =>
        SecondEdge = <<>> \/ Compatible(g, FirstEdge, SecondEdge)

(* The merge of those two edges never throws, so that no graph is left     *)
(* half merged: their ends have labels, and the second edge is no loop,    *)
(* whatever was contracted since phase 2 tried this merge on a copy (lines *)
(* 194-212).                                                               *)
PickedPairMerges ==
    phase = "phase3" /\ ExistMergeOption(g) =>
        SecondEdge = <<>> \/ ~MergeThrows(g, FirstEdge, SecondEdge)

(* A round of phase 3 that changes the graph, and does not throw, leaves   *)
(* fewer nodes, or the same nodes and fewer edges with options, although   *)
(* setEdge makes nodes anew and a merge renames options: the loop of line  *)
(* 623 can only go on for ever in a round that changes nothing.            *)
Open(h) == {e \in Edges(h) : Options(h, e) # <<>>}

Phase3Advances ==
    [][Phase3Core /\ phase' # "failed" =>
        \/ Cardinality(Nodes(g')) < Cardinality(Nodes(g))
        \/ Nodes(g') = Nodes(g) /\ Cardinality(Open(g')) < Cardinality(Open(g))]_vars

(* Two edges that cannot be merged any more are taken out of each other's  *)
(* options: "Mi = Mi \ {ej}", "Mj = Mj \ {ei}" (lines 598, 610).  Nothing   *)
(* else changes in such a round, and the loop of line 623 never ends if    *)
(* they are not.                                                           *)
IncompatiblePairDropped ==
    phase = "phase3" /\ ExistMergeOption(g) =>
        LET after == Spliced(FirstEdge, SecondEdge)
        IN \/ SecondEdge = <<>> \/ Compatible(g, FirstEdge, SecondEdge)
           \/ /\ SecondEdge \notin ToSet(Options(after, FirstEdge))
              /\ FirstEdge \notin ToSet(Options(after, SecondEdge))

(* The option that phase 3 picks has options of its own: the code logs "EJ *)
(* is undefined error" otherwise (line 554), throws the options away and   *)
(* asserts that the second edge is defined (line 577).                     *)
SecondEdgeDefined == phase = "phase3" /\ ExistMergeOption(g) => SecondEdge # <<>>

(* What the graph stands for: its links, without loops.                    *)
LinksOfGraph(h) ==
    UNION {({e[1]} \X {e[2]} \X h.label[e].path) \cup ({e[2]} \X {e[1]} \X h.label[e].path) :
              e \in {e \in Edges(h) : e[1] # e[2]}}

Topology == INSTANCE VirtualTopology
    WITH nodes <- Nodes(g), links <- LinksOfGraph(g), drawing <- phase \in {"new", "phase1"}

(* Phase 1 only adds links, of one path at a time, phase 2 changes none,   *)
(* and a merge of phase 3 glues the ends of two edges: in whatever order   *)
(* nodeContraction moves the edges of a node, onto whichever edges there   *)
(* are already and whichever end was contracted before, it invents no      *)
(* link, and every link keeps all of its paths (lines 159-212).            *)
RefinesTopology == Topology!Spec

(* The edges that are picked do not follow one another: the second does    *)
(* not start where the first ends, nor end where the first starts.         *)
PickedPairApart ==
    phase = "phase3" /\ ExistMergeOption(g) =>
        \/ SecondEdge = <<>> \/ ~Compatible(g, FirstEdge, SecondEdge)
        \/ /\ FirstEdge[1] # FirstEdge[2]
           /\ FirstEdge[1] # SecondEdge[2] /\ FirstEdge[2] # SecondEdge[1]

(* The edges that a trace was drawn on still lead from its origin to its   *)
(* last hop, or to the destination of a trace that was joined, whatever    *)
(* was merged, as long as both are there: no path is torn or handed on to  *)
(* other routers (lines 358-471 and 172-212).                              *)
Destination(t) == IF Reached(t) THEN Name(Last(t.hops)) ELSE Name(t.to)

Leads(h, t) ==
    Topology!Lead(Topology!Along(LinksOfGraph(h), PathName(t)), Name(t.from), Destination(t))

TracesLead ==
    phase \in {"phase2", "phase3", "done"} =>
        \A i \in 1..Len(traces) :
            LET t == traces[i]
            IN (Reached(t) \/ Joined(i)) /\ {Name(t.from), Destination(t)} \subseteq Nodes(g)
                  => Leads(g, t)

(* A trace that is joined brings in all the hops of the way back that      *)
(* answered: only those blocked "from B to A" are discarded (line 405).    *)
HopsBackDrawn ==
    [][\A i \in used' \ used :
        {Name(a) : a \in ToSet(traces[i].hops) \ {0}} \subseteq Nodes(g')]_vars
=============================================================================

------------------------------ MODULE WebProofs ------------------------------
(***************************************************************************)
(* Proofs about the web server, under any requests of the pages and of     *)
(* hand, in any order, with traces that keep arriving: the one graph that  *)
(* all requests share stays well formed, and the graph that is served last *)
(* is the one that the next request goes on with.                          *)
(***************************************************************************)
EXTENDS GuiProofs, ITopProofs

WebTyped == ITopTyped /\ late \in Seq(Trace)

-----------------------------------------------------------------------------
(* What a step of the whole system is for the server.                      *)
MadeITop ==
    /\ \E r, named : \E d \in Nat : MakeITop(r, named, d)
    /\ late' = late

Continued ==
    /\ \E r : \E at \in {"phase2", "phase3"} : Continue(r, at)
    /\ late' = late

Nothing == UNCHANGED <<vars, graphs, late, request>>

LEMMA ServerSteps ==
    ASSUME [GuiNext]_all
    PROVE  MadeITop \/ Continued \/ Nothing \/ TraceArrives \/ Work
  <1>1. CASE \/ \E p \in Views : ChangeMenu(p)
             \/ Click \/ Reload \/ Slide \/ Receive
    <2>1. UNCHANGED server
      BY <1>1 DEF ChangeMenu, Click, Reload, Slide, Gesture, Receive
    <2>. QED  BY <2>1 DEF server, Nothing, vars
  <1>2. CASE Handle
    <2>1. PICK i \in 1..Len(fetches) : HandleRead(i) \/ HandleInit(i)
      BY <1>2 DEF Handle
    <2>2. CASE HandleRead(i)
      BY <2>2 DEF HandleRead, server, Nothing, vars
    <2>3. CASE HandleInit(i)
      <3>1. MakeITop("init", TRUE, 0) /\ late' = late
        BY <2>3 DEF HandleInit, GetInit
      <3>2. 0 \in Nat
        OBVIOUS
      <3>. QED  BY <3>1, <3>2, Zenon DEF MadeITop
    <2>. QED  BY <2>1, <2>2, <2>3
  <1>3. CASE Typed
    <2>1. late' = late
      BY <1>3 DEF Typed
    <2>2. PICK d \in Diameters \cup {0} : GetPhase1(d) \/ GetPhase2 \/ GetPhase3Step
      BY <1>3 DEF Typed
    <2>3. d \in Nat
      BY WebAssumption
    <2>4. \/ MakeITop("phase1", FALSE, d)
          \/ Continue("phase2", "phase2")
          \/ Continue("phase3step", "phase3")
          \/ Answered500
      BY <2>2, Zenon DEF GetPhase1, GetPhase2, GetPhase3Step
    <2>5. CASE MakeITop("phase1", FALSE, d)
      BY <2>1, <2>3, <2>5, Zenon DEF MadeITop
    <2>6. CASE Continue("phase2", "phase2") \/ Continue("phase3step", "phase3")
      BY <2>1, <2>6, Zenon DEF Continued
    <2>7. CASE Answered500
      BY <2>1, <2>7 DEF Answered500, Nothing, vars
    <2>. QED  BY <2>4, <2>5, <2>6, <2>7
  <1>4. CASE UNCHANGED all
    BY <1>4 DEF all, server, Nothing, vars
  <1>5. CASE Compute \/ TraceArrives
    BY <1>5, Zenon DEF Compute
  <1>. QED  BY <1>1, <1>2, <1>3, <1>4, <1>5, Zenon DEF GuiNext, Others

-----------------------------------------------------------------------------
(* The one step of a request that ITop alone does not make: phase 1 stops  *)
(* where it wants a name and has no generator.                             *)
LEMMA NamelessInv ==
    ASSUME ITopTyped, Phase1Nameless
    PROVE  ITopTyped' /\ OptionsKept
  <1>. DEFINE t == traces[next]
              opposite == OppositePath(t)
              I == {i \in 1..Len(t.hops) : t.hops[i] = 0}
              silent == SelectInSeq(t.hops, LAMBDA a : a = 0)
              before == SubSeq(t.hops, 1, silent - 1)
              nodes == <<Router(Name(t.from))>> \o HopNodes(before, anonymous)
  <1>1. /\ IsInput(input) /\ NamesOK /\ anonymous \in Nat /\ known \in Nat
        /\ next \in Nat \ {0} /\ used \subseteq 1..Len(traces) /\ GraphInv(g)
        /\ phase = "phase1" /\ next <= Len(traces)
        /\ UNCHANGED <<input, anonymous>>
    BY DEF ITopTyped, Phase1Nameless
  <1>2. next \in 1..Len(traces) /\ Len(traces) \in Nat
    BY <1>1 DEF IsInput, traces
  <1>3. t \in Trace /\ t.hops \in Seq(Nat) /\ Len(t.hops) \in Nat /\ PathName(t) \in Pair
    BY <1>1, <1>2, TraceOK, PathNameOK
  <1>4. /\ NeedsName(t, opposite)
        /\ used' = IF Reached(t) THEN used ELSE used \cup Flags(opposite)
        /\ Throw(AddStretch(g, nodes, PathName(t)))
    BY Zenon DEF Phase1Nameless
  <1>5. silent \in 0..Len(t.hops)
    <2>1. silent = IF I # {} THEN Min(I) ELSE 0
      BY DEF SelectInSeq
    <2>2. I \in SUBSET (1..Len(t.hops))
      OBVIOUS
    <2>. HIDE DEF I, silent
    <2>. QED  BY <1>3, <2>1, <2>2, LeastIndex
  <1>6. before \in Seq(Nat)
    <2>. HIDE DEF silent
    <2>1. silent - 1 \in Int /\ silent - 1 <= Len(t.hops)
      BY <1>3, <1>5
    <2>. QED  BY <1>3, <2>1
  <1>7. nodes \in Seq(Node)
    <2>. HIDE DEF before
    <2>1. HopNodes(before, anonymous) \in Seq(Node)
      BY <1>1, <1>6, HopNodesOK
    <2>2. Router(Name(t.from)) \in Node
      BY <1>1, <1>3, PathNameOK, RouterNode
    <2>. QED  BY <2>1, <2>2
  <1>8. used' \subseteq 1..Len(traces)
    <2>1. opposite \in 0..Len(traces)
      BY <1>1, OppositeIndex
    <2>2. ~Reached(t) => opposite # 0
      BY <1>4 DEF NeedsName
    <2>. HIDE DEF t, opposite
    <2>. QED  BY <1>1, <1>2, <1>4, <2>1, <2>2 DEF Flags
  <1>. HIDE DEF nodes, t
  <1>9. GraphInv(g') /\ (NoOwnOption(g) => NoOwnOption(g'))
    BY <1>1, <1>3, <1>4, <1>7, AddStretchInv DEF Throw
  <1>10. UNCHANGED <<names, known, next>> /\ phase' = "failed"
    BY <1>4 DEF Throw
  <1>. QED  BY <1>1, <1>8, <1>9, <1>10 DEF ITopTyped, OptionsKept, NamesOK, traces

LEMMA WorkSteps ==
    ASSUME Work
    PROVE  (Next \/ Phase1Nameless) /\ late' = late
  BY Zenon DEF Work, Steps, Phase1OfRequest, Phase3OfRequest, EndOfPhase, Next

LEMMA WorkInv ==
    ASSUME ITopTyped, Work
    PROVE  ITopTyped' /\ OptionsKept
  BY WorkSteps, NamelessInv, TypedNext

-----------------------------------------------------------------------------
(* The data of the server: a distance is set, a trace comes.               *)
LEMMA DiameterSet ==
    ASSUME NEW in, IsInput(in), NEW d \in Nat,
           NEW r, r = [in EXCEPT !.diameter = d]
    PROVE  IsInput(r) /\ r.traces = in.traces
  <1>1. DOMAIN in = {"traces", "alias", "distance", "diameter", "routers"}
    BY DEF IsInput
  <1>2. /\ DOMAIN r = DOMAIN in
        /\ r.traces = in.traces /\ r.alias = in.alias /\ r.distance = in.distance
        /\ r.diameter = d /\ r.routers = in.routers
    BY <1>1
  <1>. QED  BY <1>1, <1>2 DEF IsInput

LEMMA TracesSet ==
    ASSUME NEW in, IsInput(in), NEW s \in Seq(Trace),
           NEW r, r = [in EXCEPT !.traces = s]
    PROVE  IsInput(r) /\ r.traces = s
  <1>1. DOMAIN in = {"traces", "alias", "distance", "diameter", "routers"}
    BY DEF IsInput
  <1>2. /\ DOMAIN r = DOMAIN in
        /\ r.traces = s /\ r.alias = in.alias /\ r.distance = in.distance
        /\ r.diameter = in.diameter /\ r.routers = in.routers
    BY <1>1
  <1>. QED  BY <1>1, <1>2 DEF IsInput, Trace

LEMMA MadeInv ==
    ASSUME WebTyped, MadeITop
    PROVE  WebTyped' /\ NoOwnOption(g')
  <1>1. PICK r, named, d : d \in Nat /\ MakeITop(r, named, d) /\ late' = late
    BY Zenon DEF MadeITop
  <1>2. /\ input' = [input EXCEPT !.diameter = d]
        /\ g' = EmptyGraph /\ phase' = "new" /\ next' = 1
        /\ UNCHANGED <<names, anonymous, known, used>>
    BY <1>1 DEF MakeITop
  <1>3. IsInput(input') /\ input'.traces = input.traces
    BY <1>1, <1>2, DiameterSet DEF WebTyped, ITopTyped
  <1>4. GraphInv(g') /\ NoOwnOption(g')
    BY <1>2, EmptyGraphInv DEF NoOwnOption
  <1>. QED  BY <1>1, <1>2, <1>3, <1>4 DEF WebTyped, ITopTyped, NamesOK, traces

LEMMA ContinuedInv ==
    ASSUME WebTyped, Continued
    PROVE  WebTyped' /\ g' = g
  <1>1. /\ UNCHANGED <<input, names, anonymous, known, used, g, late>> /\ next' = 1
        /\ phase' \in {"phase2", "phase3"}
    BY DEF Continued, Continue
  <1>. QED  BY <1>1 DEF WebTyped, ITopTyped, NamesOK, traces

LEMMA ArrivedInv ==
    ASSUME WebTyped, TraceArrives
    PROVE  WebTyped' /\ g' = g
  <1>1. /\ input' = [input EXCEPT !.traces = Append(input.traces, Head(late))]
        /\ late # <<>> /\ late' = Tail(late) /\ used' = {}
        /\ UNCHANGED <<names, anonymous, known, g, phase, next>>
    BY DEF TraceArrives
  <1>2. Head(late) \in Trace /\ late' \in Seq(Trace)
    BY <1>1 DEF WebTyped
  <1>3. input.traces \in Seq(Trace)
    BY DEF WebTyped, ITopTyped, IsInput, Trace
  <1>4. Append(input.traces, Head(late)) \in Seq(Trace)
    BY <1>2, <1>3
  <1>5. IsInput(input')
    BY <1>1, <1>4, TracesSet DEF WebTyped, ITopTyped
  <1>. QED  BY <1>1, <1>2, <1>5 DEF WebTyped, ITopTyped, NamesOK

LEMMA WebInitInv == GuiInit => WebTyped /\ NoOwnOption(g) /\ graphs = <<>>
  <1>. SUFFICES ASSUME GuiInit PROVE WebTyped /\ NoOwnOption(g) /\ graphs = <<>>
    OBVIOUS
  <1>1. PICK in \in Inputs : \E k \in 1..Len(in.traces) :
           /\ input = [in EXCEPT !.traces = SubSeq(in.traces, 1, k)]
           /\ late = SubSeq(in.traces, k + 1, Len(in.traces))
           /\ names = in.alias /\ known = in.routers
    BY DEF GuiInit, WebInit
  <1>2. PICK k \in 1..Len(in.traces) :
           /\ input = [in EXCEPT !.traces = SubSeq(in.traces, 1, k)]
           /\ late = SubSeq(in.traces, k + 1, Len(in.traces))
           /\ names = in.alias /\ known = in.routers
    BY <1>1
  <1>3. IsInput(in)
    BY ITopAssumption
  <1>4. in.traces \in Seq(Trace)
    BY <1>3 DEF IsInput, Trace
  <1>5. Len(in.traces) \in Nat
    BY <1>4
  <1>6. SubSeq(in.traces, 1, k) \in Seq(Trace) /\ late \in Seq(Trace)
    BY <1>2, <1>4, <1>5
  <1>7. IsInput(input)
    BY <1>2, <1>3, <1>6, TracesSet
  <1>8. NamesOK /\ known \in Nat
    BY <1>2, <1>3 DEF NamesOK, IsInput
  <1>9. /\ anonymous = 0 /\ used = {} /\ g = EmptyGraph
        /\ phase = "new" /\ next = 1 /\ graphs = <<>>
    BY DEF GuiInit, WebInit
  <1>10. GraphInv(g) /\ NoOwnOption(g)
    BY <1>9, EmptyGraphInv DEF NoOwnOption
  <1>. QED  BY <1>6, <1>7, <1>8, <1>9, <1>10 DEF WebTyped, ITopTyped

LEMMA WebTypedNext ==
    ASSUME WebTyped, [GuiNext]_all
    PROVE  WebTyped'
  <1>1. CASE Work
    BY <1>1, WorkSteps, WorkInv DEF WebTyped
  <1>2. CASE Nothing
    BY <1>2 DEF Nothing, vars, WebTyped, ITopTyped, NamesOK, traces
  <1>. QED  BY <1>1, <1>2, ServerSteps, MadeInv, ContinuedInv, ArrivedInv

LEMMA WebTypedInvariant == GuiSpec => []WebTyped
  <1>1. WebTyped /\ [GuiNext]_all => WebTyped'
    BY WebTypedNext
  <1>. QED  BY <1>1, WebInitInv, PTL DEF GuiSpec

(* The graph of the server is well formed whatever requests are made, on   *)
(* whatever graph a failed one left, and whatever traces come between      *)
(* (lines 212-260 of index.js).                                            *)
THEOREM WebTypeCorrect == GuiSpec => []TypeOK
  <1>1. WebTyped => TypeOK
    BY TypedIsTypeOK DEF WebTyped
  <1>. QED  BY <1>1, WebTypedInvariant, PTL
-----------------------------------------------------------------------------
(* The graph that is served last.  An iTop whose phase 1 is not over has   *)
(* served none; phase 2 changes no node and no edge.                       *)
ServedInv ==
    /\ phase \in {"new", "phase1"} => graphs = <<>>
    /\ graphs # <<>> => Last(graphs) = Snapshot(g)

WebInv == WebTyped /\ IsSeq(graphs) /\ ServedInv /\ NoOwnOption(g)

LEMMA LastAppended ==
    ASSUME NEW q, IsSeq(q), NEW x
    PROVE  Last(Append(q, x)) = x
  <1>1. Len(q) \in Nat
    BY SeqIsFunction
  <1>. QED  BY <1>1, AppendSeq DEF Last

LEMMA Phase2Snapshot ==
    ASSUME ITopTyped, Phase2
    PROVE  Snapshot(g') = Snapshot(g)
  <1>. DEFINE e == g.edges[next]
  <1>1. GraphInv(g) /\ next \in Nat \ {0} /\ next <= Len(g.edges)
    BY DEF ITopTyped, Phase2
  <1>2. e \in Edges(g)
    BY <1>1 DEF GraphInv, Edges, ToSet
  <1>3. \A options \in Seq(Pair) :
            LET r == [g EXCEPT !.label[e].options = options]
            IN Nodes(r) = Nodes(g) /\ r.edges = g.edges
    BY <1>1, <1>2, SetOptionsInv
  <1>4. MergeOptions(e) \in Seq(Pair) /\ OptionsBefore(e) \in Seq(Pair)
    BY <1>1, <1>2, OptionsListed
  <1>5. \/ g' = [g EXCEPT !.label[e].options = OptionsBefore(e)]
        \/ g' = [g EXCEPT !.label[e].options = MergeOptions(e)]
    BY DEF Phase2, Throw
  <1>6. \A options \in Seq(Pair) :
            Snapshot([g EXCEPT !.label[e].options = options]) = Snapshot(g)
    BY <1>3, Zenon DEF Snapshot
  <1>. HIDE DEF e
  <1>. QED  BY <1>4, <1>5, <1>6

LEMMA Phase3Merges ==
    ASSUME Phase3Core, PickedPairMerges
    PROVE  phase' = "phase3"
  BY DEF Phase3Core, PickedPairMerges

(* What the work of a request leaves of the list of graphs.                *)
LEMMA ServedWork ==
    ASSUME WebInv, PickedPairMerges, Work
    PROVE  ServedInv'
  <1>1. /\ ITopTyped /\ IsSeq(graphs)
        /\ phase \in {"new", "phase1"} => graphs = <<>>
        /\ graphs # <<>> => Last(graphs) = Snapshot(g)
    BY DEF WebInv, WebTyped, ServedInv
  <1>2. CASE Steps
    <2>1. graphs' = graphs
      BY <1>2 DEF Steps
    <2>2. CASE Construct \/ Phase1OfRequest
      <3>1. phase \in {"new", "phase1"}
        BY <2>2 DEF Construct, Phase1OfRequest, Phase1Nameless, Phase1
      <3>. QED  BY <1>1, <2>1, <3>1 DEF ServedInv
    <2>3. CASE Phase2
      <3>1. Snapshot(g') = Snapshot(g)
        BY <1>1, <2>3, Phase2Snapshot
      <3>2. phase' \in {"phase2", "failed"}
        BY <2>3 DEF Phase2, Throw
      <3>. QED  BY <1>1, <2>1, <3>1, <3>2 DEF ServedInv
    <2>. QED  BY <1>2, <2>2, <2>3 DEF Steps
  <1>3. CASE \/ Phase1Ends /\ EndOfPhase("phase1")
             \/ Phase2Ends /\ EndOfPhase("phase2")
    <2>1. g' = g /\ phase' \in {"phase2", "phase3"} /\ graphs' = Append(graphs, Snapshot(g))
      BY <1>3 DEF Phase1Ends, Phase2Ends, EndOfPhase
    <2>2. Last(graphs') = Snapshot(g')
      BY <1>1, <2>1, LastAppended
    <2>. QED  BY <2>1, <2>2 DEF ServedInv
  <1>4. CASE Phase3OfRequest
    <2>1. phase' = "phase3"
      BY <1>4, Phase3Merges DEF Phase3OfRequest
    <2>2. graphs' = Append(graphs, Snapshot(g'))
      BY <1>4, <2>1 DEF Phase3OfRequest
    <2>3. Last(graphs') = Snapshot(g')
      BY <1>1, <2>2, LastAppended
    <2>. QED  BY <2>1, <2>3 DEF ServedInv
  <1>5. CASE Phase3Ends /\ graphs' = graphs
    <2>1. g' = g /\ phase' = "done"
      BY <1>5 DEF Phase3Ends
    <2>. QED  BY <1>1, <1>5, <2>1 DEF ServedInv
  <1>. QED  BY <1>2, <1>3, <1>4, <1>5 DEF Work

LEMMA WebNext ==
    ASSUME WebInv, PickedPairMerges, [GuiNext]_all
    PROVE  ServedInv' /\ NoOwnOption(g')
  <1>1. WebTyped /\ NoOwnOption(g) /\ ServedInv
    BY DEF WebInv
  <1>2. CASE Work
    <2>1. phase = "phase3" => phase' # "failed"
      BY <1>2, Phase3Merges
         DEF Work, Steps, Phase3OfRequest, Construct, Phase1OfRequest, Phase1Nameless, Phase1,
             Phase2, Phase1Ends, Phase2Ends, Phase3Ends
    <2>2. NoOwnOption(g')
      BY <1>1, <1>2, <2>1, WorkInv DEF OptionsKept, WebTyped
    <2>. QED  BY <1>2, <2>2, ServedWork
  <1>3. CASE MadeITop
    <2>1. graphs' = <<>>
      BY <1>3 DEF MadeITop, MakeITop
    <2>. QED  BY <1>1, <1>3, <2>1, MadeInv DEF ServedInv
  <1>4. CASE Continued
    <2>1. graphs' = graphs /\ phase' \in {"phase2", "phase3"}
      BY <1>4 DEF Continued, Continue
    <2>. QED  BY <1>1, <1>4, <2>1, ContinuedInv DEF ServedInv
  <1>5. CASE TraceArrives
    <2>1. graphs' = graphs /\ phase' = phase
      BY <1>5 DEF TraceArrives
    <2>. QED  BY <1>1, <1>5, <2>1, ArrivedInv DEF ServedInv
  <1>6. CASE Nothing
    BY <1>1, <1>6 DEF Nothing, vars, ServedInv
  <1>. QED  BY <1>2, <1>3, <1>4, <1>5, <1>6, ServerSteps

LEMMA WebInvariant == GuiSpec /\ []PickedPairMerges => []WebInv
  <1>1. GuiInit => WebInv
    BY WebInitInv DEF WebInv, ServedInv, IsSeq
  <1>2. WebInv /\ PickedPairMerges /\ TabInv' /\ WebTyped' /\ [GuiNext]_all => WebInv'
    BY WebNext DEF WebInv, TabInv
  <1>. QED  BY <1>1, <1>2, TabInvariant, WebTypedInvariant, PTL DEF GuiSpec

(* As long as no merge throws halfway: between requests the last graph     *)
(* that /graphs serves is the one that /phase2 and /phase3step go on with, *)
(* whichever phases ended, failed or were asked for again (index.js lines  *)
(* 207-260).                                                               *)
THEOREM ServedGraphIsCurrent == GuiSpec /\ []PickedPairMerges => []ServesCurrentGraph
  <1>1. WebInv => ServesCurrentGraph
    BY DEF WebInv, ServedInv, ServesCurrentGraph
  <1>. QED  BY <1>1, WebInvariant, PTL

(* As long as no merge throws halfway, every round of phase 3 counts down, *)
(* also on a graph that was merged before and of traces that came since:   *)
(* no request of /init, /phase2 or /phase3step merges for ever, though one *)
(* may repeat a round that changes nothing.                                *)
THEOREM RoundsOfRequestsAdvance == GuiSpec /\ []PickedPairMerges => Phase3Advances
  <1>1. WebInv =>
          [Phase3Core /\ phase' # "failed" =>
             \/ Cardinality(Nodes(g')) < Cardinality(Nodes(g))
             \/ Nodes(g') = Nodes(g) /\ Cardinality(Open(g')) < Cardinality(Open(g))]_vars
    BY RoundAdvances DEF WebInv, WebTyped
  <1>. QED  BY <1>1, WebInvariant, PTL DEF Phase3Advances
-----------------------------------------------------------------------------
(* The links that a run of phase 1 draws.  No trace comes while it works.  *)
RunInv ==
    /\ LinksDrawnByEveryRun
    /\ phase = "new" => next = 1
    /\ phase = "phase1" => ~Idle

LEMMA RunWork ==
    ASSUME ITopTyped, RunInv, Work
    PROVE  RunInv'
  <1>1. ~Idle /\ (phase = "new" => next = 1) /\ (phase = "phase1" => LinksDrawn)
    BY DEF Work, RunInv, LinksDrawnByEveryRun
  <1>2. CASE Construct
    <2>1. phase' = "phase1" /\ next = 1
      BY <1>1, <1>2 DEF Construct
    <2>2. Steps
      BY <1>2 DEF Work, Steps, Construct, Phase1Ends, Phase2Ends, Phase3OfRequest,
                  Phase3Core, Phase3Ends
    <2>3. request' = request
      BY <2>1, <2>2 DEF Steps
    <2>. QED  BY <1>1, <1>2, <2>1, <2>3, LinksOfConstruct DEF RunInv, LinksDrawnByEveryRun, Idle
  <1>3. CASE Phase1
    <2>1. phase = "phase1" /\ phase' \in {"phase1", "failed"}
      BY <1>3 DEF Phase1, Throw, NotJoined
    <2>2. LinksDrawn'
      BY <1>1, <1>3, <2>1, LinksOfPhase1
    <2>3. phase' = "phase1" => request' = request
      BY <2>1 DEF Work, Steps, Phase1Ends, Phase2Ends, Phase3OfRequest, Phase3Core, Phase3Ends
    <2>. QED  BY <1>1, <2>1, <2>2, <2>3 DEF RunInv, LinksDrawnByEveryRun, Idle
  <1>4. CASE phase' \notin {"new", "phase1"}
    BY <1>4 DEF RunInv, LinksDrawnByEveryRun
  <1>5. Construct \/ Phase1 \/ phase' \notin {"new", "phase1"}
    BY DEF Work, Steps, Phase1OfRequest, Phase1Nameless, Phase2, Phase1Ends, Phase2Ends,
           Phase3OfRequest, Phase3Core, Phase3Ends, Throw
  <1>. QED  BY <1>2, <1>3, <1>4, <1>5

LEMMA RunNext ==
    ASSUME ITopTyped, RunInv, [GuiNext]_all
    PROVE  RunInv'
  <1>1. CASE MadeITop
    <2>1. phase' = "new" /\ next' = 1
      BY <1>1 DEF MadeITop, MakeITop
    <2>. QED  BY <2>1 DEF RunInv, LinksDrawnByEveryRun
  <1>2. CASE Continued
    <2>1. phase' \in {"phase2", "phase3"}
      BY <1>2 DEF Continued, Continue
    <2>. QED  BY <2>1 DEF RunInv, LinksDrawnByEveryRun
  <1>3. CASE TraceArrives
    <2>1. phase # "phase1" /\ phase' = phase /\ next' = next
      BY <1>3 DEF TraceArrives, RunInv
    <2>. QED  BY <2>1 DEF RunInv, LinksDrawnByEveryRun
  <1>4. CASE Nothing
    <2>1. UNCHANGED <<input, names, g, used, phase, next, request>>
      BY <1>4 DEF Nothing, vars
    <2>2. phase = "phase1" => LinksDrawn'
      <3>1. Grown(g, g') /\ \A i : LookedAt(i)' => LookedAt(i)
        BY <2>1 DEF Grown, LookedAt
      <3>. QED  BY <2>1, <3>1, LinksKept DEF RunInv, LinksDrawnByEveryRun
    <2>. QED  BY <2>1, <2>2 DEF RunInv, LinksDrawnByEveryRun, Idle
  <1>. QED  BY <1>1, <1>2, <1>3, <1>4, ServerSteps, RunWork

(* Whatever requests came before it, whatever they left behind and however *)
(* many traces came since: a run of phase 1 draws the links of each trace  *)
(* it looks at (index.js lines 212-219; itop.js lines 159-170, 371-425).   *)
THEOREM EveryRunDrawsLinks == GuiSpec => []LinksDrawnByEveryRun
  <1>1. GuiInit => RunInv
    BY DEF GuiInit, WebInit, RunInv, LinksDrawnByEveryRun
  <1>2. ITopTyped /\ RunInv /\ [GuiNext]_all => RunInv'
    BY RunNext
  <1>3. WebTyped => ITopTyped
    BY DEF WebTyped
  <1>4. GuiSpec => []RunInv
    BY <1>1, <1>2, <1>3, WebTypedInvariant, PTL DEF GuiSpec
  <1>5. RunInv => LinksDrawnByEveryRun
    BY DEF RunInv
  <1>. QED  BY <1>4, <1>5, PTL
=============================================================================

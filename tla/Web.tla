-------------------------------- MODULE Web ----------------------------------
(***************************************************************************)
(* The web server of server/index.js (lines 171-367): what a request does  *)
(* to the one iTop that all requests share, while traces keep arriving     *)
(* (lines 74-77).  The work of a request is the work of ITop; node runs    *)
(* one request at a time, and an exception is answered by express with a   *)
(* 500, which leaves everything as the exception found it.                 *)
(*                                                                         *)
(* /merge makes an iTop of its own from nothing, whose constructor throws  *)
(* (itop.js line 327): it changes no state, like the reads of "/".         *)
(***************************************************************************)
EXTENDS ITop

CONSTANTS Diameters,      \* what /phase1/:distance is asked for
          MaxRequests     \* bound on the requests that are typed in by hand

ASSUME WebAssumption == Diameters \subseteq Nat \ {0} /\ MaxRequests \in Nat

VARIABLES
    run,          \* how many iTops were made; itop is undefined when none was
    generator,    \* itop was made with anonRouter
    graphs,       \* itop.graphs
    request,      \* the request at work, or "none"
    late,         \* the traces still to come
    typed         \* the requests typed in so far

server == <<input, names, anonymous, known, used, g, phase, next,
            run, generator, graphs, request, late, typed>>

Idle == request = "none"

(* graphlib.json.write, without the labels: those are shared with g.       *)
Snapshot(h) == [nodes |-> Nodes(h), edges |-> h.edges]

WebInit ==
    /\ \E in \in Inputs : \E k \in 1..Len(in.traces) :
          /\ input = [in EXCEPT !.traces = SubSeq(@, 1, k)]
          /\ late = SubSeq(in.traces, k + 1, Len(in.traces))
          /\ names = in.alias /\ known = in.routers
    /\ anonymous = 0 /\ used = {} /\ g = EmptyGraph
    /\ phase = "new" /\ next = 1
    /\ run = 0 /\ generator = FALSE /\ graphs = <<>>
    /\ request = "none" /\ typed = 0

(* A trace is appended, and every trace may be looked at again.            *)
TraceArrives ==
    /\ Idle /\ late # <<>>
    /\ input' = [input EXCEPT !.traces = Append(@, Head(late))]
    /\ late' = Tail(late)
    /\ used' = {}
    /\ UNCHANGED <<names, anonymous, known, g, phase, next,
                   run, generator, graphs, request, typed>>

-----------------------------------------------------------------------------
(* The handlers, up to the work of the iTop.                               *)
Answered500 == UNCHANGED <<input, names, anonymous, known, used, g, phase, next,
                           run, generator, graphs, request>>

(* A new iTop has a graph and a list of graphs of its own, but the names   *)
(* and the traces, with their flags, of those before it.                   *)
MakeITopOnOldGraphs(r, named, diameter) ==      \* mutant: keeps the list
    /\ run' = run + 1 /\ generator' = named
    /\ input' = [input EXCEPT !.diameter = diameter]
    /\ g' = EmptyGraph /\ graphs' = graphs
    /\ phase' = "new" /\ next' = 1
    /\ request' = r
    /\ UNCHANGED <<names, anonymous, known, used>>

MakeITopAtOldTrace(r, named, diameter) ==      \* mutant: goes on where the last one was
    /\ run' = run + 1 /\ generator' = named
    /\ input' = [input EXCEPT !.diameter = diameter]
    /\ g' = EmptyGraph /\ graphs' = <<>>
    /\ phase' = "new" /\ next' = next
    /\ request' = r
    /\ UNCHANGED <<names, anonymous, known, used>>

MakeITop(r, named, diameter) ==
    /\ run' = run + 1 /\ generator' = named
    /\ input' = [input EXCEPT !.diameter = diameter]
    /\ g' = EmptyGraph /\ graphs' = <<>>
    /\ phase' = "new" /\ next' = 1
    /\ request' = r
    /\ UNCHANGED <<names, anonymous, known, used>>

Continue(r, at) ==
    /\ phase' = at /\ next' = 1
    /\ request' = r
    /\ UNCHANGED <<input, names, anonymous, known, used, g, run, generator, graphs>>

GetInit == MakeITop("init", TRUE, 0)

(* Without a generator, the constructor throws at an address without a     *)
(* name (itop.js line 332), and the itop before it stays.                  *)
GetPhase1(diameter) ==
    IF Unnamed = <<>> THEN MakeITop("phase1", FALSE, diameter) ELSE Answered500

GetPhase2 == IF run = 0 THEN Answered500 ELSE Continue("phase2", "phase2")

(* runStep (itop.js lines 635-640).                                        *)
GetPhase3Step ==
    IF run # 0 /\ ExistMergeOption(g) THEN Continue("phase3step", "phase3")
    ELSE Answered500

Typed ==
    /\ Idle /\ typed < MaxRequests
    /\ typed' = typed + 1
    /\ \/ \E d \in Diameters \cup {0} : GetPhase1(d)
       \/ GetPhase2
       \/ GetPhase3Step
    /\ UNCHANGED late

-----------------------------------------------------------------------------
(* The work of a request.                                                  *)

(* Without a generator, phase 1 throws when it wants a new name: at the    *)
(* first silent hop, or else at the first hidden router of a blocked trace *)
(* (itop.js lines 378, 424, 431 and 437), with the hops before it drawn.   *)
NeedsName(t, opposite) ==
    IF Reached(t) THEN SilentUpTo(t.hops, Len(t.hops)) > 0
    ELSE /\ next \notin used /\ DistanceOf(t) # -1
         /\ opposite # 0 /\ AnyAnswer(t, traces[opposite])

Phase1Nameless ==
    /\ phase = "phase1" /\ next <= Len(traces)
    /\ LET t == traces[next]
           silent == SelectInSeq(t.hops, LAMBDA a : a = 0)
       IN /\ NeedsName(t, OppositePath(t))
          /\ used' = IF Reached(t) THEN used ELSE used \cup Flags(OppositePath(t))
          /\ Throw(AddStretch(g, <<Router(Name(t.from))>>
                                    \o HopNodes(SubSeq(t.hops, 1, silent - 1), anonymous),
                              PathName(t)))
    /\ UNCHANGED <<input, anonymous>>

Phase1OfRequest ==
    IF generator THEN Phase1
    ELSE \/ Phase1Nameless
         \/ Phase1 /\ ~NeedsName(traces[next], OppositePath(traces[next]))

(* A request is over after its last phase, or with an exception; only a    *)
(* phase that ends adds to the list of graphs.                             *)
Steps ==
    /\ Construct \/ Phase1OfRequest \/ Phase2
    /\ graphs' = graphs
    /\ request' = IF phase' = "failed" THEN "none" ELSE request

EndOfPhase(r) ==
    /\ graphs' = Append(graphs, Snapshot(g))
    /\ request' = IF request = r THEN "none" ELSE request

Phase3OfRequest ==
    /\ Phase3Core
    /\ graphs' = IF phase' = "failed" THEN graphs ELSE Append(graphs, Snapshot(g'))
    /\ request' = IF phase' = "failed" \/ request = "phase3step" THEN "none" ELSE request

Work ==
    /\ ~Idle
    /\ \/ Steps
       \/ Phase1Ends /\ EndOfPhase("phase1")
       \/ Phase2Ends /\ EndOfPhase("phase2")
       \/ Phase3OfRequest
       \/ Phase3Ends /\ graphs' = graphs /\ request' = "none"
    /\ UNCHANGED <<run, generator, late, typed>>

-----------------------------------------------------------------------------
(* Properties.                                                             *)

(* Whatever requests came before, each run of phase 1 draws every pair     *)
(* that was measured: a trace that reached its end at its length, and two  *)
(* blocked traces of one pair, whose first hops answered, in one direction *)
(* or the other, although the flags of the run before are still set (lines *)
(* 382 and 394 of itop.js) and the names of the run before are in use.     *)
DrawnAt(t, length) ==
    {Name(t.from), Name(t.to)} \subseteq Nodes(g) /\ PathDistance(g, t) = length

PairsDrawnByEveryRun ==
    phase = "phase1" /\ next > Len(traces) =>
        \A i \in 1..Len(traces) :
            LET t == traces[i]
                opposite == OppositePath(t)
            IN /\ Reached(t) => DrawnAt(t, Len(t.hops))
               /\ ~Reached(t) /\ opposite # 0 =>
                    LET o == traces[opposite]
                    IN ~Reached(o) /\ t.hops[1] # 0 /\ o.hops[1] # 0 =>
                         \/ DrawnAt(t, DistanceOf(t) + 1)
                         \/ DrawnAt(o, DistanceOf(o) + 1)

(* Whatever requests came before, and whatever names and flags they left:  *)
(* each run of phase 1 draws the links of every trace that it has looked   *)
(* at and that no flag leaves to another one.                              *)
LinksDrawnByEveryRun == phase = "phase1" => LinksDrawn

(* Trace preservation in every merge that a request makes, also when       *)
(* /phase2 was asked for again on a merged graph, or a trace has come      *)
(* since: no two edges of one path become one (itop.js line 499).          *)
TracesKeptByRequests ==
    [][~Idle /\ phase = "phase3" =>
        \A i \in 1..Len(traces) :
            LET path == PathName(traces[i])
            IN Cardinality(PathEdges(g', path)) = Cardinality(PathEdges(g, path))]_server

(* Between requests, the last graph that /graphs serves is the one that    *)
(* /phase2 and /phase3step go on with, also when phase 1 or phase 2 failed *)
(* halfway; a graph is served for each phase that ended, never one of an   *)
(* iTop that was replaced (index.js lines 207, 216, 225, 242).             *)
ServesCurrentGraph == Idle /\ graphs # <<>> => Last(graphs) = Snapshot(g)
=============================================================================

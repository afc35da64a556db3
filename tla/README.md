# NetTopo, specified

NetTopo discovers the router-level topology of a network from traceroutes that
some of its routers do not answer. This directory holds a formal model of it:
TLA+ modules translated from the source, TLC configurations that check them on
small networks, and proofs checked by TLAPS. Line numbers below are those of
`server/index.js`, `server/itop.js`, `monitor/main.go` and the files of
`server-gui/src`.

1. The system · 2. What is hard · 3. The modules · 4. The runs · 5. The proofs ·
6. What is not modelled · 7. What is left

## 1. The system

| Part | Source | State it keeps | Operations |
|---|---|---|---|
| discovery server | `index.js` 1-167 | `networkData` (name -> alias list, isMonitor, ipNetInt), `tracerouteData`, the counters of `anonRouter`, the implicit global `toSend` | message handlers `notify`, `trace`, `ally_reply`; connect callbacks of outbound sockets |
| monitor | `main.go` | one process, one goroutine per request | listen, subscribe, run traceroute, run ally, report |
| iTop inference | `itop.js` | the merge graph `g`: typed nodes, edges with `path` and `mergeOption` | constructor, phase 1 (virtual topology), phase 2 (merge options), phase 3 (merging) |
| HTTP API | `index.js` 170-367 | the shared variable `itop`: its graph, its list of graphs, whether it can make names | `/init`, `/phase1`, `/phase2`, `/phase3step`, `/merge`, `/nodes`, `/graphs` |
| GUI | `server-gui/src` | the selected page; per view: data, `ready`, `loading`, the graph drawn; the `Init` that may stand in its place | menu, "Run it now!", Reload Network, slider, answers of fetches |
| ally | `ally-0.1.0` | IP-ID samples | tells whether two addresses share an IP-ID counter |

How they interact. A monitor starts, listens, and sends `notify` to the server.
The server registers it, asks the newcomer to trace the monitors registered
before, and asks those to trace the newcomer. A monitor runs each traceroute in
a goroutine of its own and sends back a `trace`. When the server has the traces
of both directions it asks both ends to test facing interfaces with ally; the
`ally_reply` messages fill the alias lists of `networkData`. A request to the
HTTP API then runs iTop on `tracerouteData` and `networkData`; the GUI shows the
graphs that the phases pushed, and starts runs with `/init`. The flags
`alreadyUsed` live on the traces, which all requests share and `trace` resets.
Every TCP connection carries one message.

What makes each part correct:

- **discovery**: no order of messages ends the server; every pair of monitors
  gets traced; only interfaces of one router are tested as aliases; an alias
  entry never mixes two routers.
- **iTop**: every address gets a name of its own; phase 1 draws every trace link
  by link and at its measured length; phase 2's options are symmetric; phase 3
  counts down, leaves no graph half merged, never makes one router of two that
  answered, and keeps the distances between monitors and the number of edges of
  every path.
- **HTTP API**: whatever was asked for before and whatever failed, each run of
  phase 1 draws what was measured, merges keep the traces, and the graphs served
  are those of the iTop at work.
- **GUI**: whoever presses "Run it now!" gets to see the data or leaves; no view
  shows an older run than the last reload; the drawing is one of the list.
- **monitor's parser**: each line of traceroute's output becomes the hop of its
  TTL.

## 2. What is hard

`PROJECT.json` lists every hazard at its line. The main ones:

- **Global state across callbacks** (`index.js` 108): `toSend` is assigned
  without `let` and read by callbacks that run later.
- **Reordering**: the traces of a pair, and the answers of ally, arrive in any
  order, more than once, and after restarts.
- **Failures**: outbound sockets have no error listener, exceptions in handlers
  are not caught, the monitor calls `log.Fatal`.
- **Checked once, used later** (`itop.js` 517-527 and 547-618): phase 2 tests
  each merge alone on the graph as it is; phase 3 performs many in a row.
- **Two copies of one relation** (`itop.js` 214-277): "e may be merged with f" is
  stored with e and with f, and every merge edits the two lists separately.
- **A loop that ends only if a branch is never taken** (`itop.js` 579-613), which
  depends on the order in which the traces arrived.
- **An operation in two halves** (`itop.js` 199-212): a merge contracts two pairs of
  nodes, and an exception in the second leaves the first done.
- **Arithmetic on measured lengths** (`itop.js` 395-451).
- **One iTop for all requests** (`index.js` 173, 216, 225): it is replaced before
  its run ends, an exception leaves it half-drawn, and `/phase2` and `/phase3step`
  go on with whatever is there, while traces arrive in between.
- **Answers out of order** (`Global.js` 19, `App.js` 58, `Topology.js` 73): the
  last answer wins, whatever it says and whenever it was given.

## 3. The modules

| Module | Models |
|---|---|
| `PairTracing` | abstract: what discovery promises about pairs of monitors |
| `Discovery` | discovery server and monitors, one module because each step of one is a message to the other; implements `PairTracing` |
| `MCDiscovery` | networks of two and three monitors for TLC |
| `DiscoveryProofs` | inductive invariants, theorems and the refinement proof of `Discovery` |
| `TracerouteParser` | `ParseTracerouteOutput` (`main.go` 98-128) as a fold over lines |
| `Traceroute`, `MCTraceroute` | a traceroute that prints line by line (external) and its parse |
| `TracerouteProofs` | theorems of `Traceroute` |
| `FoldTheorems` | what `FoldLeft` computes, for every sequence and a parameter `Op` |
| `RouterTypes` | `less`, `max`, `resultMerge` (`itop.js` 11-62) |
| `MergeGraph` | the graph and the operations that rewrite it (`itop.js` 63-83, 159-317), over what graphlib does (external) |
| `MergeGraphProofs` | theorems about `RouterTypes`, and what each operation on the graph keeps |
| `VirtualTopology` | abstract: what iTop promises of nodes and links, whatever lists it keeps them in |
| `ITop` | the three phases; composes `MergeGraph` and `RouterTypes`; implements `VirtualTopology` |
| `ITopProofs` | inductive invariants and theorems of `ITop` |
| `TopologyProofs` | the refinement proof of `ITop`, and theorems about paths and routers under merging |
| `Topologies` | traces, alias lists and distances of a small network, made with `TracerouteParser` |
| `MCITop` | the networks of the iTop runs |
| `Web` | the HTTP handlers over one shared iTop, and traces that arrive; composes `ITop` |
| `Gui` | one browser tab in front of `Web` |
| `MCGui` | the lines of the `gui` run |
| `GuiProofs` | inductive invariant and theorems of `Gui` |
| `WebProofs` | inductive invariants and theorems of `Web`, under everything `Gui` can ask for |

### Discovery

State. `networkData` is a function from names to entries, `keys` its names in
insertion order because `for..in` walks them so; `tracerouteData` is a
sequence; `toSend` is the global of line 108. `pending` holds sockets whose
connect callback has not run; a socket of line 116 carries the message type
`"toSend"`, which is only read from the global when the callback runs (`Connected`).
`process`, `jobs` and `life` are the monitors: `"listening"` is between the two
halves of `main` (lines 162-173 and 176-196).

Actions. `Receive` runs a whole handler: `ReceiveNotify`, `ReceiveTrace` (which
calls `sendResolveAliasRequests`) or `ReceiveAllyReply`. `Connect` is one connect
callback, or a refused connection, which is an uncaught error event. `Work(m)`
is a goroutine that ends: `TracerouteDone` or `AllyDone`. `ServerCrash` is an
uncaught exception. `ServerKilled`, `ServerBoot` and `MonitorDies` are the
failures nobody in the code causes, each with a bound.

Abstractions. A monitor's name stands for its two addresses. A hop is an
address or `Silent`. `Routes[a][b]` is the set of hop lists a traceroute may
give. Of two addresses of one router ally may answer either; of two routers it
always says no (`Answers`): a false positive of ally would make any alias table
wrong.

`PairTracing` has two variables: the registered monitors and, for each ordered
pair, whether its trace is untraced, asked for or traced. `Discovery` maps the
table entries with `isMonitor` to the first, and sockets, jobs, packets and
`tracerouteData` together to the second (`StatusOf`). The mapping is a refinement
while nothing fails (`NoFailure`), and `Register` is exactly one `notify`.

### TracerouteParser, Traceroute

A line of traceroute's output is its TTL and the first address in it, or
`Silent`. `MatchesTraceID` is the pattern of line 99 on the two-character field
that traceroute prints: a blank and one digit. `Parsed` folds `ReadLine` over a
whole output and is what `Topologies` makes the hops of every trace with;
`Traceroute` applies it line by line, so that invariants can speak of every
prefix of an output.

### RouterTypes, MergeGraph, ITop

A node is a number for its name, chosen so that `<` is the order of the strings,
because graphlib stores an undirected edge with its smaller end first and
`compatible` and `merge` compare first ends with first ends. `g.edges` is the
sequence of edges in insertion order, because `findEdgeWithLessMergeOptions`
takes the first of several equals. `g.label[e].path` is a set of paths,
`.options` a sequence of edges, in either orientation after a renaming. A node
created by `setEdge` shares the *one* default label object (line 357), so
`SetType` on one of them changes all (`g.default`); `Copied` is what is left
after the JSON round trip of lines 514-515, in which nothing is shared and there
is no default label.

`Contracted` and `Merged` are the two halves of `merge`: the distances that
phase 2 compares depend on the first only. `MergeThrows` tells when the second
contraction meets a node that the first one removed.

`ITop` runs `Construct`, then `Phase1` once per trace, `Phase2` once per edge,
and `Phase3Core` once per round, as `run` does; phase 2 and 3 call `MergeGraph`.
It is deterministic: what varies is the input. An exception sets `phase` to
`"failed"` and leaves `g` as drawn so far (`Throw`, `NotJoined`, `OptionsBefore`,
`ContractedStart`), because later HTTP requests find that graph. The files that phase 1 writes
(341-355) are output only. `networkDiameter` and the distances are inputs;
`DistanceOf` is -1 where the code throws. A path's name is the pair of its ends,
not the strings put together (361).

In the else branch of line 579 `mi` and `mj` are arrays, `mi.v` and `mi.w` are
`undefined`, and no option is removed: `Spliced` leaves the graph as it is, and a
round that takes this branch is a step that changes nothing.

`VirtualTopology` has the nodes, the links `<<v, w, path>>` between two different
nodes, in both directions, and `drawing`. `Draw` adds nodes, and links of one path;
`Merge` glues the ends of one edge to those of another: `Glue(n, v, w)` is the router
that n is when w is taken for v. An edge here may be a loop, and the first half of a
merge may be all there is of it. `ITop` maps the edges with their paths to links
(`LinksOfGraph`), and `drawing` to the time before phase 2; types, options, names
and the order of the edges are gone. `Lead(L, v, w)` says that the links L lead from v
to w, in the form that needs no induction: they cross every border between the two.

### Web

State. `ITop`'s variables are the one shared `itop`, its tables and flags; `run`
counts the iTops made (0: `undefined`), `generator` tells whether it can make
names (only `/init` passes `anonRouter`), `graphs` is `itop.graphs`, each a snapshot of
nodes and edges, `request` the handler at work. `late` are traces to come.

Actions. `GetInit`, `GetPhase1(d)`, `GetPhase2`, `GetPhase3Step` start a request,
as far as the handler's own lines go; `Work` is then a step of `ITop`. Node runs one
handler at a time, so nothing interleaves with `Work`. An exception is answered
by express with a 500 and leaves the shared iTop as it is at that point; without a
generator, phase 1 throws at the first name it needs (`Phase1Nameless`), and the
constructor already at an address without a name, in which case the old iTop
stays. `TraceArrives` is line 76-77: append, and reset every flag. `/phase1` twice:
a new graph, but the flags and the names of the run before. `/merge` constructs an
iTop of `undefined`, whose constructor throws: it changes nothing.

### Gui

`page` is `selectedMenu`; `view` is the state of the mounted view and of its
`Init`; `fetches` are those on their way, each `"sent"`, `"handled"` (its `/init` is
at work) or `"answered"`, with the run and the number of graphs it was answered
with, and `to`: the component that waits for it. Fetches use several connections:
any of them is handled next, any answered one received next. A component that
is unmounted becomes `"nobody"`; an `Init` that is replaced by its view hands its
fetch to that view, whose handler it calls (`WithoutButton`).

The tab moves only while the server is idle. What it does during a request
commutes with the request's steps: the server sees nothing of the tab but the
fetch it has taken up. The graph drawn is the pair of the run and the index in
its list.

## 4. The runs

| Run | Bound | Shows |
|---|---|---|
| `discovery_line` | 2 monitors, a line of 2 routers, one sometimes silent | `TypeOK`, `ServerStaysUp`, `AllySameRouter`, and under fairness `PairsGetTraced`; implements `PairTracing` (`TracesPairs`, `TracesPairsFairly`) |
| `discovery_star` | 3 monitors around 1 router | `ServerStaysUp`, `PairTraced` when three notifications overlap |
| `discovery_restart` | 3 monitors, one on a way between the others, a router on the other way; 2 boots, 1 death, a second life for the one in the middle | `KnownEnds`, `AliasSound` |
| `discovery_notify_all` | 3 monitors | **violated**: `AllOthersNotified` |
| `itop_networks` | 530 inputs: 2-3 monitors, 3-7 routers of 4 kinds, two orders of the traces | the 13 properties of `ITop` below; implements `VirtualTopology` (`RefinesTopology`) |
| `itop_order` | 144 of them: the traces of the first and the last monitor come first | **violated**: `IncompatiblePairDropped` |
| `itop_distances` | 3 monitors, silent routers | **violated**: `DistancesKeptByPhase3` |
| `itop_second_edge` | 3 monitors, silent routers | **violated**: `SecondEdgeDefined` |
| `itop_hops_back` | 2 monitors, asymmetric routes | **violated**: `HopsBackDrawn` |
| `traceroute` | 2 routers, up to 11 lines | `TypeOK`, `FirstHopsOfTheirTTL`, `NinthHopLatest` |
| `traceroute_ttl` | the same, up to 10 lines | **violated**: `ReplyOfItsTTL` |
| `gui` | 5 lines of 3 routers, 4 events (3 gestures, 2 requests) | the 9 properties of `Web` and `Gui` below |

Deadlock is not checked: discovery comes to rest when all traces and answers are
in, and a run of iTop ends.

**Bounds of discovery.** `MaxLives`, `MaxBoots` and `MaxDeaths` bound how often
processes start and die; messages and sockets need no bound, as each comes from
one of finitely many starts. Two monitors show every order of one pair; the
third is needed for a second notification inside the window of `toSend`. A
second life of a monitor and a second boot of the server are the shortest
histories in which messages of an earlier life meet a later one.
`discovery_restart` has both in three monitors, which from the beginning would be too
many states. `MidwaySpec` therefore starts where `Spec` gets to without any failure: all
three are registered and every trace is in but one between `m1` and `m3` (TLC finds both
of these states from `Init` over the same routes). The trace in the other direction went
through `m2`, which answers with its two interfaces; the one to come goes through `m2` or
through `f`. So there are alias tests of one router and of two; a positive
answer adds `x2` (or, where line 155 pushes `msg.ip`, `undefined`) to the entry of `m2`,
which its second `notify` sets back; or it arrives after a restart, makes an entry `R1`,
and a later one finds the entry of `m2`, which has announced itself again, beside it.

**Inputs of iTop.** `TreeInputs`: every kind of every router of a tree, so first
and last hops that are silent or blocked. `CoreInputs`: three routers in the
middle, each answering, silent, blocking or filtering (dropping the probes of
one pair only, so that other traces see the routers this pair cannot).
`LongInputs`: four in the middle, needed for a link between two `H` routers,
the only type a router that answered may merge with. `TurnedInputs`: the same with
the traces of `M1` and `M3` first, so that the hidden routers are drawn, and picked,
before the ones that answer. `LineInputs`: a blocked
pair of every shape. `PartialInputs`: a distance that was never announced, a
direction that was never traced. Tree, core and long networks are tried with all
interfaces resolved and with none. In about a quarter of the rounds of phase 3 the two
edges differ in the types of their ends.

**Properties of iTop.** `HopsNamed`: the constructor names every address that
answered, and no two alike. `TracesDrawn`: after phase 1 the edges of a reached
trace join its ends in as many steps as there were hops, and those of a blocked one
in one step more than the distance. `LinksDrawn`: all through phases 1 and 2, two
successive routers of a trace that answered are joined by an edge of its path.
`OptionsSymmetric`: after phase 2. `PickedPairMerges`: the merge that a round of
phase 3 makes does not throw halfway. `Phase3Advances`: a round that changes the
graph leaves fewer nodes, or the same nodes and fewer edges with options; the one
round that it says nothing of changes nothing, and would be repeated for ever.
`DistancesKeptByPhase3`, `PathsKeptByPhase3`, `RoutersKeptByPhase3`: what merging
must not change. The last counts the routers that answered: a contraction keeps
its first node (`itop.js` 172-198), so that an answering router may live on under
the name of the hidden one it was merged with, which happens in `TurnedInputs`.
`RefinesTopology`: no step invents a link, loses one or takes a path off it, but that
routers become one. `TracesLead`: the links of a trace lead from its origin to the last
hop, or to the destination of a joined one, as long as both ends have their names.
`PickedPairApart`: the two edges that phase 3 picks do not follow one another (the
second neither starts where the first ends nor ends where it starts), so that no
contraction brings back a node that the one before it removed. It is what the proofs
about phase 3 need of the input.
That all of these hold on these networks is not a law: see Violations.

**Inputs of the parser.** Two digits begin at the tenth line; with the eleventh,
two lines write over hop nine. Two routers tell an answer from another one.

**Inputs of the GUI.** Lines of three routers between two monitors: blocked in the
middle; first silent and then blocked, with a third trace; blocked at once, so
that phase 1 fails; all routers known, with one silent later or from the start,
so that `/phase1` succeeds without a generator in some and fails halfway in
others. At the start some of the traces are there and others are still to come.
Three gestures reach a click, a reload and a change of page with all their
answers under way, or two views in a row; two typed requests reach `/phase1` or
`/phase3step` after a run, and `/phase2` on a merged graph. Four of both keep the
run at some 600 000 states. `/phase1/3` and `/phase1` differ by `networkDiameter`.

**Properties of Web and Gui.** `PairsDrawnByEveryRun`: after each phase 1, a
reached trace is drawn at its length and a blocked pair in one direction or the
other, though the flags of the run before are still set; `LinksDrawnByEveryRun`: and
its links, as soon as it was looked at. `TracesKeptByRequests`
and `PickedPairCompatible`: trace preservation, and no round of phase 3 that changes
nothing, for every order of requests, with traces that arrive in between. On these
lines phase 3 therefore ends, which `ClickLeadsToView` relies on; for the inputs of
`itop_order` no request would be answered any more.
`ServesCurrentGraph`: the last graph served is the one the next request goes on
with. It would fail if a merge threw in phase 3, which no input here, and none of
`itop_networks`, does (`PickedPairMerges`). `ClickLeadsToView`, `ReloadedViewsFresh`,
`DrawsItsList`: see section 1.

**Violations.** Each is a disagreement between the code and its own words.

- `AllOthersNotified`: "Notify all other routers" (`index.js` 107). Two
  notifications are handled before the first one's callbacks run; the callbacks
  read the global `toSend` and send the second request twice.
- `DistancesKeptByPhase3`: distances are compared "with new one after merge"
  (`itop.js` 490), but in phase 2 only. Three traces between three monitors
  over silent routers have four merges, each valid when phase 2 tests it, which
  together bring two monitors closer and make a self-loop.
- `IncompatiblePairDropped`: "Mi = Mi \ {ej}", "Mj = Mj \ {ei}" (`itop.js` 598, 610).
  A merge renames an option end by end, so that it may come to name its edge the
  other way round, and merges raise types: phase 3 can pick two edges that are not
  compatible. The loops of lines 589-613 then look at `mi.v` instead of `mi[i].v`,
  find nothing and take nothing out; the next round picks the same two edges, and
  the server's only thread never leaves the loop of line 623. Whether this happens
  depends on the order of the traces: with the other order of the same traces
  (`LongInputs`) no such pair is ever picked.
- `SecondEdgeDefined`: "EJ is undefined error" (`itop.js` 554). `mergeLabels` keeps
  the options two edges share and `merge` renames the others, edge by edge, so
  that an option is left whose own list is empty.
- `HopsBackDrawn`: "discard all hops that are blocked from B to A" (`itop.js`
  405). The count starts from the length of the trace from A to B.
- `ReplyOfItsTTL`: "In the current trace there is a reply of the curret TTL"
  (`main.go` 120). The line of TTL ten starts no hop, and its reply overwrites hop
  nine; ten is the default limit (line 164). What does hold is `NinthHopLatest`.

Three properties of `itop_networks` are known to fail on other inputs, by TLC:

- `OptionsSymmetric`: three monitors, of which `M1` and `M2` are blocked from one another
  and announced six routers apart, while each sees `M3` at once. Each of the two links of
  `M3` then has the link between two hidden routers as an option, which has none itself:
  the two directions glue different ends, and the way over `M3` is the shorter one. No such input was found where the
  announced distance is no longer than the way through the third monitor.
- `PickedPairApart` and `RoutersKeptByPhase3`: the input of `itop_distances`. The two
  edges picked are `A2 - A3` and `A3 - A6`; merging them removes `A3`, and the second
  contraction makes a node `A3` again, which has the default label. Its type is then set to "A" in
  that label, and with it that of every other node that carries it: the two monitors
  whose nodes phase 1 made by `setEdge` pass for routers that kept silent.

**Fairness.** Two runs need it. In `discovery_line`: `WF(Receive)` and `WF(Connect)`:
Node's event loop runs every callback that is ready, and TCP between live hosts
delivers. `WF(Subscribe(m))` and `WF(Work(m))`: the Go scheduler runs every
goroutine, and traceroute ends because of its `-m` limit. Starting a monitor is
not fair: nobody has to. `TracesPairsFairly` shows that this makes the abstract
`Trace` of each pair fair. In `gui`: `WF(Handle)`, as Node takes up every request;
`WF(Receive)`, as the browser delivers every answer, which assumes that no
connection breaks; and `GoesOn`, weak fairness of `Compute`: a handler is
synchronous and goes on until it ends or throws. While a request is at work no
other action is enabled, so `GoesOn` states it as "idle infinitely often, or
steps within a request infinitely often", which is cheaper to check. What the
user does, and when traces arrive, is not fair.

**Mutants.** Operators marked `\* mutant` are plausible bugs (a dropped guard, an
index off by one, a swapped order); replacing the definition below one by it makes
the property named in `PROJECT.json` fail.

## 5. The proofs

`DiscoveryProofs`, for every set of monitors and addresses, every `Routes`, and
every bound, from `DiscoveryAssumption` only. Each argument is an inductive
invariant, one step per action.

| Theorem | States | Inductive invariant |
|---|---|---|
| `TypeCorrect` | `[]TypeOK` | `TypeOK` itself; it includes that every stored hop list is one of `Routes`, and that a pending `"toSend"` means the global is set |
| `AliasTableSound` | `[]AliasSound` | `AliasInv`: with `AnswersSound`, as an answer on its way becomes an entry |
| `TraceEndsKnown` | `[]KnownEnds` | `KnownInv`: with `KnownRequests`, as a trace comes from a job, a job from a socket, and a socket from the table |
| `AllyTestsOneRouter` | `[]AllySameRouter` | `AllyInv`: hops that face each other are of one router, for whichever traces of a pair `getTrace` finds |
| `ServerSurvives` | `[]ServerStaysUp` | `AliveInv`: `KnownInv` and every registered monitor listens, so none of the exceptions is reachable |
| `OneWayTraced` | `[]PairTraced` | `PairInv`: the work for a pair passes from socket to job to packet to table and is never dropped |
| `DiscoveryTracesPairs` | `NoFailure` implies `Spec => TracesPairs` | the invariants above; each action maps to a step of `PairTracing` or a stutter |

`SymmetricRoutes` and `NoFailure` are hypotheses inside the properties, not
assumptions: the properties say nothing of networks that break them.

In `DiscoveryTracesPairs`, `NoFailure` is a hypothesis: symmetric routes, no
killed process. The initial state maps to `Init`; `ReceiveNotify` maps to `Register`,
a connect callback that reads `toSend` to `Ask`, `ReceiveTrace` to `Trace`
(or to a stutter, when the pair was traced before), and every other action leaves
the status of each pair, because a pair's work only moves from socket to job to
packet.

`TracerouteProofs`, for every set of routers and every limit, from
`TracerouteAssumption`. `TypeOK` is inductive; the other two follow from it and
from the one line that each step adds.

| Theorem | States |
|---|---|
| `ParserTypeCorrect` | `[]TypeOK`: no reply is written outside of `result.Hops` |
| `FirstHopsRight` | `[]FirstHopsOfTheirTTL` |
| `NinthHopOverwritten` | `[]NinthHopLatest` |

`ParsedLineByLine` adds that the machine of `Traceroute` and the fold `Parsed`, which
makes the hops of every input of iTop, are the same function: `result.hops =
Parsed(output)` in every state.

`GuiProofs` shows `ReloadedViewsAreFresh`, `GuiSpec => []ReloadedViewsFresh`, for all
inputs, bounds and orders of answers. `ReloadedViewsFresh` is not inductive: a
stale answer under way would break it. `FreshInv` adds what keeps one from being
shown: `run` only grows and `reloaded` never exceeds it; an answer that a view
waits for is of a run at least as new as `reloaded`, because the reload that
raised `reloaded` unmounted every view before it, and so left their fetches to
nobody; and the fetches of views mounted since are answered by the server as
it is now. The work of iTop enters only through `run`, which it leaves alone.
`ViewsDrawTheirLists`, `GuiSpec => []DrawsItsList`, follows from the same invariant: a
view that is ready has drawn from the list it holds, at an index inside of it.

`MergeGraphProofs` begins with router types: for all of them, merging does not depend on the
order of the edges (`MergeCommutes`), only raises types (`MergeRaises`), keeps a
router that answered (`AnsweringStays`), and makes no two routers comparable that
were not (`MergeRestricts`), the fact about single merges behind
`PickedPairCompatible`.

### Folds

The graph of iTop is built by loops over traces, hops, edges and options, which are
folds in the model. A theorem cannot take an operator as a parameter, but a module
can: `FoldTheorems` has the constant `Op`, shows that `FoldLeft` is the last value
of a run that takes in one element after the other (`FoldSteps`), and that a family
of sets `I[0], I[1], ...` which every step leads on contains the result
(`FoldKeeps`, `FoldStaysIn`). Induction itself is by a least counterexample in a
set. Each fold of the model is then an instance, such as
`Drawing == INSTANCE FoldTheorems WITH Op <- StretchStep`; the first argument of
`Op` carries what else the step depends on.

`MergeGraphProofs` shows of every operation on the graph that it keeps `GraphInv`
(the shape of the graph: every edge once, in canonical order, with a label, both
ends among the nodes) and, where that is so, `NoOwnOption` (no edge is an option of
itself). Its two results are `MergedInv`, for a whole merge, and
`LeastOptionsPicked`, that `findEdgeWithLessMergeOptions` returns what its name says.

### ITop

For every set `Inputs` of well-formed inputs (`ITopAssumption`): every topology,
every order of the traces, every alias table.

| Theorem | States | Inductive invariant |
|---|---|---|
| `ITopTypeCorrect` | `[]TypeOK` | `ITopTyped`: `TypeOK` with the types of the names, the input and, in `GraphInv`, of labels and options, without which no contraction can be followed |
| `RoundsAdvance` | `Phase3Advances` | `ITopInv`: with `NoOwnOption`, as an edge merged with itself would take no node away; it may end with a merge that throws, which is why it holds of `phase # "failed"` only |
| `MergesWithoutLoops` | `[](NoLoop => PickedPairMerges)` | `ITopTyped`: while the graph is not the copy of phase 2, every node that `setEdge` makes has a label, and the second contraction can only miss a node that a loop named twice |
| `LinksDrawnThere` | `[]LinksDrawn` | `LinksInv`: an edge that a path goes through stays one (`Grown`) in every fold over hops, and a stretch of nodes follows the trace up to its last hop, also the three stretches of a joined trace |
| `HopsNamedByConstructor` | `[]HopsNamed` | `NamesInv`: `Unnamed` is a list without repetitions of the addresses that have no name, all of them |

`RoundsAdvance` is not termination: a round that changes nothing is allowed. It
shows that such rounds, the ones of `itop_order`, are the only way in which phase 3
can go on for ever.

### Paths and routers under merging

`TopologyProofs`, for the same inputs.

| Theorem | States | Argument |
|---|---|---|
| `ContractionGlues`, `MergeGlues` | `nodeContraction` and `merge` are gluings of nodes and links | the fold over the edges of the second node moves each link once (`MovedCarries`): what the first node has already only grows |
| `ImplementsTopology` | `Spec => RefinesTopology` | every fold of phase 1 `Adds` links of one path; phase 2 and a merge's editing of the options leave all links; a round glues once (and throws), twice or not at all |
| `TracesLeadThere` | `[]TracesLead`, if `[]PickedPairApart` | `LeadsInv`: the stretches of a trace lead from each node to the next and stay (`Grown`), the way back leads there as well, and gluing maps what leads to what leads (`GluedLead`) |
| `RoutersKept` | `RoutersKeptByPhase3`, if `[]PickedPairApart` | `RouterByDefault`: while the shared default label says "R", each contraction takes one silent or hidden router away, or swaps an answering one for the node it is merged with |

The refinement has no hypothesis: it also holds where merges throw, loops arise or a
removed node comes back. `MergeGlues` is the abstraction the other two rest on: they
reason about `Glue` and no longer about lists of edges.

`PickedPairApart` is checked by `itop_networks` and fails on the input of `itop_distances`.
`RoutersKept` needs it: its conclusion fails there too. In `TracesLeadThere` it makes
sure that a name that is left still stands for the router it stood for; whether the
conclusion can fail without it is open (on that input it does not). It is a hypothesis
about runs, not about constants, as whether phase 2 finds such pairs rests on distances.

### Web

For all inputs, requests in any order, pages and traces that arrive (`GuiSpec`).

| Theorem | States | Inductive invariant |
|---|---|---|
| `WebTypeCorrect` | `[]TypeOK` | `WebTyped`: `ITopTyped`, also of a graph that a failed request left, and the traces to come |
| `EveryRunDrawsLinks` | `[]LinksDrawnByEveryRun` | `RunInv`: no trace arrives while a run of phase 1 is under way, and each begins at the first trace |
| `ServedGraphIsCurrent` | `[]ServesCurrentGraph`, if `[]PickedPairMerges` | `WebInv`: an iTop before the end of its phase 1 has served nothing, and phase 2 changes no node and no edge |
| `RoundsOfRequestsAdvance` | `Phase3Advances`, if `[]PickedPairMerges` | `WebInv`, for its `NoOwnOption`: a second `/phase2` finds the graph as merges left it |

The hypothesis `[]PickedPairMerges` cannot be dropped: a merge that throws after its
first half leaves a graph that was never served and that the next request goes on
with. `itop_networks` checks it for single runs, `MergesWithoutLoops` says that only a
loop in the graph can break it, and `itop_distances` has an input on which merges
make one.

### Only model-checked

- Liveness: `PairsGetTraced`, `TracesPairsFairly`, `ClickLeadsToView`.
- Distances: `TracesDrawn`, `PairsDrawnByEveryRun` and `DistancesKeptByPhase3` speak of
  shortest paths, which `Distance` finds by a search; a proof needs a theory of paths
  that no library here has. `DistancesKeptByPhase3` is false in general
  (`itop_distances`).
- `PathsKeptByPhase3` and `TracesKeptByRequests`: a contraction also joins two edges of
  one path that lead to the same third node; that phase 2 lets no such merge through
  rests on the distances. What is proved is that a path may get shorter but is not torn
  (`TracesLeadThere`). `PickedPairApart` rests on the distances too.
- `OptionsSymmetric`: the contraction it is decided by treats its two edges
  differently; false in general (see Violations).
- `PickedPairCompatible`: false in general (`itop_order`). `PickedPairMerges` without
  its condition: no loop arises in these inputs, but in other ones.

## 6. What is not modelled

- **TCP as a stream**: a chunk is one message, as the monitor closes each
  connection after one write; a message longer than a chunk is outside the model.
- **Fetches that fail**: `fetch` has no `catch`, so a broken connection during
  `/init` leaves the loading wheel for ever. `ClickLeadsToView` assumes answers.
- **The server's end during a request**: Node's process, the tables and the iTop go
  together (`Discovery` models the crash; `Web` starts after the tables are there).
- **The alias table between requests**: in `Web` only traces arrive between two HTTP
  requests. That a `notify` or an `ally_reply` changes `networkData` meanwhile, and with
  it the names that the next iTop finds, is in `Discovery` only.
- **Labels of served graphs**: `graphlib.json.write` shares them with the graph, so
  the options shown for an early step are those of now. Nodes and edges are copied.
- **Distances typed in** that are no number, or 0; `/merge`; rendering to HTML; the
  slider's marks, which pile up when a list gets shorter; the inventory's table.
- **ally**: third-party C; its answer is an external choice. Its one-line output is
  matched by two patterns (`main.go` 75-77), which are `Answers`.
- **Service worker**: generated by create-react-app.
- **Prototypes** (`graph.js`, `webserver.js`, `printServer.js`): `graph.js` says it is
  deprecated and unused, and nothing loads the others. **Dockerfiles**: no
  behaviour of their own.

## 7. What is left

1. Names that phase 1 gives to silent routers are never given twice (`anonymous`
   only grows and a new node's number is above it): the part of `HopsNamed` for
   routers without an address.
2. Trace preservation of a single merge, from the two conditions that phase 2 tests
   (no common path, no two routers that answered), as a lemma about `Merged`.
3. Which inputs keep picked edges apart (`PickedPairApart`): a condition on the measured
   distances that the network can be asked for.
4. Two tabs in front of one server, and lost answers, once the code handles them.

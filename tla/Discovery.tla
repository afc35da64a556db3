----------------------------- MODULE Discovery -----------------------------
(***************************************************************************)
(* The discovery half of NetTopo: the TCP side of the server               *)
(* (server/index.js, lines 8-167) and the monitors (monitor/main.go).      *)
(*                                                                         *)
(* A monitor announces itself to the server, which asks the newcomer to    *)
(* trace the monitors it knows and asks those to trace the newcomer.  The  *)
(* monitors run traceroute and send the result back; once the server has   *)
(* the traces of both directions it asks both ends to test (with the ally  *)
(* tool) whether two interfaces belong to one router, and the answers fill *)
(* the alias table.                                                        *)
(*                                                                         *)
(* A monitor's name stands also for its two addresses.  Every TCP          *)
(* connection carries one message; messages are records in sets, tagged    *)
(* with the socket they travel on so that equal messages stay distinct.    *)
(***************************************************************************)
EXTENDS Integers, Sequences, FiniteSets, SequencesExt

CONSTANTS
    Monitors,      \* host names of the machines that run monitor/main.go
    Addresses,     \* addresses of router interfaces
    KnownKeys,     \* names netdata.json holds, in the file's order
    Routes,        \* Routes[a][b]: hop lists a traceroute from a to b may give
    RouterOf,      \* the router (or monitor) that owns an address
    Silent,        \* a hop that sent no reply (success: false)
    Undefined,     \* JavaScript's undefined
    MaxLives,      \* bound: MaxLives[m] is how often m may be started
    MaxBoots,      \* bound: times the server is started
    MaxDeaths      \* bound: monitors that are killed

Address == Addresses \cup Monitors
Hop == Address \cup {Silent}

ASSUME DiscoveryAssumption ==
    /\ KnownKeys \in Seq(Monitors)
    /\ \A i, j \in 1..Len(KnownKeys) : KnownKeys[i] = KnownKeys[j] => i = j
    /\ \A a, b \in Monitors : Routes[a][b] \subseteq Seq(Hop)
    /\ \A m \in Monitors : m \notin {"R"} \X Nat    \* no host has a router's name
    /\ Silent \notin Address
    /\ Undefined \notin Hop
    /\ MaxLives \in [Monitors -> Nat] /\ MaxBoots \in Nat /\ MaxDeaths \in Nat

VARIABLES
    serverUp,        \* the server process runs
    boots,           \* times the server was started
    networkData,     \* the alias table: name -> entry
    keys,            \* its names in insertion order, as for..in walks them
    routerCount,     \* anonRouter's routerKnownName
    tracerouteData,  \* traces received, in arrival order
    toSend,          \* the GLOBAL variable toSend of line 108: the newest name
    pending,         \* sockets whose connect callback has not run yet
    toServer,        \* packets on their way to the server
    process,         \* process[m]: "off", "listening" or "running"
    jobs,            \* jobs[m]: the goroutines of m
    life,            \* life[m]: times m was started
    deaths           \* monitors killed so far

memory == <<networkData, keys, routerCount, tracerouteData, toSend>>
server == <<serverUp, boots, memory, pending>>
monitor == <<process, jobs, life, deaths>>
vars == <<server, toServer, monitor>>

-----------------------------------------------------------------------------
(* The shape of the state.                                                 *)

RouterName(n) == <<"R", n>>
Name == Monitors \cup {RouterName(n) : n \in 1..routerCount}
Entry == [isMonitor : BOOLEAN,
          alias     : SUBSET (Address \cup {Undefined}),
          ipNetInt  : Monitors \cup {Undefined}]
IsTrace(t) == t.from \in Monitors /\ t.to \in Monitors /\ t.hops \in Routes[t.from][t.to]
IsAllyPair(r) == r.ip1 \in Address /\ r.ip2 \in Address

(* What a server socket will write.  "toSend" is a callback that reads the *)
(* global variable only when it runs.                                      *)
Request == [type : {"trace"}, monitors : SUBSET Monitors]
           \cup [type : {"toSend"}]
           \cup [type : {"ally"}, ip1 : Address, ip2 : Address]

Monitored == {k \in DOMAIN networkData : networkData[k].isMonitor}

(* getTrace(from, to): index of the first trace of a pair, 0 for null.     *)
TraceIndexes(data, from, to) ==
    {i \in 1..Len(data) : data[i].from = from /\ data[i].to = to}

FirstTrace(data, from, to) ==
    LET found == TraceIndexes(data, from, to) IN
    IF found = {} THEN 0
    ELSE Min(found)

(* The loop of sendResolveAliasRequests: hop i of one direction faces hop  *)
(* i + 1 of the other one read backwards.                                  *)
OverrunsAtTheEnd(ab, ba) ==      \* mutant: the loop runs to ab.length
    \E i \in 1..Len(ab) : ab[i] # Silent /\ i + 1 > Len(ba)

Overruns(ab, ba) ==
    \E i \in 1..(Len(ab) - 1) : ab[i] # Silent /\ i + 1 > Len(ba)

AlignedHops(ab, ba) ==
    {i \in 1..(Len(ab) - 1) :
        i + 1 <= Len(ba) /\ ab[i] # Silent /\ ba[i + 1] # Silent}

AllyPairUnshifted(ab, ba, i) ==  \* mutant: ba[i] in place of ba[i+1]
    [type |-> "ally", ip1 |-> ab[i], ip2 |-> ba[i]]

AllyPair(ab, ba, i) == [type |-> "ally", ip1 |-> ab[i], ip2 |-> ba[i + 1]]

AllySockets(from, to, ab, ba) ==
    {[to  |-> networkData[end].ipNetInt,
      id  |-> <<"ally", boots, Len(tracerouteData) + 1, i, end>>,
      msg |-> AllyPair(ab, ba, i)] :
        end \in {from, to}, i \in AlignedHops(ab, ba)}

-----------------------------------------------------------------------------
(* The server starts from its two files; a crash or exit loses the rest.   *)

KnownNames == {KnownKeys[i] : i \in 1..Len(KnownKeys)}
KnownEntry == [isMonitor |-> FALSE, alias |-> {}, ipNetInt |-> Undefined]

Init ==
    /\ serverUp = TRUE
    /\ boots = 1
    /\ networkData = [k \in KnownNames |-> KnownEntry]
    /\ keys = KnownKeys
    /\ routerCount = 0
    /\ tracerouteData = <<>>
    /\ toSend = Undefined
    /\ pending = {}
    /\ toServer = {}
    /\ process = [m \in Monitors |-> "off"]
    /\ jobs = [m \in Monitors |-> {}]
    /\ life = [m \in Monitors |-> 0]
    /\ deaths = 0

(* An uncaught exception: the process ends and everything it held is gone. *)
(* The variables already take the values the next start gives them.        *)
ServerCrash ==
    /\ serverUp' = FALSE
    /\ networkData' = [k \in KnownNames |-> KnownEntry]
    /\ keys' = KnownKeys
    /\ routerCount' = 0
    /\ tracerouteData' = <<>>
    /\ toSend' = Undefined
    /\ pending' = {}
    /\ toServer' = {}
    /\ UNCHANGED boots

(* The operator, or docker, stops the server.                              *)
ServerKilled ==
    /\ serverUp
    /\ boots < MaxBoots
    /\ ServerCrash
    /\ UNCHANGED monitor

ServerBoot ==
    /\ ~serverUp
    /\ boots < MaxBoots
    /\ serverUp' = TRUE
    /\ boots' = boots + 1
    /\ UNCHANGED <<memory, pending, toServer, monitor>>

(* Lines 123-136: a name of netdata.json becomes a monitor, a new name is  *)
(* added, and a monitor that comes back starts a new alias list.           *)
Announced(name) ==
    [isMonitor |-> TRUE, alias |-> {name}, ipNetInt |-> name]

RegisteredUnflagged(name) ==     \* mutant: the else branch drops isMonitor
    [k \in DOMAIN networkData \cup {name} |->
        IF k # name THEN networkData[k]
        ELSE [Announced(name) EXCEPT !.isMonitor = k \notin DOMAIN networkData]]

Registered(name) ==
    [k \in DOMAIN networkData \cup {name} |->
        IF k = name THEN Announced(name) ELSE networkData[k]]

(* The handler of a "notify" message (lines 84-138).                       *)
ReceiveNotify(p) ==
    /\ serverUp
    /\ p.type = "notify"
    /\ toServer' = toServer \ {p}
    /\ toSend' = p.name
    /\ LET newcomer == [to  |-> p.name,
                        id  |-> <<"newcomer", p.name, p.life>>,
                        msg |-> [type |-> "trace", monitors |-> Monitored]]
           others == {[to  |-> networkData[k].ipNetInt,
                       id  |-> <<"others", p.name, p.life>>,
                       msg |-> [type |-> "toSend"]] : k \in Monitored}
       IN pending' = pending \cup others
                     \cup (IF Monitored = {} THEN {} ELSE {newcomer})
    /\ networkData' = Registered(p.name)
    /\ keys' = IF p.name \in DOMAIN networkData THEN keys
               ELSE Append(keys, p.name)
    /\ UNCHANGED <<serverUp, boots, routerCount, tracerouteData, monitor>>

RecordedIfMatched(p) ==          \* mutant: push inside the if
    IF FirstTrace(tracerouteData, p.to, p.from) = 0 THEN tracerouteData
    ELSE Append(tracerouteData, [from |-> p.from, to |-> p.to, hops |-> p.hops])

Recorded(p) ==
    Append(tracerouteData, [from |-> p.from, to |-> p.to, hops |-> p.hops])

(* The handler of a "trace" message (lines 74-83).  When the opposite      *)
(* direction is there, the exception of an unknown end or of ba[i+1] being *)
(* undefined ends the server.                                              *)
ReceiveTrace(p) ==
    /\ serverUp
    /\ p.type = "trace"
    /\ UNCHANGED monitor
    /\ LET data == Recorded(p)
           back == FirstTrace(data, p.to, p.from)
           ab   == data[FirstTrace(data, p.from, p.to)].hops
           ba   == Reverse(data[back].hops)
       IN IF back # 0 /\ (\/ {p.from, p.to} \ DOMAIN networkData # {}
                          \/ Overruns(ab, ba))
          THEN ServerCrash
          ELSE /\ tracerouteData' = data
               /\ pending' = IF back = 0 THEN pending
                             ELSE pending \cup AllySockets(p.from, p.to, ab, ba)
               /\ toServer' = toServer \ {p}
               /\ UNCHANGED <<serverUp, boots, networkData, keys, routerCount,
                              toSend>>

(* The handler of an "ally_reply" message (lines 139-159): the first entry *)
(* that holds one of the addresses takes the other one.  Line 155 pushes   *)
(* msg.ip, which the message does not have, in place of msg.ip2.           *)
HoldersByIndexOf(ip1, ip2) ==    \* mutant: indexOf for includes, -1 is true
    {i \in 1..Len(keys) : ip1 # ip2}

Holders(ip1, ip2) ==
    {i \in 1..Len(keys) : {ip1, ip2} \cap networkData[keys[i]].alias # {}}

Learnt(alias, ip1, ip2) ==
    alias \cup {ip1} \cup (IF ip2 \in alias \cup {ip1} THEN {} ELSE {Undefined})

FreshNamePostIncrement == RouterName(routerCount)    \* mutant

FreshName == RouterName(routerCount + 1)

ReceiveAllyReply(p) ==
    /\ serverUp
    /\ p.type = "ally_reply"
    /\ toServer' = toServer \ {p}
    /\ UNCHANGED <<serverUp, boots, tracerouteData, toSend, pending, monitor>>
    /\ LET holders == Holders(p.ip1, p.ip2)
           first   == keys[Min(holders)]
       IN \/ /\ ~p.success
             /\ UNCHANGED <<networkData, keys, routerCount>>
          \/ /\ p.success /\ holders # {}
             /\ networkData' =
                   [networkData EXCEPT ![first].alias = Learnt(@, p.ip1, p.ip2)]
             /\ UNCHANGED <<keys, routerCount>>
          \/ /\ p.success /\ holders = {}
             /\ routerCount' = routerCount + 1
             /\ keys' = Append(keys, FreshName)
             /\ networkData' =
                   [k \in DOMAIN networkData \cup {FreshName} |->
                       IF k = FreshName
                       THEN [isMonitor |-> FALSE, alias |-> {p.ip1, p.ip2},
                             ipNetInt |-> Undefined]
                       ELSE networkData[k]]

(* A connect callback: the request is written and becomes goroutines of    *)
(* the monitor.  A socket with no host connects to the server itself,      *)
(* which ignores the request.                                              *)
TasksReadLate(msg, id) ==        \* mutant: line 97 without its let
    IF msg.type = "ally"
    THEN {[type |-> "ally", id |-> id, ip1 |-> msg.ip1, ip2 |-> msg.ip2]}
    ELSE {[type |-> "trace", id |-> id, target |-> toSend]}

Tasks(msg, id) ==
    CASE msg.type = "ally" ->
            {[type |-> "ally", id |-> id, ip1 |-> msg.ip1, ip2 |-> msg.ip2]}
      [] msg.type = "toSend" ->
            {[type |-> "trace", id |-> id, target |-> toSend]}
      [] msg.type = "trace" ->
            {[type |-> "trace", id |-> id, target |-> t] : t \in msg.monitors}

Connected(s) ==
    /\ serverUp
    /\ pending' = pending \ {s}
    /\ \/ /\ s.to = Undefined
          /\ UNCHANGED jobs
       \/ /\ s.to # Undefined
          /\ process[s.to] # "off"
          /\ jobs' = [jobs EXCEPT ![s.to] = @ \cup Tasks(s.msg, s.id)]
    /\ UNCHANGED <<serverUp, boots, memory, toServer, process, life, deaths>>

(* Nobody listens there: the socket has no "error" listener, so the event  *)
(* is an uncaught exception.                                               *)
ConnectRefused(s) ==
    /\ serverUp
    /\ s.to # Undefined
    /\ process[s.to] = "off"
    /\ ServerCrash
    /\ UNCHANGED monitor

-----------------------------------------------------------------------------
(* The monitor: main() listens (line 168), then subscribes (178-195), then *)
(* serves connections (201-240), one goroutine each.                       *)

StartMonitor(m) ==
    /\ process[m] = "off"
    /\ life[m] < MaxLives[m]
    /\ process' = [process EXCEPT ![m] = "listening"]
    /\ life' = [life EXCEPT ![m] = @ + 1]
    /\ UNCHANGED <<server, toServer, jobs, deaths>>

(* log.Fatal, or a kill: all goroutines of the process go with it.         *)
Exits(m) ==
    /\ process' = [process EXCEPT ![m] = "off"]
    /\ jobs' = [jobs EXCEPT ![m] = {}]

Subscribe(m) ==
    /\ process[m] = "listening"
    /\ UNCHANGED <<server, life, deaths>>
    /\ \/ /\ serverUp
          /\ process' = [process EXCEPT ![m] = "running"]
          /\ toServer' = toServer \cup
                {[type |-> "notify", name |-> m, life |-> life[m]]}
          /\ UNCHANGED jobs
       \/ /\ ~serverUp
          /\ Exits(m)
          /\ UNCHANGED toServer

(* A goroutine ends by sending its result, or log.Fatal ends the monitor   *)
(* when the server cannot be reached.                                      *)
Report(m, j, packet) ==
    /\ process[m] = "running"
    /\ UNCHANGED <<server, life, deaths>>
    /\ \/ /\ serverUp
          /\ jobs' = [jobs EXCEPT ![m] = @ \ {j}]
          /\ toServer' = toServer \cup {packet}
          /\ UNCHANGED process
       \/ /\ ~serverUp
          /\ Exits(m)
          /\ UNCHANGED toServer

TracerouteDone(m, j) ==
    /\ j.type = "trace"
    /\ \E route \in Routes[m][j.target] :
          Report(m, j, [type |-> "trace", id |-> j.id, from |-> m,
                        to |-> j.target, hops |-> route])

(* ally prints same_ip or !same_ip.  It may fail to see that two addresses *)
(* are one router's, but does not take two routers for one.                *)
Answers(ip1, ip2) == {FALSE, RouterOf[ip1] = RouterOf[ip2]}

AllyDone(m, j) ==
    /\ j.type = "ally"
    /\ \E success \in Answers(j.ip1, j.ip2) :
          Report(m, j, [type |-> "ally_reply", id |-> j.id, success |-> success,
                        ip1 |-> j.ip1, ip2 |-> j.ip2])

(* The container is stopped, or traceroute or ally fails to run.           *)
MonitorDies(m) ==
    /\ process[m] # "off"
    /\ deaths < MaxDeaths
    /\ deaths' = deaths + 1
    /\ Exits(m)
    /\ UNCHANGED <<server, toServer, life>>

-----------------------------------------------------------------------------
ReceiveOtherTypes ==             \* mutant: the type is spelt differently
    \E p \in toServer : ReceiveNotify(p) \/ ReceiveAllyReply(p)

Receive ==
    \E p \in toServer : ReceiveNotify(p) \/ ReceiveTrace(p) \/ ReceiveAllyReply(p)

Connect == \E s \in pending : Connected(s) \/ ConnectRefused(s)

Work(m) == \E j \in jobs[m] : TracerouteDone(m, j) \/ AllyDone(m, j)

Next ==
    \/ ServerKilled
    \/ ServerBoot
    \/ Receive
    \/ Connect
    \/ \E m \in Monitors :
          StartMonitor(m) \/ Subscribe(m) \/ Work(m) \/ MonitorDies(m)

(* The event loop runs every callback whose event is ready, the monitors'  *)
(* processes and goroutines are scheduled; starting and killing processes  *)
(* is the operator's choice.                                               *)
Fairness ==
    /\ WF_vars(Receive)
    /\ WF_vars(Connect)
    /\ \A m \in Monitors : WF_vars(Subscribe(m)) /\ WF_vars(Work(m))

Spec == Init /\ [][Next]_vars
FairSpec == Spec /\ Fairness

-----------------------------------------------------------------------------
(* Conditions on the network under which the code's own assertion (line    *)
(* 43) is met: both directions of a path have the same length, and facing  *)
(* hops are interfaces of one router.                                      *)
SymmetricRoutes ==
    \A a, b \in Monitors : \A ab \in Routes[a][b], ba \in Routes[b][a] :
        /\ Len(ab) = Len(ba)
        /\ \A i \in AlignedHops(ab, Reverse(ba)) :
              RouterOf[ab[i]] = RouterOf[Reverse(ba)[i + 1]]

NoFailure == SymmetricRoutes /\ MaxDeaths = 0 /\ MaxBoots = 1

(* TypeOK: the state stays in the shape the code gives it.  In particular  *)
(* for..in walks the names of networkData, a new router's name is unused,  *)
(* and each hop list stored or sent is one a traceroute can give.          *)
Lists(s, names) ==
    s \in Seq(names) /\ \A k \in names : \E i \in 1..Len(s) : s[i] = k

MemoryOK ==
    /\ serverUp \in BOOLEAN
    /\ boots \in Nat \ {0}
    /\ routerCount \in Nat
    /\ DOMAIN networkData \subseteq Name
    /\ networkData \in [DOMAIN networkData -> Entry]
    /\ Lists(keys, DOMAIN networkData)
    /\ \A k \in Monitored : k \in Monitors /\ networkData[k].ipNetInt = k
    /\ tracerouteData \in Seq([from : Monitors, to : Monitors, hops : Seq(Hop)])
    /\ \A i \in 1..Len(tracerouteData) : IsTrace(tracerouteData[i])
    /\ toSend \in Monitors \cup {Undefined}

MessagesOK ==
    /\ \A s \in pending : s.to \in Monitors \cup {Undefined} /\ s.msg \in Request
    /\ \A s \in pending : s.msg.type = "toSend" => toSend \in Monitors
    /\ \A p \in toServer :
          \/ p.type = "notify" /\ p.name \in Monitors
          \/ p.type = "trace" /\ IsTrace(p)
          \/ p.type = "ally_reply" /\ IsAllyPair(p) /\ p.success \in BOOLEAN

MonitorsOK ==
    /\ process \in [Monitors -> {"off", "listening", "running"}]
    /\ jobs = [m \in Monitors |-> jobs[m]]
    /\ \A m \in Monitors : \A j \in jobs[m] :
          \/ j.type = "trace" /\ j.target \in Monitors
          \/ j.type = "ally" /\ IsAllyPair(j)
    /\ life \in [Monitors -> Nat]
    /\ deaths \in Nat

TypeOK == MemoryOK /\ MessagesOK /\ MonitorsOK

(* ServerStaysUp: with symmetric routes and processes nobody kills no      *)
(* order of notifications, connections, traces and alias answers reaches   *)
(* one of the uncaught exceptions (an unknown end of a trace, a hop beyond *)
(* the opposite path, a connection to a monitor that does not listen yet). *)
ServerStaysUp == NoFailure => serverUp

(* AllySameRouter: with symmetric routes the server only asks for alias    *)
(* tests of two interfaces of the same router, whichever of the recorded   *)
(* traces it pairs.                                                        *)
AllyRequests ==
    {s.msg : s \in {s \in pending : s.msg.type = "ally"}}
    \cup UNION {{j \in jobs[m] : j.type = "ally"} : m \in Monitors}

AllySameRouter ==
    SymmetricRoutes =>
        \A r \in AllyRequests : RouterOf[r.ip1] = RouterOf[r.ip2]

(* AliasSound: the addresses one entry of the alias table collects belong  *)
(* to one router, whichever entry an answer of ally is folded into, across *)
(* re-notifications, late answers and restarts.                            *)
AliasSound ==
    \A k \in DOMAIN networkData :
        \A x, y \in networkData[k].alias \ {Undefined} :
            RouterOf[x] = RouterOf[y]

(* PairTraced: of any two registered monitors at least one has been asked  *)
(* to trace the other, and the request, its goroutine, its answer or the   *)
(* stored trace is still there: nothing of it is overwritten or lost.      *)
TraceUnderway(a, b) ==
    \/ \E s \in pending : s.to = a /\ s.msg.type = "trace" /\ b \in s.msg.monitors
    \/ \E j \in jobs[a] : j.type = "trace" /\ j.target = b
    \/ \E p \in toServer : p.type = "trace" /\ p.from = a /\ p.to = b

TraceStored(a, b) == TraceIndexes(tracerouteData, a, b) # {}

PairTraced ==
    NoFailure =>
        \A a, b \in Monitored :
            a # b => \/ TraceUnderway(a, b) \/ TraceStored(a, b)
                     \/ TraceUnderway(b, a) \/ TraceStored(b, a)

(* KnownEnds: as long as the server was not restarted, both ends of every  *)
(* trace that is stored or on its way have an entry in networkData, even   *)
(* when monitors die and come back: line 38's networkData[from] is safe.   *)
KnownEnds ==
    boots = 1 /\ serverUp =>
        /\ \A i \in 1..Len(tracerouteData) :
              {tracerouteData[i].from, tracerouteData[i].to} \subseteq Monitored
        /\ \A p \in toServer :
              p.type = "trace" => {p.from, p.to} \subseteq Monitored

(* PairsGetTraced: two monitors that are registered are eventually traced  *)
(* in at least one direction.                                              *)
PairsGetTraced ==
    NoFailure =>
        \A a, b \in Monitors :
            a # b => ({a, b} \subseteq Monitored
                        ~> TraceStored(a, b) \/ TraceStored(b, a))

-----------------------------------------------------------------------------
(* TracesPairs: while nothing fails, the sockets, goroutines, packets and  *)
(* the trace table implement PairTracing: each registration asks for every *)
(* pair with the monitors before it, and no step loses a pair again.       *)
(* TracesPairsFairly: whatever a monitor was asked for is traced, so that  *)
(* together they are the abstract FairSpec.                                *)
StatusOf(p) ==
    IF TraceStored(p[1], p[2]) THEN "traced"
    ELSE IF TraceUnderway(p[1], p[2]) THEN "asked"
    ELSE "untraced"

PairStatus == [p \in Monitors \X Monitors |-> StatusOf(p)]

Abstract == INSTANCE PairTracing WITH registered <- Monitored, status <- PairStatus

TracesPairs == Abstract!Spec
TracesPairsFairly == Abstract!Fairness

-----------------------------------------------------------------------------
(* What the invariants above rest on; DiscoveryProofs shows that they are  *)
(* inductive.                                                              *)

(* A positive answer of ally is right.                                     *)
AnswersSound ==
    \A p \in toServer :
        p.type = "ally_reply" /\ p.success => RouterOf[p.ip1] = RouterOf[p.ip2]

(* In the first boot only registered monitors are asked for anything, and  *)
(* they are only asked about registered ones.                              *)
KnownRequests ==
    boots = 1 /\ serverUp =>
        /\ toSend \in Monitored \cup {Undefined}
        /\ \A s \in pending :
              /\ s.to \in Monitored
              /\ s.msg.type = "trace" => s.msg.monitors \subseteq Monitored
        /\ \A m \in Monitors : \A j \in jobs[m] :
              m \in Monitored /\ (j.type = "trace" => j.target \in Monitored)

(* With no failures every registered or announced monitor listens.         *)
AllAlive ==
    NoFailure =>
        /\ serverUp /\ boots = 1
        /\ \A m \in Monitored : process[m] # "off"
        /\ \A p \in toServer : p.type = "notify" => process[p.name] # "off"

-----------------------------------------------------------------------------
(* What comments of the code claim and its runs refute.                    *)

Quiet == pending = {} /\ toServer = {} /\ \A m \in Monitors : jobs[m] = {}

(* Lines 89 and 107: the newcomer gets "all the monitor ip ... to trace    *)
(* them" and "all other routers" are notified, so when everything has been *)
(* delivered each monitor has traced each other one.                       *)
AllOthersNotified ==
    NoFailure /\ Quiet =>
        \A a, b \in Monitored : a # b => TraceStored(a, b)
=============================================================================

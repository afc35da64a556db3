-------------------------- MODULE DiscoveryProofs --------------------------
(* Proofs about Discovery, for every set of monitors, routes and bounds.   *)
EXTENDS Discovery, TLAPS, WellFoundedInduction

(* A set of indexes has a least one: what getTrace and the search for an   *)
(* alias entry return is one of the matches.                               *)
LEMMA LeastIndex ==
    ASSUME NEW S, S \subseteq Nat, S # {}
    PROVE  Min(S) \in S /\ \A j \in S : Min(S) <= j
<1>1. PICK x \in S : \A y \in S : ~(<<y, x>> \in OpToRel(<, Nat))
  BY NatLessThanWellFounded, WFMin, Zenon
<1>2. \A y \in S : ~(y < x)
  BY <1>1, Zenon DEF OpToRel
<1>3. \A y \in S : x <= y
  BY <1>2
<1>. QED
  BY <1>3 DEF Min

(* getTrace returns a trace of the pair it is asked for, or null (0).      *)
LEMMA FirstTraceFound ==
    ASSUME NEW data, Len(data) \in Nat, NEW from, NEW to,
           FirstTrace(data, from, to) # 0
    PROVE  /\ FirstTrace(data, from, to) \in 1..Len(data)
           /\ data[FirstTrace(data, from, to)].from = from
           /\ data[FirstTrace(data, from, to)].to = to
<1>. DEFINE found == TraceIndexes(data, from, to)
<1>1. found # {} /\ FirstTrace(data, from, to) = Min(found)
  BY DEF FirstTrace
<1>2. found \subseteq Nat
  BY DEF TraceIndexes
<1>3. Min(found) \in found
  BY <1>1, <1>2, LeastIndex
<1>. QED
  BY <1>1, <1>3 DEF TraceIndexes

(* The opposite trace exists once a trace of the pair is recorded.         *)
LEMMA FirstTraceExists ==
    ASSUME NEW data, Len(data) \in Nat, NEW i \in 1..Len(data)
    PROVE  FirstTrace(data, data[i].from, data[i].to) # 0
<1>. DEFINE found == TraceIndexes(data, data[i].from, data[i].to)
<1>1. i \in found /\ found \subseteq 1..Len(data)
  BY DEF TraceIndexes
<1>2. Min(found) \in found
  BY <1>1, LeastIndex
<1>. QED
  BY <1>1, <1>2 DEF FirstTrace

LEMMA ElementType ==
    ASSUME NEW S, NEW s \in Seq(S), NEW i \in 1..Len(s)
    PROVE  s[i] \in S
  OBVIOUS

(* What a hop list says, read backwards.                                   *)
LEMMA ReverseType ==
    ASSUME NEW S, NEW s \in Seq(S)
    PROVE  Reverse(s) \in Seq(S) /\ Len(Reverse(s)) = Len(s)
  BY DEF Reverse

(* Facing hops that answered are addresses.                                *)
LEMMA AllyPairType ==
    ASSUME NEW ab \in Seq(Hop), NEW ba \in Seq(Hop), NEW i \in AlignedHops(ab, ba)
    PROVE  AllyPair(ab, ba, i) \in [type : {"ally"}, ip1 : Address, ip2 : Address]
  BY DEF AlignedHops, AllyPair, Hop

(* A name added to networkData is added at the end of the for..in order.   *)
LEMMA KeyAppended ==
    ASSUME NEW D, NEW s, Lists(s, D), NEW n
    PROVE  Lists(Append(s, n), D \cup {n})
<1>. USE DEF Lists
<1>. DEFINE t == Append(s, n)
<1>1. s \in Seq(D \cup {n})
  OBVIOUS
<1>2. t \in Seq(D \cup {n})
  BY <1>1
<1>3. \A i \in 1..Len(s) : i \in 1..Len(t) /\ t[i] = s[i]
  OBVIOUS
<1>4. Len(t) \in 1..Len(t) /\ t[Len(t)] = n
  OBVIOUS
<1>. QED
  BY <1>2, <1>3, <1>4

-----------------------------------------------------------------------------
(* What netdata.json gives the server when it starts.                      *)
LEMMA KnownType ==
    /\ Lists(KnownKeys, KnownNames)
    /\ KnownNames \subseteq Monitors
    /\ KnownEntry \in Entry /\ KnownEntry.isMonitor = FALSE
<1>1. KnownKeys \in Seq(Monitors)
  BY DiscoveryAssumption
<1>. QED
  BY <1>1 DEF KnownNames, KnownEntry, Entry, Lists

LEMMA InitType == Init => TypeOK
<1>. SUFFICES ASSUME Init PROVE TypeOK
  OBVIOUS
<1>1. MemoryOK
  BY KnownType DEF Init, MemoryOK, Name, Monitored
<1>2. MessagesOK /\ MonitorsOK
  BY DEF Init, MessagesOK, MonitorsOK
<1>. QED
  BY <1>1, <1>2 DEF TypeOK

LEMMA CrashType ==
    ASSUME ServerCrash, MemoryOK
    PROVE  MemoryOK' /\ MessagesOK'
<1>1. networkData' \in [KnownNames -> Entry] /\ Monitored' = {}
  BY KnownType DEF ServerCrash, Monitored
<1>2. DOMAIN networkData' \subseteq Name'
  BY <1>1, KnownType DEF Name
<1>3. Lists(keys', DOMAIN networkData')
  BY <1>1, KnownType DEF ServerCrash
<1>4. /\ networkData' \in [DOMAIN networkData' -> Entry]
      /\ tracerouteData' \in Seq([from : Monitors, to : Monitors, hops : Seq(Hop)])
      /\ \A i \in 1..Len(tracerouteData') : IsTrace(tracerouteData'[i])
  BY <1>1 DEF ServerCrash
<1>5. MemoryOK'
  BY <1>1, <1>2, <1>3, <1>4 DEF ServerCrash, MemoryOK
<1>6. MessagesOK'
  BY DEF ServerCrash, MessagesOK
<1>. QED
  BY <1>5, <1>6

LEMMA NotifyType ==
    ASSUME TypeOK, NEW p \in toServer, ReceiveNotify(p)
    PROVE  TypeOK'
<1>. USE DEF TypeOK, ReceiveNotify
<1>1. p.name \in Monitors
  BY DEF MessagesOK
<1>2. MemoryOK'
  <2>1. networkData' = Registered(p.name) /\ DOMAIN networkData' = DOMAIN networkData \cup {p.name}
    BY DEF Registered
  <2>2. Announced(p.name) \in Entry
    BY <1>1 DEF Announced, Entry, Address
  <2>3. networkData' \in [DOMAIN networkData' -> Entry]
    BY <2>1, <2>2 DEF Registered, MemoryOK
  <2>4. DOMAIN networkData' \subseteq Name'
    BY <2>1, <1>1 DEF Name, MemoryOK
  <2>5. Lists(keys', DOMAIN networkData')
    <3>1. CASE p.name \in DOMAIN networkData
      <4>1. DOMAIN networkData' = DOMAIN networkData
        BY <2>1, <3>1
      <4>. QED
        BY <3>1, <4>1 DEF MemoryOK
    <3>2. CASE p.name \notin DOMAIN networkData
      <4>1. Lists(keys, DOMAIN networkData) /\ keys' = Append(keys, p.name)
        BY <3>2 DEF MemoryOK
      <4>2. Lists(Append(keys, p.name), DOMAIN networkData \cup {p.name})
        BY <4>1, KeyAppended
      <4>. QED
        BY <2>1, <4>1, <4>2
    <3>. QED
      BY <3>1, <3>2
  <2>6. \A k \in Monitored' : k \in Monitors /\ networkData'[k].ipNetInt = k
    BY <1>1, <2>1 DEF Monitored, MemoryOK, Registered, Announced
  <2>. QED
    BY <1>1, <2>3, <2>4, <2>5, <2>6 DEF MemoryOK
<1>3. MessagesOK'
  <2>. DEFINE newcomer == [to  |-> p.name,
                           id  |-> <<"newcomer", p.name, p.life>>,
                           msg |-> [type |-> "trace", monitors |-> Monitored]]
              others == {[to  |-> networkData[k].ipNetInt,
                          id  |-> <<"others", p.name, p.life>>,
                          msg |-> [type |-> "toSend"]] : k \in Monitored}
  <2>1. newcomer.to \in Monitors /\ newcomer.msg \in Request
    BY <1>1 DEF MemoryOK, Request
  <2>2. \A s \in others : s.to \in Monitors /\ s.msg \in Request
    BY DEF MemoryOK, Request
  <2>3. pending' \subseteq pending \cup others \cup {newcomer}
    OBVIOUS
  <2>4. toSend' \in Monitors /\ toServer' \subseteq toServer
    BY <1>1
  <2>5. \A s \in pending' : s.to \in Monitors \cup {Undefined} /\ s.msg \in Request
    BY <2>1, <2>2, <2>3 DEF MessagesOK
  <2>. QED
    BY <2>4, <2>5 DEF MessagesOK, IsTrace, IsAllyPair
<1>4. MonitorsOK'
  BY DEF MonitorsOK, monitor, IsAllyPair
<1>. QED
  BY <1>2, <1>3, <1>4

LEMMA TraceType ==
    ASSUME TypeOK, NEW p \in toServer, ReceiveTrace(p)
    PROVE  TypeOK'
<1>. DEFINE data == Recorded(p)
            back == FirstTrace(data, p.to, p.from)
            forth == FirstTrace(data, p.from, p.to)
            ab == data[forth].hops
            ba == Reverse(data[back].hops)
<1>1. IsTrace(p)
  BY DEF ReceiveTrace, TypeOK, MessagesOK
<1>2. p.hops \in Seq(Hop)
  BY <1>1, DiscoveryAssumption DEF IsTrace
<1>3. /\ data \in Seq([from : Monitors, to : Monitors, hops : Seq(Hop)])
      /\ \A i \in 1..Len(data) : IsTrace(data[i])
  BY <1>1, <1>2 DEF Recorded, TypeOK, MemoryOK, IsTrace
<1>4. MonitorsOK'
  BY DEF ReceiveTrace, monitor, TypeOK, MonitorsOK, IsAllyPair
<1>5. CASE ServerCrash
  BY <1>4, <1>5, CrashType DEF TypeOK
<1>6. CASE ~ServerCrash
  <2>1. /\ tracerouteData' = data
        /\ pending' = IF back = 0 THEN pending
                      ELSE pending \cup AllySockets(p.from, p.to, ab, ba)
        /\ toServer' = toServer \ {p}
        /\ UNCHANGED <<serverUp, boots, networkData, keys, routerCount, toSend>>
    BY <1>6 DEF ReceiveTrace
  <2>2. MemoryOK'
    BY <2>1, <1>3 DEF TypeOK, MemoryOK, Name, Monitored, IsTrace
  <2>3. \A s \in pending' :
          \/ s \in pending
          \/ s.to \in Monitors \cup {Undefined} /\ s.msg \in Request
             /\ s.msg.type = "ally"
    <3>1. CASE back = 0
      BY <2>1, <3>1
    <3>2. CASE back # 0
      <4>1. ab \in Seq(Hop) /\ ba \in Seq(Hop)
        <5>1. Len(data) \in Nat /\ data[Len(data)].from = p.from
              /\ data[Len(data)].to = p.to /\ Len(data) \in 1..Len(data)
          BY <1>3 DEF Recorded, TypeOK, MemoryOK
        <5>2. forth # 0
          BY <5>1, FirstTraceExists
        <5>3. forth \in 1..Len(data) /\ back \in 1..Len(data)
          BY <3>2, <5>1, <5>2, FirstTraceFound
        <5>4. ab \in Seq(Hop) /\ data[back].hops \in Seq(Hop)
          <6>1. data[forth] \in [from : Monitors, to : Monitors, hops : Seq(Hop)]
            BY <1>3, <5>3, ElementType, Zenon
          <6>2. data[back] \in [from : Monitors, to : Monitors, hops : Seq(Hop)]
            BY <1>3, <5>3, ElementType, Zenon
          <6>. QED
            BY <6>1, <6>2
        <5>. QED
          BY <5>4, ReverseType
      <4>2. {p.from, p.to} \subseteq DOMAIN networkData
        BY <1>6, <3>2 DEF ReceiveTrace
      <4>3. \A s \in AllySockets(p.from, p.to, ab, ba) :
               s.to \in Monitors \cup {Undefined} /\ s.msg \in Request
               /\ s.msg.type = "ally"
        <5>. TAKE s \in AllySockets(p.from, p.to, ab, ba)
        <5>1. PICK end \in {p.from, p.to}, i \in AlignedHops(ab, ba) :
                 s.to = networkData[end].ipNetInt /\ s.msg = AllyPair(ab, ba, i)
          BY DEF AllySockets
        <5>2. s.to \in Monitors \cup {Undefined}
          BY <4>2, <5>1 DEF TypeOK, MemoryOK, Entry
        <5>3. s.msg \in [type : {"ally"}, ip1 : Address, ip2 : Address]
          BY <4>1, <5>1, AllyPairType
        <5>. QED
          BY <5>2, <5>3 DEF Request
      <4>. QED
        BY <2>1, <4>3
    <3>. QED
      BY <3>1, <3>2
  <2>4. MessagesOK'
    BY <2>1, <2>3 DEF TypeOK, MessagesOK, IsTrace, IsAllyPair
  <2>. QED
    BY <1>4, <2>2, <2>4 DEF TypeOK
<1>. QED
  BY <1>5, <1>6

LEMMA AllyReplyType ==
    ASSUME TypeOK, NEW p \in toServer, ReceiveAllyReply(p)
    PROVE  TypeOK'
<1>. DEFINE holders == Holders(p.ip1, p.ip2)
            first == keys[Min(holders)]
<1>1. IsAllyPair(p)
  BY DEF ReceiveAllyReply, TypeOK, MessagesOK
<1>2. MonitorsOK'
  BY DEF ReceiveAllyReply, monitor, TypeOK, MonitorsOK, IsAllyPair
<1>3. MessagesOK'
  BY DEF ReceiveAllyReply, TypeOK, MessagesOK, IsTrace, IsAllyPair
<1>4. UNCHANGED <<serverUp, boots, tracerouteData, toSend>>
  BY DEF ReceiveAllyReply
<1>5. CASE UNCHANGED <<networkData, keys, routerCount>>
  <2>. QED
    BY <1>2, <1>3, <1>4, <1>5 DEF TypeOK, MemoryOK, Name, Monitored, IsTrace
<1>6. CASE /\ networkData' = [networkData EXCEPT ![first].alias = Learnt(@, p.ip1, p.ip2)]
           /\ UNCHANGED <<keys, routerCount>>
  <2>1. \A a : a \subseteq Address \cup {Undefined}
                => Learnt(a, p.ip1, p.ip2) \subseteq Address \cup {Undefined}
    BY <1>1 DEF Learnt, IsAllyPair
  <2>2. /\ DOMAIN networkData' = DOMAIN networkData
        /\ networkData' \in [DOMAIN networkData' -> Entry]
        /\ \A k \in DOMAIN networkData :
              /\ networkData'[k].isMonitor = networkData[k].isMonitor
              /\ networkData'[k].ipNetInt = networkData[k].ipNetInt
    <3>1. networkData \in [DOMAIN networkData -> Entry]
      BY DEF TypeOK, MemoryOK
    <3>2. CASE first \notin DOMAIN networkData
      <4>1. networkData' = networkData
        BY <1>6, <3>1, <3>2
      <4>. QED
        BY <3>1, <4>1
    <3>3. CASE first \in DOMAIN networkData
      <4>1. networkData[first] \in Entry
        BY <3>1, <3>3
      <4>2. [networkData[first] EXCEPT !.alias = Learnt(@, p.ip1, p.ip2)] \in Entry
        BY <2>1, <4>1 DEF Entry
      <4>. QED
        BY <1>6, <3>1, <3>3, <4>1, <4>2 DEF Entry
    <3>. QED
      BY <3>2, <3>3
  <2>3. Monitored' = Monitored
    BY <2>2 DEF Monitored
  <2>4. MemoryOK'
    BY <1>4, <1>6, <2>2, <2>3 DEF TypeOK, MemoryOK, Name, IsTrace
  <2>. QED
    BY <1>2, <1>3, <2>4 DEF TypeOK
<1>7. CASE /\ routerCount' = routerCount + 1
           /\ keys' = Append(keys, FreshName)
           /\ networkData' =
                 [k \in DOMAIN networkData \cup {FreshName} |->
                     IF k = FreshName
                     THEN [isMonitor |-> FALSE, alias |-> {p.ip1, p.ip2},
                           ipNetInt |-> Undefined]
                     ELSE networkData[k]]
  <2>1. DOMAIN networkData' = DOMAIN networkData \cup {FreshName}
    BY <1>7
  <2>2. networkData' \in [DOMAIN networkData' -> Entry]
    BY <1>1, <1>7, <2>1 DEF TypeOK, MemoryOK, Entry, IsAllyPair
  <2>3. FreshName \in Name' /\ Name \subseteq Name' /\ routerCount' \in Nat
    <3>1. routerCount \in Nat /\ routerCount + 1 \in 1..routerCount'
      BY <1>7 DEF TypeOK, MemoryOK
    <3>2. 1..routerCount \subseteq 1..routerCount' /\ routerCount' \in Nat
      BY <1>7, <3>1
    <3>. QED
      BY <3>1, <3>2 DEF FreshName, Name
  <2>4. Lists(keys', DOMAIN networkData')
    BY <1>7, <2>1, KeyAppended DEF TypeOK, MemoryOK
  <2>5. \A k \in Monitored' : k \in Monitors /\ networkData'[k].ipNetInt = k
    BY <1>7, <2>1 DEF Monitored, TypeOK, MemoryOK
  <2>6. MemoryOK'
    BY <1>4, <2>1, <2>2, <2>3, <2>4, <2>5 DEF TypeOK, MemoryOK, IsTrace
  <2>. QED
    BY <1>2, <1>3, <2>6 DEF TypeOK
<1>. QED
  BY <1>5, <1>6, <1>7 DEF ReceiveAllyReply

LEMMA ConnectedType ==
    ASSUME TypeOK, NEW s \in pending, Connected(s)
    PROVE  TypeOK'
<1>1. MemoryOK'
  BY DEF Connected, memory, TypeOK, MemoryOK, Name, Monitored, IsTrace
<1>2. MessagesOK'
  BY DEF Connected, memory, TypeOK, MessagesOK, IsTrace, IsAllyPair
<1>3. \A j \in Tasks(s.msg, s.id) :
         \/ j.type = "trace" /\ j.target \in Monitors
         \/ j.type = "ally" /\ IsAllyPair(j)
  <2>1. s.msg \in Request /\ (s.msg.type = "toSend" => toSend \in Monitors)
    BY DEF TypeOK, MessagesOK
  <2>. QED
    <3>1. CASE s.msg.type = "ally"
      <4>1. s.msg.ip1 \in Address /\ s.msg.ip2 \in Address
        BY <2>1, <3>1 DEF Request
      <4>. QED
        BY <3>1, <4>1 DEF Tasks, IsAllyPair
    <3>2. CASE s.msg.type = "trace"
      <4>1. s.msg.monitors \subseteq Monitors
        BY <2>1, <3>2 DEF Request
      <4>2. Tasks(s.msg, s.id) = {[type |-> "trace", id |-> s.id, target |-> t] :
                                    t \in s.msg.monitors}
        BY <3>2 DEF Tasks
      <4>. QED
        BY <4>1, <4>2 DEF IsAllyPair
    <3>3. CASE s.msg.type = "toSend"
      <4>2. Tasks(s.msg, s.id) = {[type |-> "trace", id |-> s.id, target |-> toSend]}
        BY <3>3 DEF Tasks
      <4>. QED
        BY <2>1, <3>3, <4>2 DEF IsAllyPair
    <3>. QED
      BY <2>1, <3>1, <3>2, <3>3 DEF Request
<1>4. MonitorsOK'
  BY <1>3 DEF Connected, TypeOK, MonitorsOK, IsAllyPair
<1>. QED
  BY <1>1, <1>2, <1>4 DEF TypeOK

(* Steps of the monitors leave the server's memory alone.                  *)
LEMMA ServerUnchangedType ==
    ASSUME MemoryOK, UNCHANGED server
    PROVE  MemoryOK'
  BY DEF server, memory, MemoryOK, Name, Monitored, IsTrace

LEMMA ReportType ==
    ASSUME TypeOK, NEW m \in Monitors, NEW j \in jobs[m], NEW packet,
           Report(m, j, packet),
           \/ packet.type = "trace" /\ IsTrace(packet)
           \/ packet.type = "ally_reply" /\ IsAllyPair(packet)
                 /\ packet.success \in BOOLEAN
    PROVE  TypeOK'
<1>1. MemoryOK'
  BY ServerUnchangedType DEF Report, TypeOK
<1>2. MessagesOK'
  BY DEF Report, server, memory, TypeOK, MessagesOK, IsTrace, IsAllyPair
<1>3. MonitorsOK'
  BY DEF Report, Exits, TypeOK, MonitorsOK, IsAllyPair
<1>. QED
  BY <1>1, <1>2, <1>3 DEF TypeOK

LEMMA MonitorType ==
    ASSUME TypeOK, NEW m \in Monitors,
           StartMonitor(m) \/ Subscribe(m) \/ Work(m) \/ MonitorDies(m)
    PROVE  TypeOK'
<1>1. CASE StartMonitor(m) \/ Subscribe(m) \/ MonitorDies(m)
  <2>1. UNCHANGED server
    BY <1>1 DEF StartMonitor, Subscribe, MonitorDies
  <2>2. MemoryOK'
    BY <2>1, ServerUnchangedType DEF TypeOK
  <2>3. MessagesOK'
    BY <1>1, <2>1 DEF StartMonitor, Subscribe, MonitorDies, server, memory,
                      TypeOK, MessagesOK, IsTrace, IsAllyPair
  <2>4. MonitorsOK'
    BY <1>1 DEF StartMonitor, Subscribe, MonitorDies, Exits, TypeOK,
                MonitorsOK, IsAllyPair
  <2>. QED
    BY <2>2, <2>3, <2>4 DEF TypeOK
<1>2. ASSUME NEW j \in jobs[m], TracerouteDone(m, j)
      PROVE  TypeOK'
  <2>1. j.target \in Monitors
    BY <1>2 DEF TracerouteDone, TypeOK, MonitorsOK
  <2>2. PICK route \in Routes[m][j.target] :
           Report(m, j, [type |-> "trace", id |-> j.id, from |-> m,
                         to |-> j.target, hops |-> route])
    BY <1>2 DEF TracerouteDone
  <2>. QED
    BY <2>1, <2>2, ReportType DEF IsTrace
<1>3. ASSUME NEW j \in jobs[m], AllyDone(m, j)
      PROVE  TypeOK'
  <2>1. IsAllyPair(j)
    BY <1>3 DEF AllyDone, TypeOK, MonitorsOK
  <2>2. PICK success \in BOOLEAN :
           Report(m, j, [type |-> "ally_reply", id |-> j.id, success |-> success,
                         ip1 |-> j.ip1, ip2 |-> j.ip2])
    BY <1>3 DEF AllyDone, Answers
  <2>. QED
    BY <2>1, <2>2, ReportType DEF IsAllyPair
<1>. QED
  BY <1>1, <1>2, <1>3 DEF Work

LEMMA NextType == TypeOK /\ [Next]_vars => TypeOK'
<1>. SUFFICES ASSUME TypeOK, [Next]_vars PROVE TypeOK'
  OBVIOUS
<1>1. CASE ServerKilled
  <2>1. MemoryOK' /\ MessagesOK'
    BY <1>1, CrashType DEF ServerKilled, TypeOK
  <2>2. MonitorsOK'
    BY <1>1 DEF ServerKilled, monitor, TypeOK, MonitorsOK, IsAllyPair
  <2>. QED
    BY <2>1, <2>2 DEF TypeOK
<1>2. CASE ServerBoot
  <2>1. MemoryOK'
    BY <1>2 DEF ServerBoot, memory, TypeOK, MemoryOK, Name, Monitored, IsTrace
  <2>2. MessagesOK' /\ MonitorsOK'
    BY <1>2 DEF ServerBoot, memory, monitor, TypeOK, MessagesOK, MonitorsOK,
                IsTrace, IsAllyPair
  <2>. QED
    BY <2>1, <2>2 DEF TypeOK
<1>3. CASE Receive
  BY <1>3, NotifyType, TraceType, AllyReplyType DEF Receive
<1>4. ASSUME NEW s \in pending, ConnectRefused(s)
      PROVE  TypeOK'
  <2>1. MemoryOK' /\ MessagesOK'
    BY <1>4, CrashType DEF ConnectRefused, TypeOK
  <2>2. MonitorsOK'
    BY <1>4 DEF ConnectRefused, monitor, TypeOK, MonitorsOK, IsAllyPair
  <2>. QED
    BY <2>1, <2>2 DEF TypeOK
<1>5. CASE Connect
  BY <1>4, <1>5, ConnectedType DEF Connect
<1>6. CASE \E m \in Monitors :
              StartMonitor(m) \/ Subscribe(m) \/ Work(m) \/ MonitorDies(m)
  BY <1>6, MonitorType
<1>7. CASE UNCHANGED vars
  <2>1. MemoryOK'
    BY <1>7, ServerUnchangedType DEF vars, TypeOK
  <2>2. MessagesOK' /\ MonitorsOK'
    BY <1>7 DEF vars, server, memory, monitor, TypeOK, MessagesOK, MonitorsOK,
                IsTrace, IsAllyPair
  <2>. QED
    BY <2>1, <2>2 DEF TypeOK
<1>. QED
  BY <1>1, <1>2, <1>3, <1>5, <1>6, <1>7 DEF Next

(* The state keeps its shape in every behaviour, whatever crashes, deaths  *)
(* and restarts the bounds allow.                                          *)
THEOREM TypeCorrect == Spec => []TypeOK
<1>. QED
  BY InitType, NextType, PTL DEF Spec

-----------------------------------------------------------------------------
(* The alias table.                                                        *)

AliasInv == TypeOK /\ AnswersSound /\ AliasSound

LEMMA AliasReply ==
    ASSUME AliasInv, NEW p \in toServer, ReceiveAllyReply(p)
    PROVE  AliasSound'
<1>. DEFINE holders == Holders(p.ip1, p.ip2)
            first == keys[Min(holders)]
<1>1. p.success => RouterOf[p.ip1] = RouterOf[p.ip2]
  BY DEF AliasInv, AnswersSound, ReceiveAllyReply
<1>2. CASE UNCHANGED networkData
  BY <1>2 DEF AliasInv, AliasSound
<1>3. CASE /\ p.success /\ holders # {}
           /\ networkData' = [networkData EXCEPT ![first].alias = Learnt(@, p.ip1, p.ip2)]
  <2>1. /\ first \in DOMAIN networkData
        /\ {p.ip1, p.ip2} \cap networkData[first].alias # {}
    <3>1. holders \subseteq 1..Len(keys) /\ keys \in Seq(DOMAIN networkData)
      BY DEF Holders, AliasInv, TypeOK, MemoryOK, Lists
    <3>2. holders \subseteq Nat /\ holders # {}
      BY <1>3, <3>1
    <3>3. Min(holders) \in holders
      BY <3>2, LeastIndex
    <3>4. Min(holders) \in 1..Len(keys)
          /\ {p.ip1, p.ip2} \cap networkData[first].alias # {}
      BY <3>1, <3>3 DEF Holders
    <3>. QED
      BY <3>1, <3>4, ElementType
  <2>2. networkData[first] \in Entry
    BY <2>1 DEF AliasInv, TypeOK, MemoryOK
  <2>3. /\ DOMAIN networkData' = DOMAIN networkData
        /\ networkData'[first].alias = Learnt(networkData[first].alias, p.ip1, p.ip2)
        /\ \A k \in DOMAIN networkData \ {first} : networkData'[k] = networkData[k]
    BY <1>3, <2>1, <2>2 DEF Entry
  <2>4. p.ip1 # Undefined /\ p.ip2 # Undefined
    BY DiscoveryAssumption DEF AliasInv, TypeOK, MessagesOK, IsAllyPair, Hop,
                               ReceiveAllyReply
  <2>5. \A x \in networkData'[first].alias \ {Undefined} : RouterOf[x] = RouterOf[p.ip1]
    BY <1>1, <1>3, <2>1, <2>3, <2>4 DEF Learnt, AliasInv, AliasSound
  <2>. QED
    BY <2>3, <2>5 DEF AliasInv, AliasSound
<1>4. CASE /\ p.success
           /\ networkData' =
                 [k \in DOMAIN networkData \cup {FreshName} |->
                     IF k = FreshName
                     THEN [isMonitor |-> FALSE, alias |-> {p.ip1, p.ip2},
                           ipNetInt |-> Undefined]
                     ELSE networkData[k]]
  BY <1>1, <1>4 DEF AliasInv, AliasSound
<1>. QED
  BY <1>2, <1>3, <1>4 DEF ReceiveAllyReply

LEMMA AliasCrash ==
    ASSUME ServerCrash
    PROVE  AnswersSound' /\ AliasSound'
  BY DEF ServerCrash, AnswersSound, AliasSound, KnownEntry

LEMMA AliasNext == AliasInv /\ [Next]_vars => AliasInv'
<1>. SUFFICES ASSUME AliasInv, [Next]_vars PROVE AliasInv'
  OBVIOUS
<1>1. TypeOK'
  BY NextType DEF AliasInv
<1>2. ASSUME UNCHANGED networkData, toServer' \subseteq toServer
      PROVE  AliasInv'
  BY <1>1, <1>2 DEF AliasInv, AnswersSound, AliasSound
<1>3. ASSUME ServerCrash
      PROVE  AliasInv'
  BY <1>1, <1>3, AliasCrash DEF AliasInv
<1>4. ASSUME NEW p \in toServer, ReceiveNotify(p)
      PROVE  AliasInv'
  <2>1. AnswersSound'
    BY <1>4 DEF ReceiveNotify, AliasInv, AnswersSound
  <2>2. AliasSound'
    BY <1>4 DEF ReceiveNotify, Registered, Announced, AliasInv, AliasSound
  <2>. QED
    BY <1>1, <2>1, <2>2 DEF AliasInv
<1>5. ASSUME NEW p \in toServer, ReceiveTrace(p)
      PROVE  AliasInv'
  BY <1>2, <1>3, <1>5 DEF ReceiveTrace
<1>6. ASSUME NEW p \in toServer, ReceiveAllyReply(p)
      PROVE  AliasInv'
  <2>1. AnswersSound'
    BY <1>6 DEF ReceiveAllyReply, AliasInv, AnswersSound
  <2>. QED
    BY <1>1, <1>6, <2>1, AliasReply DEF AliasInv
<1>7. ASSUME NEW s \in pending, Connected(s) \/ ConnectRefused(s)
      PROVE  AliasInv'
  BY <1>2, <1>3, <1>7 DEF Connected, ConnectRefused, memory
<1>8. ASSUME NEW m \in Monitors, NEW j \in jobs[m], AllyDone(m, j)
      PROVE  AliasInv'
  <2>1. PICK success \in Answers(j.ip1, j.ip2) :
           Report(m, j, [type |-> "ally_reply", id |-> j.id, success |-> success,
                         ip1 |-> j.ip1, ip2 |-> j.ip2])
    BY <1>8 DEF AllyDone
  <2>2. success => RouterOf[j.ip1] = RouterOf[j.ip2]
    BY DEF Answers
  <2>3. UNCHANGED networkData
    BY <2>1 DEF Report, server, memory
  <2>4. AnswersSound'
    BY <2>1, <2>2 DEF Report, AliasInv, AnswersSound
  <2>. QED
    BY <1>1, <2>3, <2>4 DEF AliasInv, AliasSound
<1>9. ASSUME NEW m \in Monitors, NEW j \in jobs[m], TracerouteDone(m, j)
      PROVE  AliasInv'
  <2>1. UNCHANGED networkData
    BY <1>9 DEF TracerouteDone, Report, server, memory
  <2>2. AnswersSound'
    BY <1>9 DEF TracerouteDone, Report, AliasInv, AnswersSound
  <2>. QED
    BY <1>1, <2>1, <2>2 DEF AliasInv, AliasSound
<1>10. ASSUME NEW m \in Monitors, StartMonitor(m) \/ MonitorDies(m)
       PROVE  AliasInv'
  BY <1>2, <1>10 DEF StartMonitor, MonitorDies, server, memory
<1>11. ASSUME NEW m \in Monitors, Subscribe(m)
       PROVE  AliasInv'
  <2>1. UNCHANGED networkData
    BY <1>11 DEF Subscribe, server, memory
  <2>2. AnswersSound'
    BY <1>11 DEF Subscribe, AliasInv, AnswersSound
  <2>. QED
    BY <1>1, <2>1, <2>2 DEF AliasInv, AliasSound
<1>12. CASE ServerKilled \/ ServerBoot
  BY <1>2, <1>3, <1>12 DEF ServerKilled, ServerBoot, memory
<1>13. CASE UNCHANGED vars
  BY <1>2, <1>13 DEF vars, server, memory
<1>. QED
  BY <1>4, <1>5, <1>6, <1>7, <1>8, <1>9, <1>10, <1>11, <1>12, <1>13
     DEF Next, Receive, Connect, Work

(* One entry of the alias table never mixes two routers, whatever the      *)
(* routes, the order of the answers, the crashes and the restarts.         *)
THEOREM AliasTableSound == Spec => []AliasSound
<1>1. Init => AliasInv
  <2>. SUFFICES ASSUME Init PROVE AnswersSound /\ AliasSound
    BY InitType DEF AliasInv
  <2>. QED
    BY DEF Init, AnswersSound, AliasSound, KnownEntry
<1>2. AliasInv => AliasSound
  BY DEF AliasInv
<1>. QED
  BY <1>1, <1>2, AliasNext, PTL DEF Spec

-----------------------------------------------------------------------------
(* Requests and traces name registered monitors.                           *)

KnownInv == TypeOK /\ KnownEnds /\ KnownRequests

FirstBoot == boots = 1 /\ serverUp

(* Nobody but the notification of a monitor changes who is registered.     *)
LEMMA MonitoredKept ==
    ASSUME TypeOK, NEW p \in toServer, ReceiveAllyReply(p)
    PROVE  Monitored' = Monitored
<1>. DEFINE first == keys[Min(Holders(p.ip1, p.ip2))]
<1>1. networkData \in [DOMAIN networkData -> Entry] /\ Monitored \subseteq Monitors
  BY DEF TypeOK, MemoryOK
<1>2. CASE UNCHANGED networkData
  BY <1>2 DEF Monitored
<1>3. CASE networkData' = [networkData EXCEPT ![first].alias = Learnt(@, p.ip1, p.ip2)]
  BY <1>1, <1>3 DEF Monitored, Entry
<1>4. CASE networkData' =
             [k \in DOMAIN networkData \cup {FreshName} |->
                 IF k = FreshName
                 THEN [isMonitor |-> FALSE, alias |-> {p.ip1, p.ip2},
                       ipNetInt |-> Undefined]
                 ELSE networkData[k]]
  <2>1. FreshName \in {"R"} \X Nat
    BY DEF FreshName, RouterName, TypeOK, MemoryOK
  <2>2. FreshName \notin Monitored
    BY <1>1, <2>1, DiscoveryAssumption
  <2>. QED
    BY <1>4, <2>2 DEF Monitored
<1>. QED
  BY <1>2, <1>3, <1>4 DEF ReceiveAllyReply

LEMMA KnownNotify ==
    ASSUME KnownInv, FirstBoot, NEW p \in toServer, ReceiveNotify(p)
    PROVE  KnownEnds' /\ KnownRequests'
<1>1. Monitored' = Monitored \cup {p.name}
  BY DEF ReceiveNotify, Registered, Announced, Monitored
<1>2. KnownEnds'
  BY <1>1 DEF KnownInv, KnownEnds, FirstBoot, ReceiveNotify
<1>. DEFINE newcomer == [to  |-> p.name,
                         id  |-> <<"newcomer", p.name, p.life>>,
                         msg |-> [type |-> "trace", monitors |-> Monitored]]
            others == {[to  |-> networkData[k].ipNetInt,
                        id  |-> <<"others", p.name, p.life>>,
                        msg |-> [type |-> "toSend"]] : k \in Monitored}
<1>3. pending' \subseteq pending \cup others \cup {newcomer}
  BY DEF ReceiveNotify
<1>4. \A s \in others : s.to \in Monitored /\ s.msg.type = "toSend"
  BY DEF KnownInv, TypeOK, MemoryOK
<1>5. \A s \in pending' :
         s.to \in Monitored' /\ (s.msg.type = "trace" => s.msg.monitors \subseteq Monitored')
  BY <1>1, <1>3, <1>4 DEF KnownInv, KnownRequests, FirstBoot
<1>6. toSend' \in Monitored' /\ UNCHANGED jobs
  BY <1>1 DEF ReceiveNotify, monitor
<1>7. KnownRequests'
  BY <1>1, <1>5, <1>6 DEF KnownInv, KnownRequests, FirstBoot
<1>. QED
  BY <1>2, <1>7

LEMMA KnownTrace ==
    ASSUME KnownInv, FirstBoot, NEW p \in toServer, ReceiveTrace(p), ~ServerCrash
    PROVE  KnownEnds' /\ KnownRequests'
<1>1. /\ tracerouteData' = Recorded(p)
      /\ toServer' = toServer \ {p}
      /\ UNCHANGED <<networkData, toSend, jobs>>
  BY DEF ReceiveTrace, monitor
<1>2. Monitored' = Monitored
  BY <1>1 DEF Monitored
<1>3. {p.from, p.to} \subseteq Monitored
  BY DEF ReceiveTrace, KnownInv, KnownEnds, FirstBoot
<1>4. \A s \in pending' :
         s \in pending \/ (s.to \in Monitored /\ s.msg.type = "ally")
  <2>. DEFINE ab == Recorded(p)[FirstTrace(Recorded(p), p.from, p.to)].hops
              ba == Reverse(Recorded(p)[FirstTrace(Recorded(p), p.to, p.from)].hops)
  <2>1. pending' \subseteq pending \cup AllySockets(p.from, p.to, ab, ba)
    BY DEF ReceiveTrace
  <2>2. ASSUME NEW s \in AllySockets(p.from, p.to, ab, ba)
        PROVE  s.to \in Monitored /\ s.msg.type = "ally"
    <3>1. PICK end \in {p.from, p.to}, i \in AlignedHops(ab, ba) :
             s.to = networkData[end].ipNetInt /\ s.msg = AllyPair(ab, ba, i)
      BY DEF AllySockets
    <3>2. networkData[end].ipNetInt = end
      BY <1>3 DEF KnownInv, TypeOK, MemoryOK
    <3>. QED
      BY <1>3, <3>1, <3>2 DEF AllyPair
  <2>. QED
    BY <2>1, <2>2
<1>5. KnownEnds'
  <2>1. tracerouteData \in Seq([from : Monitors, to : Monitors, hops : Seq(Hop)])
    BY DEF KnownInv, TypeOK, MemoryOK
  <2>2. \A i \in 1..Len(tracerouteData') :
           {tracerouteData'[i].from, tracerouteData'[i].to} \subseteq Monitored
    BY <1>1, <1>3, <2>1 DEF Recorded, KnownInv, KnownEnds, FirstBoot
  <2>. QED
    BY <1>1, <1>2, <2>2 DEF KnownInv, KnownEnds, FirstBoot
<1>6. KnownRequests'
  BY <1>1, <1>2, <1>4 DEF KnownInv, KnownRequests, FirstBoot
<1>. QED
  BY <1>5, <1>6

LEMMA KnownConnected ==
    ASSUME KnownInv, FirstBoot, NEW s \in pending, Connected(s)
    PROVE  KnownEnds' /\ KnownRequests'
<1>1. UNCHANGED <<networkData, tracerouteData, toSend, toServer>> /\ pending' \subseteq pending
  BY DEF Connected, memory
<1>2. Monitored' = Monitored
  BY <1>1 DEF Monitored
<1>3. \A j \in Tasks(s.msg, s.id) : j.type = "trace" => j.target \in Monitored
  <2>1. /\ s.msg.type = "trace" => s.msg.monitors \subseteq Monitored
        /\ s.msg.type = "toSend" => toSend \in Monitored
        /\ s.msg.type \in {"ally", "trace", "toSend"}
    <3>1. Undefined \notin Monitors
      BY DiscoveryAssumption DEF Hop, Address
    <3>. QED
      BY <3>1 DEF KnownInv, KnownRequests, FirstBoot, TypeOK, MessagesOK, Request
  <2>2. CASE s.msg.type = "ally"
    BY <2>2 DEF Tasks
  <2>3. CASE s.msg.type = "trace"
    BY <2>1, <2>3 DEF Tasks
  <2>4. CASE s.msg.type = "toSend"
    BY <2>1, <2>4 DEF Tasks
  <2>. QED
    BY <2>1, <2>2, <2>3, <2>4
<1>4. s.to \in Monitored /\ s.to \in Monitors
  BY DEF KnownInv, KnownRequests, FirstBoot, TypeOK, MemoryOK
<1>5. \A m \in Monitors : \A j \in jobs'[m] :
         \/ j \in jobs[m]
         \/ m = s.to /\ j \in Tasks(s.msg, s.id)
  BY DEF Connected, KnownInv, TypeOK, MonitorsOK
<1>6. KnownRequests'
  BY <1>1, <1>2, <1>3, <1>4, <1>5 DEF KnownInv, KnownRequests, FirstBoot
<1>. QED
  BY <1>1, <1>2, <1>6 DEF KnownInv, KnownEnds, FirstBoot

LEMMA KnownReport ==
    ASSUME KnownInv, FirstBoot, NEW m \in Monitors, NEW j \in jobs[m],
           TracerouteDone(m, j) \/ AllyDone(m, j)
    PROVE  KnownEnds' /\ KnownRequests'
<1>1. PICK packet :
         /\ Report(m, j, packet)
         /\ packet.type = "trace" =>
               j.type = "trace" /\ packet.from = m /\ packet.to = j.target
  <2>1. CASE TracerouteDone(m, j)
    BY <2>1 DEF TracerouteDone
  <2>2. CASE AllyDone(m, j)
    BY <2>2 DEF AllyDone
  <2>. QED
    BY <2>1, <2>2
<1>2. UNCHANGED <<serverUp, boots, networkData, tracerouteData, toSend, pending>>
  BY <1>1 DEF Report, server, memory
<1>3. Monitored' = Monitored
  BY <1>2 DEF Monitored
<1>4. m \in Monitored /\ (j.type = "trace" => j.target \in Monitored)
  BY DEF KnownInv, KnownRequests, FirstBoot
<1>5. /\ toServer' = toServer \cup {packet}
      /\ \A n \in Monitors : jobs'[n] \subseteq jobs[n]
  BY <1>1 DEF Report, FirstBoot, KnownInv, TypeOK, MonitorsOK
<1>6. KnownEnds'
  BY <1>1, <1>2, <1>3, <1>4, <1>5 DEF KnownInv, KnownEnds, FirstBoot
<1>7. KnownRequests'
  BY <1>2, <1>3, <1>5 DEF KnownInv, KnownRequests, FirstBoot
<1>. QED
  BY <1>6, <1>7

LEMMA KnownNext == KnownInv /\ [Next]_vars => KnownInv'
<1>. SUFFICES ASSUME KnownInv, [Next]_vars, FirstBoot'
              PROVE  KnownEnds' /\ KnownRequests'
  BY NextType DEF KnownInv, FirstBoot, KnownEnds, KnownRequests
<1>1. ~ServerCrash /\ ~ServerBoot
  BY DEF ServerCrash, ServerBoot, FirstBoot, KnownInv, TypeOK, MemoryOK
<1>2. ~ServerKilled /\ \A s \in pending : ~ConnectRefused(s)
  BY <1>1 DEF ServerKilled, ConnectRefused
<1>3. FirstBoot
  BY <1>1, <1>2 DEF Next, Receive, Connect, Work, ReceiveNotify, ReceiveTrace,
       ReceiveAllyReply, Connected, StartMonitor, Subscribe, MonitorDies,
       TracerouteDone, AllyDone, Report, vars, server, memory, FirstBoot
<1>4. ASSUME UNCHANGED <<serverUp, boots, networkData, tracerouteData, toSend, pending>>,
             \A p \in toServer' : p \in toServer \/ p.type # "trace",
             \A m \in Monitors : jobs'[m] \subseteq jobs[m]
      PROVE  KnownEnds' /\ KnownRequests'
  <2>1. Monitored' = Monitored
    BY <1>4 DEF Monitored
  <2>. QED
    BY <1>3, <1>4, <2>1 DEF KnownInv, KnownEnds, KnownRequests, FirstBoot
<1>5. ASSUME NEW p \in toServer, ReceiveAllyReply(p)
      PROVE  KnownEnds' /\ KnownRequests'
  <2>1. Monitored' = Monitored
    BY <1>5, MonitoredKept DEF KnownInv
  <2>2. toServer' \subseteq toServer /\ UNCHANGED <<tracerouteData, toSend, pending, jobs>>
    BY <1>5 DEF ReceiveAllyReply, monitor
  <2>. QED
    BY <1>3, <2>1, <2>2 DEF KnownInv, KnownEnds, KnownRequests, FirstBoot
<1>6. ASSUME NEW m \in Monitors, StartMonitor(m) \/ Subscribe(m) \/ MonitorDies(m)
      PROVE  KnownEnds' /\ KnownRequests'
  <2>1. UNCHANGED <<serverUp, boots, networkData, tracerouteData, toSend, pending>>
    BY <1>6 DEF StartMonitor, Subscribe, MonitorDies, server, memory
  <2>2. \A p \in toServer' : p \in toServer \/ p.type # "trace"
    BY <1>6 DEF StartMonitor, Subscribe, MonitorDies
  <2>3. \A n \in Monitors : jobs'[n] \subseteq jobs[n]
    BY <1>6 DEF StartMonitor, Subscribe, MonitorDies, Exits, KnownInv, TypeOK, MonitorsOK
  <2>. QED
    BY <1>4, <2>1, <2>2, <2>3
<1>7. CASE UNCHANGED vars
  BY <1>4, <1>7 DEF vars, server, memory, monitor
<1>. QED
  BY <1>1, <1>2, <1>3, <1>5, <1>6, <1>7, KnownNotify, KnownTrace, KnownConnected,
     KnownReport DEF Next, Receive, Connect, Work

LEMMA KnownInit == Init => KnownInv
<1>. SUFFICES ASSUME Init PROVE KnownEnds /\ KnownRequests
  BY InitType DEF KnownInv
<1>. QED
  BY DEF Init, KnownEnds, KnownRequests

(* Until the server is restarted, the ends of every trace are registered,  *)
(* even when monitors die and come back.                                   *)
THEOREM TraceEndsKnown == Spec => []KnownEnds
<1>1. KnownInv => KnownEnds
  BY DEF KnownInv
<1>. QED
  BY <1>1, KnownInit, KnownNext, PTL DEF Spec

-----------------------------------------------------------------------------
(* Alias tests on symmetric routes.                                        *)

(* The two hop lists that a trace is paired with are routes of the pair.   *)
LEMMA PairedRoutes ==
    ASSUME TypeOK, NEW p \in toServer, p.type = "trace",
           FirstTrace(Recorded(p), p.to, p.from) # 0
    PROVE  /\ p.from \in Monitors /\ p.to \in Monitors
           /\ Recorded(p)[FirstTrace(Recorded(p), p.from, p.to)].hops
                 \in Routes[p.from][p.to]
           /\ Recorded(p)[FirstTrace(Recorded(p), p.to, p.from)].hops
                 \in Routes[p.to][p.from]
<1>. DEFINE data == Recorded(p)
            back == FirstTrace(data, p.to, p.from)
            forth == FirstTrace(data, p.from, p.to)
<1>1. IsTrace(p)
  BY DEF TypeOK, MessagesOK
<1>2. /\ Len(data) \in Nat /\ Len(data) \in 1..Len(data)
      /\ data[Len(data)].from = p.from /\ data[Len(data)].to = p.to
      /\ \A i \in 1..Len(data) : IsTrace(data[i])
  BY <1>1 DEF Recorded, TypeOK, MemoryOK, IsTrace
<1>3. forth # 0
  BY <1>2, FirstTraceExists
<1>4. forth \in 1..Len(data) /\ data[forth].from = p.from /\ data[forth].to = p.to
  BY <1>2, <1>3, FirstTraceFound
<1>5. back \in 1..Len(data) /\ data[back].from = p.to /\ data[back].to = p.from
  BY <1>2, FirstTraceFound
<1>. QED
  BY <1>1, <1>2, <1>4, <1>5 DEF IsTrace

LEMMA SameRouterSockets ==
    ASSUME SymmetricRoutes, NEW from \in Monitors, NEW to \in Monitors,
           NEW ab \in Routes[from][to], NEW hops \in Routes[to][from],
           NEW s \in AllySockets(from, to, ab, Reverse(hops))
    PROVE  /\ s.msg.type = "ally"
           /\ RouterOf[s.msg.ip1] = RouterOf[s.msg.ip2]
<1>1. PICK end \in {from, to}, i \in AlignedHops(ab, Reverse(hops)) :
         s.msg = AllyPair(ab, Reverse(hops), i)
  BY DEF AllySockets
<1>2. RouterOf[ab[i]] = RouterOf[Reverse(hops)[i + 1]]
  BY DEF SymmetricRoutes
<1>. QED
  BY <1>1, <1>2 DEF AllyPair

AllyInv ==
    SymmetricRoutes =>
        /\ \A s \in pending :
              s.msg.type = "ally" => RouterOf[s.msg.ip1] = RouterOf[s.msg.ip2]
        /\ \A m \in Monitors : \A j \in jobs[m] :
              j.type = "ally" => RouterOf[j.ip1] = RouterOf[j.ip2]

LEMMA AllyNext == TypeOK /\ AllyInv /\ [Next]_vars => AllyInv'
<1>. SUFFICES ASSUME TypeOK, AllyInv, [Next]_vars, SymmetricRoutes PROVE AllyInv'
  BY DEF AllyInv
<1>1. ASSUME \A s \in pending' : s \in pending \/ s.msg.type # "ally",
             \A m \in Monitors : jobs'[m] \subseteq jobs[m]
      PROVE  AllyInv'
  BY <1>1 DEF AllyInv
<1>2. ASSUME ServerCrash, UNCHANGED monitor
      PROVE  AllyInv'
  BY <1>1, <1>2 DEF ServerCrash, monitor
<1>3. ASSUME NEW p \in toServer, ReceiveTrace(p)
      PROVE  AllyInv'
  <2>. DEFINE ab == Recorded(p)[FirstTrace(Recorded(p), p.from, p.to)].hops
              hops == Recorded(p)[FirstTrace(Recorded(p), p.to, p.from)].hops
  <2>1. UNCHANGED jobs
    BY <1>3 DEF ReceiveTrace, monitor
  <2>2. CASE pending' \subseteq pending
    BY <1>1, <2>1, <2>2
  <2>3. CASE /\ FirstTrace(Recorded(p), p.to, p.from) # 0
             /\ pending' = pending \cup AllySockets(p.from, p.to, ab, Reverse(hops))
    <3>1. /\ p.from \in Monitors /\ p.to \in Monitors
          /\ ab \in Routes[p.from][p.to] /\ hops \in Routes[p.to][p.from]
      BY <1>3, <2>3, PairedRoutes DEF ReceiveTrace
    <3>2. \A s \in AllySockets(p.from, p.to, ab, Reverse(hops)) :
             RouterOf[s.msg.ip1] = RouterOf[s.msg.ip2]
      BY <3>1, SameRouterSockets
    <3>. QED
      BY <2>1, <2>3, <3>2 DEF AllyInv
  <2>4. CASE ServerCrash
    BY <1>2, <1>3, <2>4 DEF ReceiveTrace
  <2>. QED
    BY <1>3, <2>2, <2>3, <2>4 DEF ReceiveTrace
<1>4. ASSUME NEW p \in toServer, ReceiveNotify(p)
      PROVE  AllyInv'
  BY <1>1, <1>4 DEF ReceiveNotify, monitor
<1>5. ASSUME NEW p \in toServer, ReceiveAllyReply(p)
      PROVE  AllyInv'
  BY <1>1, <1>5 DEF ReceiveAllyReply, monitor
<1>6. ASSUME NEW s \in pending, Connected(s)
      PROVE  AllyInv'
  <2>1. \A j \in Tasks(s.msg, s.id) :
           j.type = "ally" => s.msg.type = "ally" /\ j.ip1 = s.msg.ip1 /\ j.ip2 = s.msg.ip2
    <3>1. s.msg.type \in {"ally", "trace", "toSend"}
      BY DEF TypeOK, MessagesOK, Request
    <3>2. CASE s.msg.type = "ally"
      BY <3>2 DEF Tasks
    <3>3. CASE s.msg.type = "trace"
      BY <3>3 DEF Tasks
    <3>4. CASE s.msg.type = "toSend"
      BY <3>4 DEF Tasks
    <3>. QED
      BY <3>1, <3>2, <3>3, <3>4
  <2>2. \A m \in Monitors : \A j \in jobs'[m] : j \in jobs[m] \/ j \in Tasks(s.msg, s.id)
    BY <1>6 DEF Connected, TypeOK, MonitorsOK
  <2>3. pending' \subseteq pending
    BY <1>6 DEF Connected
  <2>. QED
    BY <2>1, <2>2, <2>3 DEF AllyInv
<1>7. ASSUME NEW s \in pending, ConnectRefused(s)
      PROVE  AllyInv'
  BY <1>2, <1>7 DEF ConnectRefused
<1>8. ASSUME NEW m \in Monitors,
             StartMonitor(m) \/ Subscribe(m) \/ Work(m) \/ MonitorDies(m)
      PROVE  AllyInv'
  <2>1. UNCHANGED pending
    BY <1>8 DEF StartMonitor, Subscribe, Work, MonitorDies, TracerouteDone,
                AllyDone, Report, server
  <2>2. \A n \in Monitors : jobs'[n] \subseteq jobs[n]
    BY <1>8 DEF StartMonitor, Subscribe, Work, MonitorDies, TracerouteDone,
                AllyDone, Report, Exits, TypeOK, MonitorsOK
  <2>. QED
    BY <1>1, <2>1, <2>2
<1>9. CASE ServerKilled \/ ServerBoot \/ UNCHANGED vars
  BY <1>1, <1>2, <1>9 DEF ServerKilled, ServerBoot, vars, server, monitor
<1>. QED
  BY <1>3, <1>4, <1>5, <1>6, <1>7, <1>8, <1>9 DEF Next, Receive, Connect

(* On symmetric routes the server never asks for a test of interfaces of   *)
(* two different routers, whatever traces it has paired.                   *)
THEOREM AllyTestsOneRouter == Spec => []AllySameRouter
<1>1. Init => TypeOK /\ AllyInv
  BY InitType DEF Init, AllyInv
<1>2. TypeOK /\ AllyInv /\ [Next]_vars => (TypeOK /\ AllyInv)'
  BY NextType, AllyNext
<1>3. AllyInv => AllySameRouter
  BY DEF AllyInv, AllySameRouter, AllyRequests
<1>. QED
  BY <1>1, <1>2, <1>3, PTL DEF Spec

-----------------------------------------------------------------------------
(* The server survives when nobody fails and routes are symmetric.         *)

AliveInv == KnownInv /\ AllAlive

LEMMA NoOverrun ==
    ASSUME SymmetricRoutes, NEW a \in Monitors, NEW b \in Monitors,
           NEW ab \in Routes[a][b], NEW hops \in Routes[b][a]
    PROVE  ~Overruns(ab, Reverse(hops))
<1>1. Len(ab) = Len(hops)
  BY DEF SymmetricRoutes
<1>2. ab \in Seq(Hop) /\ hops \in Seq(Hop)
  BY DiscoveryAssumption
<1>3. Len(Reverse(hops)) = Len(hops) /\ Len(ab) \in Nat
  BY <1>2, ReverseType
<1>. QED
  BY <1>1, <1>3 DEF Overruns

LEMMA NoCrash ==
    ASSUME AliveInv, NoFailure, [Next]_vars
    PROVE  serverUp /\ boots = 1 /\ serverUp' /\ boots' = 1
<1>1. serverUp /\ boots = 1 /\ MaxBoots = 1 /\ SymmetricRoutes
  BY DEF AliveInv, AllAlive, NoFailure
<1>2. ASSUME NEW p \in toServer, ReceiveTrace(p)
      PROVE  UNCHANGED <<serverUp, boots>>
  <2>1. {p.from, p.to} \subseteq DOMAIN networkData
    BY <1>1, <1>2 DEF ReceiveTrace, AliveInv, KnownInv, KnownEnds, Monitored
  <2>2. FirstTrace(Recorded(p), p.to, p.from) # 0 =>
           ~Overruns(Recorded(p)[FirstTrace(Recorded(p), p.from, p.to)].hops,
                     Reverse(Recorded(p)[FirstTrace(Recorded(p), p.to, p.from)].hops))
    BY <1>1, <1>2, PairedRoutes, NoOverrun DEF ReceiveTrace, AliveInv, KnownInv
  <2>. QED
    BY <1>2, <2>1, <2>2 DEF ReceiveTrace
<1>3. ASSUME NEW s \in pending
      PROVE  ~ConnectRefused(s)
  <2>1. s.to \in Monitored
    BY <1>1 DEF AliveInv, KnownInv, KnownRequests
  <2>. QED
    BY <2>1 DEF ConnectRefused, AliveInv, AllAlive
<1>4. ~ServerKilled /\ ~ServerBoot
  BY <1>1 DEF ServerKilled, ServerBoot
<1>. QED
  BY <1>1, <1>2, <1>3, <1>4 DEF Next, Receive, Connect, Work, ReceiveNotify,
     ReceiveAllyReply, Connected, StartMonitor, Subscribe, MonitorDies,
     TracerouteDone, AllyDone, Report, vars, server, memory

(* Without failures a process that listens keeps listening.                *)
LEMMA StaysAlive ==
    ASSUME AliveInv, NoFailure, [Next]_vars, NEW m \in Monitors, process[m] # "off"
    PROVE  process'[m] # "off"
<1>1. serverUp /\ MaxDeaths = 0 /\ deaths \in Nat
      /\ process \in [Monitors -> {"off", "listening", "running"}]
  BY DEF AliveInv, AllAlive, NoFailure, KnownInv, TypeOK, MonitorsOK
<1>2. \A n \in Monitors : ~MonitorDies(n)
  BY <1>1 DEF MonitorDies
<1>. QED
  BY <1>1, <1>2 DEF Next, Receive, Connect, Work, ServerKilled, ServerBoot, ReceiveNotify,
     ReceiveTrace, ReceiveAllyReply, Connected, ConnectRefused, StartMonitor,
     Subscribe, TracerouteDone, AllyDone, Report, monitor, vars

LEMMA AliveNext == AliveInv /\ [Next]_vars => AliveInv'
<1>. SUFFICES ASSUME AliveInv, [Next]_vars, NoFailure PROVE AllAlive'
  BY KnownNext DEF AliveInv, AllAlive
<1>1. serverUp' /\ boots' = 1
  BY NoCrash
<1>2. Monitored \subseteq Monitors /\ Monitored' \subseteq Monitors
  BY KnownNext DEF AliveInv, KnownInv, TypeOK, MemoryOK
<1>3. \A m \in Monitored : process'[m] # "off"
  BY <1>2, StaysAlive DEF AliveInv, AllAlive
<1>4. \A p \in toServer : p.type = "notify" => p.name \in Monitors /\ process'[p.name] # "off"
  BY StaysAlive DEF AliveInv, AllAlive, KnownInv, TypeOK, MessagesOK
<1>5. ASSUME NEW p \in toServer, ReceiveNotify(p)
      PROVE  AllAlive'
  <2>1. Monitored' = Monitored \cup {p.name}
    BY <1>5 DEF ReceiveNotify, Registered, Announced, Monitored
  <2>2. toServer' \subseteq toServer /\ p.type = "notify"
    BY <1>5 DEF ReceiveNotify
  <2>. QED
    BY <1>1, <1>3, <1>4, <2>1, <2>2 DEF AllAlive
<1>6. ASSUME Monitored' = Monitored, \A p \in toServer' : p \in toServer \/ p.type # "notify"
      PROVE  AllAlive'
  BY <1>1, <1>3, <1>4, <1>6 DEF AllAlive
<1>7. ASSUME NEW p \in toServer, ReceiveTrace(p)
      PROVE  AllAlive'
  <2>1. ~ServerCrash
    BY <1>1 DEF ServerCrash
  <2>2. UNCHANGED networkData /\ toServer' \subseteq toServer
    BY <1>7, <2>1 DEF ReceiveTrace
  <2>. QED
    BY <1>6, <2>2 DEF Monitored
<1>8. ASSUME NEW p \in toServer, ReceiveAllyReply(p)
      PROVE  AllAlive'
  <2>1. Monitored' = Monitored
    BY <1>8, MonitoredKept DEF AliveInv, KnownInv
  <2>. QED
    BY <1>6, <1>8, <2>1 DEF ReceiveAllyReply
<1>9. ASSUME NEW s \in pending, Connected(s)
      PROVE  AllAlive'
  BY <1>6, <1>9 DEF Connected, memory, Monitored
<1>10. ASSUME NEW m \in Monitors, Subscribe(m)
       PROVE  AllAlive'
  <2>1. serverUp
    BY NoCrash
  <2>2. /\ toServer' = toServer \cup {[type |-> "notify", name |-> m, life |-> life[m]]}
        /\ process'[m] # "off"
    BY <1>10, <2>1 DEF Subscribe, AliveInv, KnownInv, TypeOK, MonitorsOK
  <2>3. Monitored' = Monitored
    BY <1>10 DEF Subscribe, server, memory, Monitored
  <2>. QED
    BY <1>1, <1>3, <1>4, <2>2, <2>3 DEF AllAlive
<1>11. ASSUME NEW m \in Monitors, NEW j \in jobs[m], TracerouteDone(m, j) \/ AllyDone(m, j)
       PROVE  AllAlive'
  <2>1. Monitored' = Monitored
    BY <1>11 DEF TracerouteDone, AllyDone, Report, server, memory, Monitored
  <2>2. \A p \in toServer' : p \in toServer \/ p.type # "notify"
    BY <1>11 DEF TracerouteDone, AllyDone, Report
  <2>. QED
    BY <1>6, <2>1, <2>2
<1>12. ASSUME NEW m \in Monitors, StartMonitor(m) \/ MonitorDies(m)
       PROVE  AllAlive'
  BY <1>6, <1>12 DEF StartMonitor, MonitorDies, server, memory, Monitored
<1>13. CASE UNCHANGED vars
  BY <1>6, <1>13 DEF vars, server, memory, Monitored
<1>14. /\ ~ServerKilled /\ ~ServerBoot
       /\ \A s \in pending : ~ConnectRefused(s)
  BY <1>1, NoCrash DEF ServerKilled, ServerBoot, ConnectRefused, ServerCrash
<1>. QED
  BY <1>5, <1>7, <1>8, <1>9, <1>10, <1>11, <1>12, <1>13, <1>14
     DEF Next, Receive, Connect, Work

LEMMA AliveInit == Init => AliveInv
<1>. SUFFICES ASSUME Init PROVE AllAlive
  BY KnownInit DEF AliveInv
<1>1. Monitored = {}
  BY KnownType DEF Init, Monitored
<1>. QED
  BY <1>1 DEF Init, AllAlive

(* With symmetric routes and processes that nobody kills, the server never *)
(* ends, in whatever order the messages and connections come.              *)
THEOREM ServerSurvives == Spec => []ServerStaysUp
<1>1. AliveInv => ServerStaysUp
  BY DEF AliveInv, AllAlive, ServerStaysUp
<1>. QED
  BY <1>1, AliveInit, AliveNext, PTL DEF Spec

-----------------------------------------------------------------------------
(* One direction of every pair is traced.                                  *)

Covered(a, b) == TraceUnderway(a, b) \/ TraceStored(a, b)

PairInv == AliveInv /\ PairTraced

(* A request that is underway stays underway until its trace is stored.    *)
LEMMA CoveredKept ==
    ASSUME AliveInv, NoFailure, [Next]_vars,
           NEW a \in Monitors, NEW b \in Monitors, Covered(a, b)
    PROVE  Covered(a, b)'
<1>1. serverUp /\ serverUp' /\ ~ServerCrash
  BY NoCrash DEF ServerCrash
<1>2. ASSUME pending \subseteq pending', jobs[a] \subseteq jobs'[a],
             UNCHANGED tracerouteData,
             \A p \in toServer : p \in toServer' \/ p.type # "trace"
      PROVE  Covered(a, b)'
  BY <1>2 DEF Covered, TraceUnderway, TraceStored
<1>3. ASSUME NEW p \in toServer, ReceiveNotify(p) \/ ReceiveAllyReply(p)
      PROVE  Covered(a, b)'
  BY <1>2, <1>3 DEF ReceiveNotify, ReceiveAllyReply, monitor
<1>4. ASSUME NEW p \in toServer, ReceiveTrace(p)
      PROVE  Covered(a, b)'
  <2>1. /\ tracerouteData' = Recorded(p) /\ toServer' = toServer \ {p}
        /\ pending \subseteq pending' /\ UNCHANGED jobs
    BY <1>1, <1>4 DEF ReceiveTrace, monitor
  <2>2. tracerouteData \in Seq([from : Monitors, to : Monitors, hops : Seq(Hop)])
    BY DEF AliveInv, KnownInv, TypeOK, MemoryOK
  <2>3. TraceStored(a, b) => TraceStored(a, b)'
    BY <2>1, <2>2 DEF Recorded, TraceStored, TraceIndexes
  <2>4. p.from = a /\ p.to = b => TraceStored(a, b)'
    BY <2>1, <2>2 DEF Recorded, TraceStored, TraceIndexes
  <2>. QED
    BY <2>1, <2>3, <2>4 DEF Covered, TraceUnderway
<1>5. ASSUME NEW s \in pending, Connected(s)
      PROVE  Covered(a, b)'
  <2>1. /\ pending' = pending \ {s} /\ UNCHANGED <<toServer, tracerouteData>>
        /\ jobs[a] \subseteq jobs'[a]
    BY <1>5 DEF Connected, memory, AliveInv, KnownInv, TypeOK, MonitorsOK
  <2>2. ASSUME s.to = a, s.msg.type = "trace", b \in s.msg.monitors
        PROVE  TraceUnderway(a, b)'
    <3>1. [type |-> "trace", id |-> s.id, target |-> b] \in Tasks(s.msg, s.id)
      BY <2>2 DEF Tasks
    <3>2. a # Undefined
      BY DiscoveryAssumption DEF Hop, Address
    <3>3. jobs'[a] = jobs[a] \cup Tasks(s.msg, s.id)
      BY <1>5, <2>2, <3>2 DEF Connected, AliveInv, KnownInv, TypeOK, MonitorsOK
    <3>. QED
      BY <3>1, <3>3 DEF TraceUnderway
  <2>. QED
    BY <2>1, <2>2 DEF Covered, TraceUnderway, TraceStored
<1>6. ASSUME NEW m \in Monitors, NEW j \in jobs[m], TracerouteDone(m, j)
      PROVE  Covered(a, b)'
  <2>1. PICK route : Report(m, j, [type |-> "trace", id |-> j.id, from |-> m,
                                   to |-> j.target, hops |-> route])
    BY <1>6 DEF TracerouteDone
  <2>2. /\ toServer' = toServer \cup {[type |-> "trace", id |-> j.id, from |-> m,
                                       to |-> j.target, hops |-> route]}
        /\ UNCHANGED <<pending, tracerouteData>>
        /\ \A k \in jobs[a] : k \in jobs'[a] \/ (a = m /\ k = j)
    BY <1>1, <2>1 DEF Report, server, memory, AliveInv, KnownInv, TypeOK, MonitorsOK
  <2>3. CASE \E k \in jobs[a] : k.type = "trace" /\ k.target = b
    <3>1. PICK k \in jobs[a] : k.type = "trace" /\ k.target = b
      BY <2>3
    <3>2. CASE k \in jobs'[a]
      BY <3>1, <3>2 DEF Covered, TraceUnderway
    <3>3. CASE a = m /\ k = j
      <4>. DEFINE packet == [type |-> "trace", id |-> j.id, from |-> m,
                             to |-> j.target, hops |-> route]
      <4>1. packet \in toServer' /\ packet.type = "trace"
            /\ packet.from = a /\ packet.to = b
        BY <2>2, <3>1, <3>3
      <4>. QED
        BY <4>1 DEF Covered, TraceUnderway
    <3>. QED
      BY <2>2, <3>2, <3>3
  <2>4. CASE \/ \E s \in pending : s.to = a /\ s.msg.type = "trace" /\ b \in s.msg.monitors
             \/ \E p \in toServer : p.type = "trace" /\ p.from = a /\ p.to = b
             \/ TraceStored(a, b)
    BY <2>2, <2>4 DEF Covered, TraceUnderway, TraceStored
  <2>. QED
    BY <2>3, <2>4 DEF Covered, TraceUnderway
<1>7. ASSUME NEW m \in Monitors, NEW j \in jobs[m], AllyDone(m, j)
      PROVE  Covered(a, b)'
  <2>1. /\ toServer \subseteq toServer' /\ UNCHANGED <<pending, tracerouteData>>
        /\ \A k \in jobs[a] : k \in jobs'[a] \/ k.type = "ally"
    BY <1>1, <1>7 DEF AllyDone, Report, server, memory, AliveInv, KnownInv, TypeOK,
                      MonitorsOK
  <2>. QED
    BY <2>1 DEF Covered, TraceUnderway, TraceStored
<1>8. ASSUME NEW m \in Monitors, StartMonitor(m) \/ Subscribe(m)
      PROVE  Covered(a, b)'
  BY <1>1, <1>2, <1>8 DEF StartMonitor, Subscribe, server, memory
<1>9. CASE UNCHANGED vars
  BY <1>2, <1>9 DEF vars, server, memory, monitor
<1>10. /\ ~ServerKilled /\ ~ServerBoot
       /\ \A s \in pending : ~ConnectRefused(s)
       /\ \A m \in Monitors : ~MonitorDies(m)
  BY <1>1 DEF ServerKilled, ServerBoot, ConnectRefused, MonitorDies, NoFailure,
              AliveInv, KnownInv, TypeOK, MonitorsOK
<1>. QED
  BY <1>3, <1>4, <1>5, <1>6, <1>7, <1>8, <1>9, <1>10 DEF Next, Receive, Connect, Work

LEMMA PairNext == PairInv /\ [Next]_vars => PairInv'
<1>. SUFFICES ASSUME PairInv, [Next]_vars, NoFailure,
                     NEW a \in Monitored', NEW b \in Monitored', a # b
              PROVE  Covered(a, b)' \/ Covered(b, a)'
  BY AliveNext DEF PairInv, PairTraced, Covered
<1>1. a \in Monitors /\ b \in Monitors
  BY AliveNext DEF PairInv, AliveInv, KnownInv, TypeOK, MemoryOK
<1>2. CASE a \in Monitored /\ b \in Monitored
  <2>1. Covered(a, b) \/ Covered(b, a)
    BY <1>2 DEF PairInv, PairTraced, Covered
  <2>. QED
    BY <1>1, <2>1, CoveredKept DEF PairInv
<1>3. ASSUME NEW p \in toServer, ReceiveNotify(p), ~(a \in Monitored /\ b \in Monitored)
      PROVE  Covered(a, b)' \/ Covered(b, a)'
  <2>. DEFINE newcomer == [to  |-> p.name,
                           id  |-> <<"newcomer", p.name, p.life>>,
                           msg |-> [type |-> "trace", monitors |-> Monitored]]
  <2>1. Monitored' = Monitored \cup {p.name}
    BY <1>3 DEF ReceiveNotify, Registered, Announced, Monitored
  <2>2. \/ a = p.name /\ b \in Monitored
        \/ b = p.name /\ a \in Monitored
    BY <1>3, <2>1
  <2>3. newcomer \in pending'
    BY <1>3, <2>2 DEF ReceiveNotify
  <2>. QED
    BY <2>2, <2>3 DEF Covered, TraceUnderway
<1>4. CASE Monitored' = Monitored
  BY <1>2, <1>4
<1>5. (\E p \in toServer : ReceiveNotify(p)) \/ Monitored' = Monitored
  <2>1. ~ServerCrash
    BY NoCrash DEF PairInv, ServerCrash
  <2>2. ASSUME NEW p \in toServer, ReceiveAllyReply(p)
        PROVE  Monitored' = Monitored
    BY <2>2, MonitoredKept DEF PairInv, AliveInv, KnownInv
  <2>3. ASSUME UNCHANGED networkData
        PROVE  Monitored' = Monitored
    BY <2>3 DEF Monitored
  <2>4. ~ServerKilled /\ \A s \in pending : ~ConnectRefused(s)
    BY <2>1 DEF ServerKilled, ConnectRefused
  <2>5. ASSUME NEW p \in toServer, ReceiveTrace(p)
        PROVE  UNCHANGED networkData
    BY <2>1, <2>5 DEF ReceiveTrace
  <2>6. \A m \in Monitors :
           StartMonitor(m) \/ Subscribe(m) \/ Work(m) \/ MonitorDies(m) => UNCHANGED networkData
    BY DEF StartMonitor, Subscribe, Work, MonitorDies, TracerouteDone, AllyDone,
           Report, server, memory
  <2>7. ServerBoot \/ UNCHANGED vars => UNCHANGED networkData
    BY DEF ServerBoot, vars, server, memory
  <2>8. \A s \in pending : Connected(s) => UNCHANGED networkData
    BY DEF Connected, memory
  <2>. QED
    BY <2>2, <2>3, <2>4, <2>5, <2>6, <2>7, <2>8 DEF Next, Receive, Connect
<1>. QED
  BY <1>2, <1>3, <1>4, <1>5

(* Without failures, of any two registered monitors one has been asked for *)
(* a trace of the other that is stored or still on its way, in spite of    *)
(* the requests that read the shared toSend too late.                      *)
THEOREM OneWayTraced == Spec => []PairTraced
<1>1. Init => PairInv
  <2>1. ASSUME Init PROVE Monitored = {}
    BY <2>1, KnownType DEF Init, Monitored
  <2>. QED
    BY <2>1, AliveInit DEF PairInv, PairTraced
<1>2. PairInv => PairTraced
  BY DEF PairInv
<1>. QED
  BY <1>1, <1>2, PairNext, PTL DEF Spec
-----------------------------------------------------------------------------
(* Discovery implements PairTracing.                                       *)

(* What PairTracing sees of a state.                                       *)
LEMMA SameStatus ==
    ASSUME Monitored' = Monitored,
           \A a, b \in Monitors : /\ TraceStored(a, b)' <=> TraceStored(a, b)
                                  /\ TraceUnderway(a, b)' <=> TraceUnderway(a, b)
    PROVE  UNCHANGED Abstract!vars
BY DEF Abstract!vars, PairStatus, StatusOf

(* A registration makes the newcomer's request underway, and only that.    *)
LEMMA NotifyRegisters ==
    ASSUME AliveInv, NEW p \in toServer, ReceiveNotify(p)
    PROVE  Abstract!Register(p.name)
<1>. DEFINE newcomer == [to  |-> p.name,
                         id  |-> <<"newcomer", p.name, p.life>>,
                         msg |-> [type |-> "trace", monitors |-> Monitored]]
<1>1. Monitored' = Monitored \cup {p.name}
  BY DEF ReceiveNotify, Registered, Announced, Monitored
<1>2. /\ UNCHANGED <<tracerouteData, jobs>>
      /\ toServer' = toServer \ {p} /\ p.type = "notify"
  BY DEF ReceiveNotify, monitor
<1>. DEFINE others == {[to  |-> networkData[k].ipNetInt,
                        id  |-> <<"others", p.name, p.life>>,
                        msg |-> [type |-> "toSend"]] : k \in Monitored}
<1>3. /\ \A s \in pending' : s.msg.type = "trace" => s \in pending \/ s = newcomer
      /\ pending \subseteq pending'
      /\ Monitored # {} => newcomer \in pending'
      /\ Monitored = {} => pending' = pending
  <2>1. pending' = pending \cup others \cup (IF Monitored = {} THEN {} ELSE {newcomer})
    BY DEF ReceiveNotify
  <2>2. \A s \in others : s.msg.type = "toSend"
    OBVIOUS
  <2>3. Monitored = {} => others = {}
    OBVIOUS
  <2>. HIDE DEF others, newcomer
  <2>. QED
    BY <2>1, <2>2, <2>3
<1>4. ASSUME NEW a \in Monitors, NEW b \in Monitors
      PROVE  /\ TraceStored(a, b)' <=> TraceStored(a, b)
             /\ TraceUnderway(a, b)' <=> \/ TraceUnderway(a, b)
                                         \/ a = p.name /\ b \in Monitored
  BY <1>2, <1>3 DEF TraceStored, TraceUnderway
<1>5. PairStatus' = [q \in Monitors \X Monitors |->
                        IF q[1] = p.name /\ q[2] \in Monitored /\ PairStatus[q] = "untraced"
                        THEN "asked" ELSE PairStatus[q]]
  BY <1>4 DEF PairStatus, StatusOf
<1>. QED
  BY <1>1, <1>5 DEF Abstract!Register, Abstract!Pairs
(* A stored trace takes its pair from "asked" to "traced", the first time. *)
LEMMA TraceCounts ==
    ASSUME AliveInv, NoFailure, NEW p \in toServer, ReceiveTrace(p)
    PROVE  Abstract!Trace(p.from, p.to) \/ UNCHANGED Abstract!vars
<1>1. p.type = "trace" /\ p.from \in Monitors /\ p.to \in Monitors
  BY DEF ReceiveTrace, AliveInv, KnownInv, TypeOK, MessagesOK, IsTrace, IsAllyPair
<1>2. ~ServerCrash
  BY NoCrash DEF Next, Receive, ServerCrash
<1>3. /\ tracerouteData' = Recorded(p)
      /\ toServer' = toServer \ {p}
      /\ UNCHANGED <<networkData, jobs>>
      /\ pending \subseteq pending'
      /\ \A s \in pending' : s \in pending \/ s.msg.type = "ally"
  <2>1. \A ab, ba : \A s \in AllySockets(p.from, p.to, ab, ba) : s.msg.type = "ally"
    BY DEF AllySockets, AllyPair
  <2>. QED
    BY <1>2, <2>1 DEF ReceiveTrace, monitor
<1>4. Monitored' = Monitored
  BY <1>3 DEF Monitored
<1>5. tracerouteData \in Seq([from : Monitors, to : Monitors, hops : Seq(Hop)])
  BY DEF AliveInv, KnownInv, TypeOK, MemoryOK
<1>6. TraceUnderway(p.from, p.to)
  BY <1>1 DEF TraceUnderway
<1>7. ASSUME NEW a \in Monitors, NEW b \in Monitors
      PROVE  /\ TraceStored(a, b)' <=> TraceStored(a, b) \/ (a = p.from /\ b = p.to)
             /\ ~(a = p.from /\ b = p.to) => (TraceUnderway(a, b)' <=> TraceUnderway(a, b))
  <2>1. TraceStored(a, b)' <=> TraceStored(a, b) \/ (a = p.from /\ b = p.to)
    BY <1>3, <1>5 DEF Recorded, TraceStored, TraceIndexes
  <2>2. ~(a = p.from /\ b = p.to) => (TraceUnderway(a, b)' <=> TraceUnderway(a, b))
    BY <1>3 DEF TraceUnderway
  <2>. QED
    BY <2>1, <2>2
<1>8. PairStatus' = [PairStatus EXCEPT ![<<p.from, p.to>>] = "traced"]
  <2>1. ASSUME NEW q \in Monitors \X Monitors
        PROVE  StatusOf(q)' = IF q = <<p.from, p.to>> THEN "traced" ELSE StatusOf(q)
    BY <1>1, <1>7 DEF StatusOf
  <2>. QED
    BY <1>1, <2>1 DEF PairStatus
<1>9. PairStatus[<<p.from, p.to>>] \in {"asked", "traced"}
  BY <1>1, <1>6 DEF PairStatus, StatusOf
<1>10. CASE PairStatus[<<p.from, p.to>>] = "asked"
  BY <1>4, <1>8, <1>10 DEF Abstract!Trace
<1>11. CASE PairStatus[<<p.from, p.to>>] = "traced"
  BY <1>1, <1>4, <1>8, <1>11 DEF Abstract!vars, PairStatus
<1>. QED
  BY <1>9, <1>10, <1>11

(* A connect callback of line 116 asks for a trace of the newest monitor;  *)
(* the other callbacks hand on a request that is underway.                 *)
LEMMA ConnectedAsks ==
    ASSUME AliveInv, NoFailure, NEW s \in pending, Connected(s)
    PROVE  Abstract!Ask(s.to, toSend) \/ UNCHANGED Abstract!vars
<1>1. /\ s.to \in Monitored /\ s.to \in Monitors /\ s.to # Undefined
      /\ s.msg \in Request
      /\ s.msg.type = "toSend" => toSend \in Monitored
      /\ toSend # Undefined => toSend \in Monitored
      /\ \A m \in Monitored : m \in Monitors
  BY DiscoveryAssumption DEF AliveInv, AllAlive, KnownInv, KnownRequests, TypeOK,
     MessagesOK, MemoryOK, Hop, Address
<1>2. /\ pending' = pending \ {s}
      /\ jobs' = [jobs EXCEPT ![s.to] = @ \cup Tasks(s.msg, s.id)]
      /\ UNCHANGED <<networkData, tracerouteData, toServer>>
  BY <1>1 DEF Connected, memory
<1>3. jobs = [m \in Monitors |-> jobs[m]]
  BY DEF AliveInv, KnownInv, TypeOK, MonitorsOK
<1>4. jobs' = [m \in Monitors |-> IF m = s.to THEN jobs[m] \cup Tasks(s.msg, s.id) ELSE jobs[m]]
  BY <1>1, <1>2, <1>3
<1>5. Monitored' = Monitored /\ \A a, b \in Monitors : TraceStored(a, b)' <=> TraceStored(a, b)
  BY <1>2 DEF Monitored, TraceStored
<1>6. CASE s.msg.type = "ally"
  <2>1. \A j \in Tasks(s.msg, s.id) : j.type = "ally"
    BY <1>6 DEF Tasks
  <2>2. \A a, b \in Monitors : TraceUnderway(a, b)' <=> TraceUnderway(a, b)
    BY <1>2, <1>4, <1>6, <2>1 DEF TraceUnderway
  <2>. QED
    BY <1>5, <2>2, SameStatus
<1>7. CASE s.msg.type = "trace"
  <2>1. \A t : t \in s.msg.monitors <=>
                  \E j \in Tasks(s.msg, s.id) : j.type = "trace" /\ j.target = t
    <3>1. Tasks(s.msg, s.id) =
             {[type |-> "trace", id |-> s.id, target |-> t] : t \in s.msg.monitors}
      BY <1>7 DEF Tasks
    <3>2. ASSUME NEW t \in s.msg.monitors
          PROVE  \E j \in Tasks(s.msg, s.id) : j.type = "trace" /\ j.target = t
      <4>. DEFINE task == [type |-> "trace", id |-> s.id, target |-> t]
      <4>1. task \in Tasks(s.msg, s.id)
        BY <3>1
      <4>2. task.type = "trace" /\ task.target = t
        OBVIOUS
      <4>. QED
        BY <4>1, <4>2
    <3>3. ASSUME NEW j \in Tasks(s.msg, s.id)
          PROVE  j.type = "trace" /\ j.target \in s.msg.monitors
      BY <3>1
    <3>. QED
      BY <3>2, <3>3
  <2>2. ASSUME NEW a \in Monitors, NEW b \in Monitors
        PROVE  TraceUnderway(a, b)' <=> TraceUnderway(a, b)
    <3>1. (\E j \in jobs'[a] : j.type = "trace" /\ j.target = b)
             <=> \/ \E j \in jobs[a] : j.type = "trace" /\ j.target = b
                 \/ a = s.to /\ b \in s.msg.monitors
      BY <1>4, <2>1
    <3>. QED
      BY <1>2, <1>7, <3>1 DEF TraceUnderway
  <2>. QED
    BY <1>5, <2>2, SameStatus
<1>8. CASE s.msg.type = "toSend"
  <2>1. Tasks(s.msg, s.id) = {[type |-> "trace", id |-> s.id, target |-> toSend]}
    BY <1>8 DEF Tasks
  <2>2. ASSUME NEW a \in Monitors, NEW b \in Monitors
        PROVE  TraceUnderway(a, b)' <=> TraceUnderway(a, b) \/ (a = s.to /\ b = toSend)
    <3>. DEFINE task == [type |-> "trace", id |-> s.id, target |-> toSend]
    <3>0. task.type = "trace" /\ task.target = toSend
      OBVIOUS
    <3>. HIDE DEF task
    <3>1. (\E j \in jobs'[a] : j.type = "trace" /\ j.target = b)
             <=> \/ \E j \in jobs[a] : j.type = "trace" /\ j.target = b
                 \/ a = s.to /\ b = toSend
      <4>1. jobs'[a] = IF a = s.to THEN jobs[a] \cup {task} ELSE jobs[a]
        BY <1>4, <2>1 DEF task
      <4>. QED
        BY <3>0, <4>1
    <3>. QED
      BY <1>2, <1>8, <3>1 DEF TraceUnderway
  <2>3. CASE PairStatus[<<s.to, toSend>>] = "untraced"
    <3>1. PairStatus' = [PairStatus EXCEPT ![<<s.to, toSend>>] = "asked"]
      <4>0. <<s.to, toSend>> \in Monitors \X Monitors
        BY <1>1, <1>8
      <4>1. ~TraceStored(s.to, toSend)
        BY <2>3, <4>0 DEF PairStatus, StatusOf
      <4>2. ASSUME NEW q \in Monitors \X Monitors
            PROVE  StatusOf(q)' = IF q = <<s.to, toSend>> THEN "asked" ELSE StatusOf(q)
        BY <1>5, <2>2, <4>1 DEF StatusOf
      <4>. QED
        BY <4>0, <4>2 DEF PairStatus
    <3>. QED
      BY <1>1, <1>5, <1>8, <2>3, <3>1 DEF Abstract!Ask
  <2>4. CASE PairStatus[<<s.to, toSend>>] # "untraced"
    <3>1. TraceStored(s.to, toSend) \/ TraceUnderway(s.to, toSend)
      BY <1>1, <1>8, <2>4 DEF PairStatus, StatusOf
    <3>2. PairStatus' = PairStatus
      BY <1>5, <2>2, <3>1 DEF PairStatus, StatusOf
    <3>. QED
      BY <1>5, <3>2 DEF Abstract!vars
  <2>. QED
    BY <2>3, <2>4
<1>. QED
  BY <1>1, <1>6, <1>7, <1>8 DEF Request
(* The goroutine's request becomes its packet: nothing changes above.      *)
LEMMA WorkKeepsStatus ==
    ASSUME AliveInv, NoFailure, NEW m \in Monitors, Work(m)
    PROVE  UNCHANGED Abstract!vars
<1>1. Monitored' = Monitored /\ UNCHANGED <<tracerouteData, pending>>
  BY DEF Work, TracerouteDone, AllyDone, Report, server, memory, Monitored
<1>2. serverUp
  BY DEF AliveInv, AllAlive
<1>3. \A a, b \in Monitors : TraceStored(a, b)' <=> TraceStored(a, b)
  BY <1>1 DEF TraceStored
<1>4. jobs = [n \in Monitors |-> jobs[n]]
  BY DEF AliveInv, KnownInv, TypeOK, MonitorsOK
<1>5. PICK j \in jobs[m] : TracerouteDone(m, j) \/ AllyDone(m, j)
  BY DEF Work
<1>6. jobs' = [n \in Monitors |-> IF n = m THEN jobs[m] \ {j} ELSE jobs[n]]
  BY <1>2, <1>4, <1>5 DEF TracerouteDone, AllyDone, Report
<1>7. CASE TracerouteDone(m, j)
  <2>1. PICK route : Report(m, j, [type |-> "trace", id |-> j.id, from |-> m,
                                   to |-> j.target, hops |-> route])
    BY <1>7 DEF TracerouteDone
  <2>. DEFINE packet == [type |-> "trace", id |-> j.id, from |-> m,
                         to |-> j.target, hops |-> route]
  <2>2. toServer' = toServer \cup {packet}
    BY <1>2, <2>1 DEF Report
  <2>3. packet.type = "trace" /\ packet.from = m /\ packet.to = j.target
    OBVIOUS
  <2>4. j.type = "trace"
    BY <1>7 DEF TracerouteDone
  <2>. HIDE DEF packet
  <2>5. ASSUME NEW a \in Monitors, NEW b \in Monitors
        PROVE  TraceUnderway(a, b)' <=> TraceUnderway(a, b)
    <3>1. CASE a = m /\ b = j.target
      BY <1>5, <2>2, <2>3, <2>4, <3>1 DEF TraceUnderway
    <3>2. CASE ~(a = m /\ b = j.target)
      BY <1>1, <1>6, <2>2, <2>3, <3>2 DEF TraceUnderway
    <3>. QED
      BY <3>1, <3>2
  <2>. QED
    BY <1>1, <1>3, <2>5, SameStatus
<1>8. CASE AllyDone(m, j)
  <2>1. j.type = "ally"
    BY <1>8 DEF AllyDone
  <2>2. \A p \in toServer' : p \in toServer \/ p.type = "ally_reply"
    BY <1>2, <1>8 DEF AllyDone, Report
  <2>3. toServer \subseteq toServer'
    BY <1>2, <1>8 DEF AllyDone, Report
  <2>4. \A a, b \in Monitors : TraceUnderway(a, b)' <=> TraceUnderway(a, b)
    BY <1>1, <1>6, <2>1, <2>2, <2>3 DEF TraceUnderway
  <2>. QED
    BY <1>1, <1>3, <2>4, SameStatus
<1>. QED
  BY <1>5, <1>7, <1>8

LEMMA StepImplements ==
    ASSUME AliveInv, NoFailure, [Next]_vars
    PROVE  [Abstract!Next]_(Abstract!vars)
<1>1. ASSUME NEW p \in toServer, ReceiveNotify(p)
      PROVE  Abstract!Next
  <2>1. p.name \in Monitors
    BY <1>1 DEF ReceiveNotify, AliveInv, KnownInv, TypeOK, MessagesOK
  <2>. QED
    BY <1>1, <2>1, NotifyRegisters DEF Abstract!Next
<1>2. ASSUME NEW p \in toServer, ReceiveTrace(p)
      PROVE  [Abstract!Next]_(Abstract!vars)
  <2>1. p.from \in Monitors /\ p.to \in Monitors
    BY <1>2 DEF ReceiveTrace, AliveInv, KnownInv, TypeOK, MessagesOK, IsTrace
  <2>. QED
    BY <1>2, <2>1, TraceCounts DEF Abstract!Next
<1>3. ASSUME NEW s \in pending, Connected(s)
      PROVE  [Abstract!Next]_(Abstract!vars)
  <2>1. s.to \in Monitors /\ (Abstract!Ask(s.to, toSend) => toSend \in Monitors)
    BY DEF AliveInv, AllAlive, KnownInv, KnownRequests, TypeOK, MemoryOK, Abstract!Ask
  <2>. QED
    BY <1>3, <2>1, ConnectedAsks DEF Abstract!Next
<1>4. ASSUME Monitored' = Monitored, UNCHANGED <<tracerouteData, pending, jobs>>,
             \A p \in toServer' : p \in toServer \/ p.type # "trace",
             \A p \in toServer : p \in toServer' \/ p.type # "trace"
      PROVE  UNCHANGED Abstract!vars
  <2>1. \A a, b \in Monitors : /\ TraceStored(a, b)' <=> TraceStored(a, b)
                               /\ TraceUnderway(a, b)' <=> TraceUnderway(a, b)
    BY <1>4 DEF TraceStored, TraceUnderway
  <2>. QED
    BY <1>4, <2>1, SameStatus
<1>5. ASSUME NEW p \in toServer, ReceiveAllyReply(p)
      PROVE  UNCHANGED Abstract!vars
  <2>1. Monitored' = Monitored
    BY <1>5, MonitoredKept DEF AliveInv, KnownInv
  <2>. QED
    BY <1>4, <1>5, <2>1 DEF ReceiveAllyReply, monitor
<1>6. ASSUME NEW m \in Monitors, StartMonitor(m) \/ Subscribe(m)
      PROVE  UNCHANGED Abstract!vars
  <2>1. serverUp
    BY DEF AliveInv, AllAlive
  <2>2. Monitored' = Monitored
    BY <1>6 DEF StartMonitor, Subscribe, server, memory, Monitored
  <2>3. /\ UNCHANGED <<tracerouteData, pending, jobs>>
        /\ \A p \in toServer' : p \in toServer \/ p.type # "trace"
        /\ toServer \subseteq toServer'
    <3>1. CASE StartMonitor(m)
      BY <3>1 DEF StartMonitor, server, memory
    <3>2. CASE Subscribe(m)
      <4>. DEFINE notify == [type |-> "notify", name |-> m, life |-> life[m]]
      <4>1. toServer' = toServer \cup {notify} /\ UNCHANGED <<tracerouteData, pending, jobs>>
        BY <2>1, <3>2 DEF Subscribe, server, memory
      <4>2. notify.type # "trace"
        OBVIOUS
      <4>. QED
        BY <4>1, <4>2
    <3>. QED
      BY <1>6, <3>1, <3>2
  <2>. QED
    BY <1>4, <2>2, <2>3
<1>7. CASE UNCHANGED vars
  BY <1>4, <1>7 DEF vars, server, memory, monitor, Monitored
<1>8. /\ ~ServerKilled /\ ~ServerBoot
      /\ \A s \in pending : ~ConnectRefused(s)
      /\ \A m \in Monitors : ~MonitorDies(m)
  BY NoCrash DEF ServerKilled, ServerBoot, ConnectRefused, MonitorDies, ServerCrash,
     NoFailure, AliveInv, KnownInv, TypeOK, MonitorsOK
<1>. QED
  BY <1>1, <1>2, <1>3, <1>5, <1>6, <1>7, <1>8, WorkKeepsStatus
     DEF Next, Receive, Connect

(* Without failures discovery implements PairTracing: every registration   *)
(* asks for the traces it owes, and a pair's state only moves forward.     *)
THEOREM DiscoveryTracesPairs == ASSUME NoFailure PROVE Spec => TracesPairs
<1>1. Init => Abstract!Init
  <2>1. ASSUME Init PROVE Monitored = {}
    BY <2>1, KnownType DEF Init, Monitored
  <2>2. ASSUME Init, NEW a \in Monitors, NEW b \in Monitors
        PROVE  ~TraceStored(a, b) /\ ~TraceUnderway(a, b)
    <3>1. pending = {} /\ toServer = {} /\ jobs[a] = {} /\ Len(tracerouteData) = 0
      BY <2>2 DEF Init
    <3>2. ~TraceUnderway(a, b)
      BY <3>1 DEF TraceUnderway
    <3>3. TraceIndexes(tracerouteData, a, b) = {}
      BY <3>1 DEF TraceIndexes
    <3>. QED
      BY <3>2, <3>3 DEF TraceStored
  <2>. QED
    <3>1. ASSUME Init, NEW p \in Monitors \X Monitors PROVE StatusOf(p) = "untraced"
      BY <2>2, <3>1 DEF StatusOf
    <3>. QED
      BY <2>1, <3>1 DEF Abstract!Init, Abstract!Pairs, PairStatus
<1>2. AliveInv /\ [Next]_vars => [Abstract!Next]_(Abstract!vars)
  BY StepImplements
<1>. QED
  BY <1>1, <1>2, AliveInit, AliveNext, PTL DEF Spec, TracesPairs, Abstract!Spec
=============================================================================

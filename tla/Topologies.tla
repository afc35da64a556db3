----------------------------- MODULE Topologies ------------------------------
(* What is measured in a small network.  A router answers traceroute,      *)
(* keeps silent, blocks: it neither answers nor lets the probes pass, or   *)
(* filters: it does so for the probes between M1 and M3 only.              *)
EXTENDS ITop

CONSTANTS MaxHops

(* A monitor is its name: one before "A..", one between, one after "R..".  *)
M1 == 1
M2 == 2000
M3 == 4000

MonitorAddress(m) == 10000 + m
Interface(r, from) == 100 + 10 * r + from      \* of router r, facing a router

(* The monitor's parser makes the trace of what traceroute prints.         *)
Monitor == INSTANCE TracerouteParser WITH Silent <- 0

TraceOf(from, to, route, kind) ==
    LET Stops(r) == \/ kind[r] = "blocks"
                    \/ kind[r] = "filters" /\ {from, to} = {M1, M3}
        stop == SelectInSeq(route, Stops)
        Answer(i) == IF kind[route[i]] # "silent"
                     THEN Interface(route[i], IF i = 1 THEN 0 ELSE route[i-1]) ELSE 0
        output == IF stop = 0
                  THEN [i \in 1..Len(route) |-> Answer(i)] \o <<MonitorAddress(to)>>
                  ELSE [ttl \in 1..MaxHops |-> IF ttl < stop THEN Answer(ttl) ELSE 0]
    IN [from |-> from, to |-> to, hops |-> Monitor!Parsed(output)]

(* The traces of all ordered pairs, in the order of "pairs"; the distance  *)
(* is the number of routers between the two ends.                          *)
InputOf(pairs, route, kind, alias, routers) ==
    LET monitors == {p[1] : p \in ToSet(pairs)} \cup {p[2] : p \in ToSet(pairs)}
    IN [traces   |-> [i \in 1..Len(pairs) |->
                        TraceOf(pairs[i][1], pairs[i][2], route[pairs[i]], kind)],
        alias    |-> [a \in {MonitorAddress(m) : m \in monitors} |-> a - 10000] @@ alias,
        distance |-> [p \in ToSet(pairs) |-> Len(route[p])],
        diameter |-> 0,
        routers  |-> routers]

NoAlias == <<>>

(* All the interfaces of the routers of S are resolved.                    *)
Resolved(S) ==
    [a \in {Interface(r, from) : r \in S, from \in 0..9} |-> KnownRouter((a - 100) \div 10)]
=============================================================================

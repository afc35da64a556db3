----------------------------- MODULE Traceroute ------------------------------
(***************************************************************************)
(* A traceroute of a monitor and the parse of its output line by line.     *)
(* What the network answers is free; traceroute (external) prints a line   *)
(* per TTL until the destination answers or the limit -m is reached.       *)
(***************************************************************************)
EXTENDS TracerouteParser

CONSTANTS
    Routers,         \* addresses that may answer on the way
    Destination,     \* the monitor that is traced
    MaxHops          \* the flag -m

Hop == Routers \cup {Destination, Silent}

ASSUME TracerouteAssumption ==
    /\ Silent \notin Routers \cup {Destination}
    /\ MaxHops \in Nat

VARIABLES
    output,          \* what the lines printed so far say, by their TTL
    result           \* currentTTL and result.Hops after those lines

vars == <<output, result>>

Init == output = <<>> /\ result = NoHops

NextLine(reply) ==
    /\ Len(output) < MaxHops
    /\ \A i \in 1..Len(output) : output[i] # Destination
    /\ output' = Append(output, reply)
    /\ result' = ReadLine(result, Len(output) + 1, reply)

Next == \E reply \in Hop : NextLine(reply)

Spec == Init /\ [][Next]_vars

-----------------------------------------------------------------------------
(* TypeOK: the parse has a hop for each line up to the ninth, and          *)
(* currentTTL is the last of them, so that no reply is written outside of  *)
(* result.Hops (lines 122-124), whatever the network answers.              *)
TypeOK ==
    /\ output \in Seq(Hop)
    /\ result \in [currentTTL : Nat, hops : Seq(Hop)]
    /\ result.currentTTL = Len(result.hops)
    /\ Len(result.hops) = IF Len(output) < 9 THEN Len(output) ELSE 9

(* FirstHopsOfTheirTTL: hops one to eight are what their TTLs answered,    *)
(* silent ones included; no later line touches them.                       *)
FirstHopsOfTheirTTL ==
    \A i \in 1..Len(output) : i < 9 => result.hops[i] = output[i]

(* NinthHopLatest: hop nine is the latest answer of TTL nine and the lines *)
(* after it, or silent when none of them was answered.                     *)
NinthHopLatest ==
    Len(output) >= 9 =>
        \/ /\ result.hops[9] = Silent
           /\ \A i \in 9..Len(output) : output[i] = Silent
        \/ \E i \in 9..Len(output) :
              /\ output[i] # Silent /\ result.hops[9] = output[i]
              /\ \A j \in (i + 1)..Len(output) : output[j] = Silent

(* ReplyOfItsTTL: "in the current trace there is a reply of the current    *)
(* TTL" (line 120): each hop holds the reply that its own TTL got.         *)
ReplyOfItsTTL ==
    \A i \in 1..Len(result.hops) : i <= Len(output) /\ result.hops[i] = output[i]
=============================================================================

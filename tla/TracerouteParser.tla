-------------------------- MODULE TracerouteParser --------------------------
(***************************************************************************)
(* ParseTracerouteOutput of monitor/main.go (lines 98-128).  A line of     *)
(* traceroute's output is its TTL and the first address in it, Silent when *)
(* no probe of that TTL was answered.                                      *)
(***************************************************************************)
EXTENDS Integers, Sequences, SequencesExt

CONSTANT Silent      \* the hop "0.0.0.0", success: false

NoHops == [currentTTL |-> 0, hops |-> <<>>]

(* traceID, "^\s(\d+)\s": traceroute prints the TTL two characters wide,   *)
(* so that only those of one digit come after a blank.                     *)
MatchesTraceID(ttl) == ttl \in 1..9

StartedIfReplied(r, ttl, reply) ==      \* mutant: a silent line starts no hop
    IF MatchesTraceID(ttl) /\ reply # Silent
    THEN [currentTTL |-> ttl, hops |-> Append(r.hops, Silent)] ELSE r

Started(r, ttl, reply) ==
    IF MatchesTraceID(ttl) THEN [currentTTL |-> ttl, hops |-> Append(r.hops, Silent)]
    ELSE r

ReadLineNextHop(r, ttl, reply) ==       \* mutant: Hops[currentTTL]
    LET s == Started(r, ttl, reply)
    IN IF reply = Silent \/ s.currentTTL = Len(s.hops) THEN s
       ELSE [s EXCEPT !.hops[s.currentTTL + 1] = reply]

ReadLineOnce(r, ttl, reply) ==          \* mutant: keeps the first answer
    LET s == Started(r, ttl, reply)
    IN IF reply = Silent \/ s.hops[s.currentTTL] # Silent THEN s
       ELSE [s EXCEPT !.hops[s.currentTTL] = reply]

ReadLine(r, ttl, reply) ==
    LET s == Started(r, ttl, reply)
    IN IF reply = Silent THEN s ELSE [s EXCEPT !.hops[s.currentTTL] = reply]

(* The hops of a whole output, which has one line for each TTL.            *)
Parsed(output) ==
    LET Read(r, ttl) == ReadLine(r, ttl, output[ttl])
    IN FoldLeftDomain(Read, NoHops, output).hops
=============================================================================

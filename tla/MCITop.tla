------------------------------- MODULE MCITop --------------------------------
(* Small networks for ITop.                                                *)
EXTENDS Topologies

Triangle ==
    <<<<M1, M2>>, <<M2, M1>>, <<M1, M3>>, <<M3, M1>>, <<M2, M3>>, <<M3, M2>>>>

(* M1 - 1 - 2 - M2, and M3 behind 3, which hangs on 2.                     *)
TreeRoute ==
    (<<M1, M2>> :> <<1, 2>>) @@ (<<M2, M1>> :> <<2, 1>>)
    @@ (<<M1, M3>> :> <<1, 2, 3>>) @@ (<<M3, M1>> :> <<3, 2, 1>>)
    @@ (<<M2, M3>> :> <<2, 3>>) @@ (<<M3, M2>> :> <<3, 2>>)

(* Each monitor behind its own router, 1 to 3; 4, 5 and 6 join them.       *)
CoreRoute ==
    (<<M1, M2>> :> <<1, 4, 5, 2>>) @@ (<<M2, M1>> :> <<2, 5, 4, 1>>)
    @@ (<<M1, M3>> :> <<1, 4, 5, 6, 3>>) @@ (<<M3, M1>> :> <<3, 6, 5, 4, 1>>)
    @@ (<<M2, M3>> :> <<2, 5, 6, 3>>) @@ (<<M3, M2>> :> <<3, 6, 5, 2>>)

(* M1 is four routers away from 7, where M2 and M3 meet: enough for a link *)
(* between two hidden routers.                                             *)
LongRoute ==
    (<<M1, M2>> :> <<1, 4, 5, 6, 7, 2>>) @@ (<<M2, M1>> :> <<2, 7, 6, 5, 4, 1>>)
    @@ (<<M1, M3>> :> <<1, 4, 5, 6, 7, 3>>) @@ (<<M3, M1>> :> <<3, 7, 6, 5, 4, 1>>)
    @@ (<<M2, M3>> :> <<2, 7, 3>>) @@ (<<M3, M2>> :> <<3, 7, 2>>)

(* One line of four routers, long enough for hidden routers of type H.     *)
Pair == <<<<M1, M2>>, <<M2, M1>>>>
LineRoute == (<<M1, M2>> :> <<1, 2, 3, 4>>) @@ (<<M2, M1>> :> <<4, 3, 2, 1>>)

(* The way back leaves out router 2 and takes 3 instead.                   *)
SkewedRoute == (<<M1, M2>> :> <<1, 2, 4>>) @@ (<<M2, M1>> :> <<4, 3, 1>>)

(* The routers next to the monitors answer, the others are of any kind.    *)
Inner(S, T, kinds) ==
    {[r \in S |-> IF r \in T THEN kind[r] ELSE "answers"] : kind \in [T -> kinds]}

(* Every network with its interfaces resolved, and with none of them.      *)
InputsOf(pairs, route, S, kinds) ==
    {InputOf(pairs, route, kind, NoAlias, 0) : kind \in kinds}
    \cup {InputOf(pairs, route, kind, Resolved(S), Cardinality(S)) : kind \in kinds}

TreeInputs == InputsOf(Triangle, TreeRoute, 1..3, [1..3 -> {"answers", "silent", "blocks"}])
CoreInputs ==
    InputsOf(Triangle, CoreRoute, 1..6, Inner(1..6, 4..6, {"answers", "silent", "blocks", "filters"}))
LongInputs == InputsOf(Triangle, LongRoute, 1..7, Inner(1..7, 4..7, {"answers", "silent", "filters"}))

(* The same, with the traces between M1 and M3 coming first.               *)
Turned == <<<<M1, M3>>, <<M3, M1>>, <<M1, M2>>, <<M2, M1>>, <<M2, M3>>, <<M3, M2>>>>
TurnedInputs ==
    InputsOf(Turned, LongRoute, 1..7, Inner(1..7, 4..7, {"answers", "silent", "filters"}))

LineInputs ==
    {InputOf(Pair, LineRoute, kind, Resolved(1..4), 4) :
        kind \in [1..4 -> {"answers", "silent", "blocks"}]}
SkewedInputs ==
    {InputOf(Pair, SkewedRoute, kind, NoAlias, 0) :
        kind \in Inner(1..4, 2..3, {"answers", "silent", "blocks"})}

(* A distance that was never announced, and a direction never traced.      *)
NoDistance(in) == [in EXCEPT !.distance = [p \in DOMAIN @ \ {<<M1, M2>>} |-> @[p]]]
OneWay(in) == [in EXCEPT !.traces = <<Head(@)>>]
PartialInputs == {NoDistance(in) : in \in LineInputs} \cup {OneWay(in) : in \in LineInputs}

Networks == TreeInputs \cup CoreInputs \cup LongInputs \cup TurnedInputs \cup LineInputs
    \cup PartialInputs

(* Silent routers only; the distances are not needed, as no path is blocked. *)
SilentTrace(from, to, routers) ==
    [from |-> from, to |-> to,
     hops |-> [i \in 1..routers |-> 0] \o <<MonitorAddress(to)>>]

Silence(seq) ==
    {[traces |-> seq, alias |-> [i \in {MonitorAddress(t.to) : t \in ToSet(seq)} |-> i - 10000],
      distance |-> <<>>, diameter |-> 0, routers |-> 0]}

(* Three monitors of different distances, of which two pairs were traced.  *)
SilentFan ==
    Silence(<<SilentTrace(M2, M1, 2), SilentTrace(M3, M1, 2), SilentTrace(M3, M2, 3)>>)
SilentLoop ==
    Silence(<<SilentTrace(M2, M1, 3), SilentTrace(M3, M2, 4), SilentTrace(M1, M2, 3)>>)
=============================================================================

---------------------------- MODULE MCDiscovery ----------------------------
(* Small networks for Discovery.  A router has one interface per neighbour *)
(* and a traceroute shows the interface that faces its source.             *)
EXTENDS Discovery, TLC

CONSTANTS m1, m2, m3, f1, f2, g1, g2, x2

TwoMonitors == {m1, m2}
ThreeMonitors == {m1, m2, m3}
Interfaces == {f1, f2, g1, g2, x2}
OwnerOf == [x \in ThreeMonitors \cup Interfaces |->
               CASE x \in {f1, f2} -> "f" [] x \in {g1, g2} -> "g"
                 [] x = x2 -> m2 [] OTHER -> x]

NoneKnown == <<>>
OneKnown == <<m1>>

OneLife == [m \in Monitors |-> 1]
TwoLivesForM2 == [m \in Monitors |-> IF m = m2 THEN 2 ELSE 1]

Itself(m) == {<<m>>}

(* m1 -- f -- g -- m2; f may keep silent towards m1.                       *)
LineRoutes ==
    (m1 :> (m1 :> Itself(m1) @@ m2 :> {<<f1, g1, m2>>, <<Silent, g1, m2>>}))
    @@ (m2 :> (m2 :> Itself(m2) @@ m1 :> {<<g2, f2, m1>>}))

(* All three monitors around the router f, which answers only on the way   *)
(* between m1 and m2.                                                      *)
StarRoutes ==
    [a \in ThreeMonitors |-> [b \in ThreeMonitors |->
        IF a = b THEN Itself(a)
        ELSE IF {a, b} = {m1, m2} THEN {<<IF a = m1 THEN f1 ELSE f2, b>>}
        ELSE {<<Silent, b>>}]]

(* m2 forwards between m1 and m3, with its own address on the side of m1   *)
(* and x2 on that of m3; the router f lies on a way beside it.  Each       *)
(* direction may take either, so that alias tests are of one router or of  *)
(* two.                                                                    *)
MidwayRoutes ==
    [a \in ThreeMonitors |-> [b \in ThreeMonitors |->
        CASE a = m1 /\ b = m3 -> {<<m2, b>>, <<f1, b>>}
          [] a = m3 /\ b = m1 -> {<<x2, b>>, <<f2, b>>}
          [] OTHER -> Itself(b)]]

(* States that Spec reaches over MidwayRoutes: all three monitors have     *)
(* announced themselves, in the order of Announcements, and all traces are *)
(* in but one between m1 and m3; the one opposite to it went through m2.   *)
(* The alias tests, and whoever dies or restarts meanwhile, are to come.   *)
Announcements == <<m1, m2, m3>>
Arrived == <<<<m1, m2>>, <<m2, m1>>, <<m2, m3>>, <<m3, m2>>>>
LastTask(from, to) ==
    [type |-> "trace", target |-> to,
     id   |-> IF from = m3 THEN <<"newcomer", m3, 1>> ELSE <<"others", m3, 1>>]

MidwayInit ==
    /\ serverUp = TRUE /\ boots = 1
    /\ keys = Announcements
    /\ networkData = [k \in ThreeMonitors |-> Announced(k)]
    /\ routerCount = 0
    /\ toSend = m3
    /\ pending = {} /\ toServer = {}
    /\ process = [m \in Monitors |-> "running"]
    /\ \E last \in {<<m1, m3>>, <<m3, m1>>} :
          /\ jobs = [m \in Monitors |->
                       IF m = last[1] THEN {LastTask(last[1], last[2])} ELSE {}]
          /\ tracerouteData =
                [i \in 1..Len(Arrived) |->
                    [from |-> Arrived[i][1], to |-> Arrived[i][2],
                     hops |-> <<Arrived[i][2]>>]]
                \o <<[from |-> last[2], to |-> last[1],
                      hops |-> <<IF last[2] = m1 THEN m2 ELSE x2, last[1]>>]>>
    /\ life = [m \in Monitors |-> 1] /\ deaths = 0

MidwaySpec == MidwayInit /\ [][Next]_vars
=============================================================================

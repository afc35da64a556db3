-------------------------------- MODULE MCGui --------------------------------
(* A line of three routers between two monitors for Gui, traced forth and  *)
(* back, and in one case forth again after something changed.              *)
EXTENDS Gui, Topologies

Forth(kind) == TraceOf(M1, M2, <<1, 2, 3>>, kind)
Back(kind) == TraceOf(M2, M1, <<3, 2, 1>>, kind)

Line(arriving, alias, routers) ==
    [traces   |-> arriving,
     alias    |-> [a \in {MonitorAddress(m) : m \in {M1, M2}} |-> a - 10000] @@ alias,
     distance |-> [p \in {<<M1, M2>>, <<M2, M1>>} |-> 3],
     diameter |-> 0,
     routers  |-> routers]

Middle(k) == [r \in 1..3 |-> IF r = 2 THEN k ELSE "answers"]
Nearest(k) == [r \in 1..3 |-> IF r = 1 THEN k ELSE "answers"]

(* Blocked in the middle; first silent, then blocked; blocked at once, so  *)
(* that nothing can be joined; all routers known, and one silent later or  *)
(* from the start.                                                         *)
Lines ==
    {Line(<<Forth(Middle("blocks")), Back(Middle("blocks"))>>, NoAlias, 0),
     Line(<<Forth(Middle("silent")), Back(Middle("blocks")), Forth(Middle("blocks"))>>,
          NoAlias, 0),
     Line(<<Forth(Nearest("blocks")), Back(Nearest("blocks"))>>, NoAlias, 0),
     Line(<<Forth(Middle("answers")), Back(Middle("silent"))>>, Resolved(1..3), 3),
     Line(<<Forth(Middle("silent")), Back(Middle("silent"))>>, Resolved(1..3), 3)}
=============================================================================

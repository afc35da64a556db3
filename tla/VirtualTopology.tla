--------------------------- MODULE VirtualTopology ----------------------------
(***************************************************************************)
(* What iTop promises of its graph, whatever lists it works with: first    *)
(* links are drawn, path by path, and none is taken away; from then on     *)
(* nothing happens but that two edges are made one, by gluing each end of  *)
(* the second to an end of the first.  No link is invented, none is lost   *)
(* but between routers that became one, and each keeps its paths.          *)
(***************************************************************************)

VARIABLES
    nodes,
    links,       \* <<v, w, path>>, in both directions, of two different nodes
    drawing      \* links may still be drawn

vars == <<nodes, links, drawing>>

Init == nodes = {} /\ links = {} /\ drawing = TRUE

Draw ==
    /\ drawing /\ drawing' \in BOOLEAN
    /\ nodes \subseteq nodes' /\ links \subseteq links'
    /\ \A k, l \in links' \ links : k[3] = l[3]

-----------------------------------------------------------------------------
(* Router w is taken for router v.  A link between them is none any more.  *)
Glue(n, v, w) == IF n = w THEN v ELSE n

GluedNodes(N, v, w) == {Glue(n, v, w) : n \in N}

GluedLinks(L, v, w) ==
    {l \in {<<Glue(l[1], v, w), Glue(l[2], v, w), l[3]>> : l \in L} : l[1] # l[2]}

Glued(v, w) ==
    /\ nodes' = GluedNodes(nodes, v, w)
    /\ links' = GluedLinks(links, v, w)

GluedTwice(v, w, x, y) ==
    /\ nodes' = GluedNodes(GluedNodes(nodes, v, w), x, y)
    /\ links' = GluedLinks(GluedLinks(links, v, w), x, y)

(* The ends of an edge, which may be one node.                             *)
Ends == {<<n, n>> : n \in nodes} \cup {<<l[1], l[2]>> : l \in links}

(* An exception may come between the two.                                  *)
Merge ==
    /\ ~drawing /\ UNCHANGED drawing
    /\ \E e, f \in Ends : GluedTwice(e[1], f[1], e[2], f[2]) \/ Glued(e[1], f[1])

Next == Draw \/ Merge

Spec == Init /\ [][Next]_vars

-----------------------------------------------------------------------------
(* The links of a path lead from v to w: they cross every border that one  *)
(* can draw between the two.                                               *)
Along(L, path) == {l \in L : l[3] = path}
Around(L, v) == {v} \cup {l[1] : l \in L} \cup {l[2] : l \in L}

Lead(L, v, w) ==
    \A S \in SUBSET Around(L, v) :
        v \in S /\ w \notin S => \E l \in L : l[1] \in S /\ l[2] \notin S
=============================================================================

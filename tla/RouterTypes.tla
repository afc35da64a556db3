----------------------------- MODULE RouterTypes -----------------------------
(***************************************************************************)
(* The router types of iTop and which of them one router can have at once  *)
(* (server/itop.js, less, max and resultMerge, lines 11-62).               *)
(*                                                                         *)
(*   R  a router that answers          A  one that never answers           *)
(*   B  one that answers no traceroute of a blocked path                   *)
(*   N  one end of a blocked stretch   H  hidden inside such a stretch     *)
(***************************************************************************)

Type == {"R", "A", "B", "N", "H"}

(* less(x, y) is true.                                                     *)
Less(x, y) ==
    \/ x = "H"
    \/ x = "N" /\ y \in {"A", "B", "N"}
    \/ x = y

(* less(x, y) is false; it is null for the remaining pairs.                *)
Greater(x, y) ==
    \/ x # "H" /\ y = "H"
    \/ x \in {"A", "B"} /\ y = "N"

Comparable(x, y) == Less(x, y) \/ Greater(x, y)

MaxTypeSwapped(x, y) == IF Less(x, y) THEN x ELSE y    \* mutant

MaxType(x, y) == IF Less(x, y) THEN y ELSE x

(* resultMerge is not null; the type of each end is then MaxType.          *)
Mergeable(start1, end1, start2, end2) ==
    Comparable(start1, start2) /\ Comparable(end1, end2)
=============================================================================

---------------------------- MODULE MCTraceroute ----------------------------
(* One router's address stands for all: the parser does not compare them.  *)
EXTENDS Traceroute

CONSTANTS r1, r2, d

TwoRouters == {r1, r2}
OneRouter == {r1}
=============================================================================

---------------------------- MODULE PairTracing -----------------------------
(***************************************************************************)
(* What discovery promises while nothing fails: when a monitor registers,  *)
(* it is asked to trace every monitor registered before; what was asked    *)
(* for is traced; nothing that was asked or traced is forgotten.  Nothing  *)
(* is said of how: sockets, messages, processes and tables are Discovery's. *)
(***************************************************************************)
CONSTANT Monitors

VARIABLES
    registered,      \* the monitors the server knows
    status           \* status[<<a, b>>]: how far the trace from a to b has come

vars == <<registered, status>>

Pairs == Monitors \X Monitors

TypeOK ==
    /\ registered \subseteq Monitors
    /\ status \in [Pairs -> {"untraced", "asked", "traced"}]

Init ==
    /\ registered = {}
    /\ status = [p \in Pairs |-> "untraced"]

Register(m) ==
    /\ registered' = registered \cup {m}
    /\ status' = [p \in Pairs |->
                     IF p[1] = m /\ p[2] \in registered /\ status[p] = "untraced"
                     THEN "asked" ELSE status[p]]

(* A monitor may also be asked to trace one that came after it.            *)
Ask(a, b) ==
    /\ {a, b} \subseteq registered
    /\ status[<<a, b>>] = "untraced"
    /\ status' = [status EXCEPT ![<<a, b>>] = "asked"]
    /\ UNCHANGED registered

Trace(a, b) ==
    /\ status[<<a, b>>] = "asked"
    /\ status' = [status EXCEPT ![<<a, b>>] = "traced"]
    /\ UNCHANGED registered

Next ==
    \/ \E m \in Monitors : Register(m)
    \/ \E a, b \in Monitors : Ask(a, b) \/ Trace(a, b)

Spec == Init /\ [][Next]_vars
Fairness == \A a, b \in Monitors : WF_vars(Trace(a, b))
FairSpec == Spec /\ Fairness
=============================================================================

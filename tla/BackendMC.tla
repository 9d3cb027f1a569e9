----------------------------- MODULE BackendMC -----------------------------
(* Radii at the thresholds of one, 40 and 90 kilometres: the float of each *)
(* and its neighbours.                                                     *)
EXTENDS Backend

MCRadii ==
    {[m |-> m, e |-> -14] : m \in 16383999 .. 16384001}
        \cup {[m |-> m, e |-> -8] : m \in 10240000 .. 10240001}
        \cup {[m |-> 11520001, e |-> -7]}
=============================================================================

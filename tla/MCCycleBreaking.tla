--------------------------- MODULE MCCycleBreaking ---------------------------
(* Every edge list of up to 3 edges over the nodes 0 .. N-1 and one id that *)
(* dangles, some handed over with the flag already set, and every list of 4 *)
(* edges that do not dangle.                                                *)
EXTENDS CycleBreaking

EdgesOver(ids, flags) == [from : ids, to : ids, reversed : flags]

MCInputs ==
    UNION {[1 .. m -> EdgesOver(0 .. N, {FALSE})] : m \in 0 .. 3}
      \union [1 .. 2 -> EdgesOver(0 .. N, BOOLEAN)]
      \union [1 .. 4 -> EdgesOver(0 .. N - 1, {FALSE})]

=============================================================================

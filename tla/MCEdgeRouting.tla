---------------------------- MODULE MCEdgeRouting ----------------------------
(* Chains between the nodes 0 and 1 (up to 3 of them) or 0, 1 and 2 (up to  *)
(* 2), direct or over a dummy of their own, turned round or not, and loops; *)
(* a layout from top to bottom and one from left to right. Chains a caller  *)
(* may write that no phase produces: one node only, and a node that dangles.*)
EXTENDS EdgeRouting

Chain(path, turned) ==
    [source |-> IF turned THEN Last(path) ELSE Head(path),
     target |-> IF turned THEN Head(path) ELSE Last(path),
     reversed |-> turned, isSelfLoop |-> Len(path) = 1, chain |-> path]

\* The chains that may stand at place k; the dummy of the k-th is k + 2.
ChainsAt(k, ids) ==
    {Chain(<<v>>, FALSE) : v \in ids}
      \union {Chain(<<ab[1], ab[2]>>, turned) : ab \in {p \in ids \X ids : p[1] < p[2]}, turned \in BOOLEAN}
      \union {Chain(<<ab[1], k + 2, ab[2]>>, turned) : ab \in {p \in ids \X ids : p[1] < p[2]}, turned \in BOOLEAN}

Lists(m, ids) == {cs \in [1 .. m -> UNION {ChainsAt(k, ids) : k \in 1 .. m}] :
                    \A k \in 1 .. m : cs[k] \in ChainsAt(k, ids)}

Odd == {<<Chain(<<0, 1>>, FALSE), [Chain(<<0, 1>>, FALSE) EXCEPT !.chain = <<0>>]>>,
        <<Chain(<<0, 1>>, FALSE), Chain(<<0, 9>>, FALSE)>>,
        <<Chain(<<9>>, FALSE)>>, <<>>}

\* Node v below the lower ids, or to their right; 2 is a little aside, and the
\* dummies lie between, apart from each other.
Below ==
    [v \in 0 .. 5 |->
        [x |-> IF v = 2 THEN 30 ELSE IF v < 3 THEN 0 ELSE 10 * v - 40,
         y |-> IF v = 0 THEN 0 ELSE IF v < 3 THEN 100 + 10 * v ELSE 50,
         width |-> IF v < 3 THEN 20 ELSE 0, height |-> IF v < 3 THEN 16 + v ELSE 0]]
Beside ==
    [v \in 0 .. 5 |-> [x |-> Below[v].y, y |-> Below[v].x,
                        width |-> Below[v].height, height |-> Below[v].width]]

MCInputs == [chains : Lists(3, {0, 1}) \union Lists(2, {0, 1, 2}) \union Odd, pos : {Below, Beside}]

=============================================================================

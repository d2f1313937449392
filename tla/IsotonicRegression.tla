-------------------------- MODULE IsotonicRegression --------------------------
(****************************************************************************)
(* isotonic_regression (coordinates.rs): the nondecreasing sequence nearest *)
(* to a sequence of values, by merging blocks. A block keeps the sum of its *)
(* values where the code keeps their mean; means are compared without       *)
(* dividing.                                                                *)
(****************************************************************************)
EXTENDS Integers, SequencesExt

\* The mean of block a is greater than that of block b.
Above(a, b) == a.sum * b.count > b.sum * a.count

Merged(a, b) == [sum |-> a.sum + b.sum, count |-> a.count + b.count]

\* The new value v takes in the last k blocks, as long as their means are above
\* its own, and is pushed as one block.
Pushed(blocks, v) ==
    LET n == Len(blocks)
        taking[k \in 0 .. n] ==
            IF k = 0 THEN [sum |-> v, count |-> 1] ELSE Merged(blocks[n - k + 1], taking[k - 1])
        taken == Min({k \in 0 .. n : k = n \/ ~Above(blocks[n - k], taking[k])})
    IN Append(SubSeq(blocks, 1, n - taken), taking[taken])

Blocks(values) ==
    LET after[k \in 0 .. Len(values)] == IF k = 0 THEN <<>> ELSE Pushed(after[k - 1], values[k])
    IN after[Len(values)]

\* The result: each block's mean, rounded down, for each of its values.
Regression(values) ==
    LET blocks == Blocks(values) IN
    FlattenSeq([b \in DOMAIN blocks |->
        [i \in 1 .. blocks[b].count |-> blocks[b].sum \div blocks[b].count]])

-----------------------------------------------------------------------------
\* The reference, without blocks: the least-squares nondecreasing fit is given by
\* the max-min formula over the means of the stretches around each place.
BestFit(values) ==
    LET Mean(j, k) == SumFunctionOnSet(values, j .. k) \div (k - j + 1) IN
    [i \in DOMAIN values |->
        Max({Min({Mean(j, k) : k \in i .. Len(values)}) : j \in 1 .. i})]

=============================================================================

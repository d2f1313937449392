------------------------------- MODULE Sorting -------------------------------
(* Vec::sort_by: a stable sort.                                             *)
EXTENDS Naturals, Sequences, FiniteSets

\* The sequence s sorted by key[k], the key of its k-th element.
StableSort(s, key, Less(_, _)) ==
    LET Before(j, k) == Less(key[j], key[k]) \/ (~Less(key[k], key[j]) /\ j < k)
        Place(k) == 1 + Cardinality({j \in DOMAIN s : j # k /\ Before(j, k)})
    IN [p \in DOMAIN s |-> s[CHOOSE k \in DOMAIN s : Place(k) = p]]

=============================================================================

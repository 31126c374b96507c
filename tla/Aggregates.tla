----------------------------- MODULE Aggregates -----------------------------
(* Sums over finite sets and sorted lists of their elements.               *)
EXTENDS Integers, FiniteSets, FiniteSetsExt

\* The sum of f[x] over the elements x of S.
Total(f, S) == MapThenSumSet(LAMBDA x : f[x], S)

\* The elements of S, a finite set of numbers, in their order.
Ascending(S) ==
    CHOOSE s \in [1 .. Cardinality(S) -> S] : \A i, j \in DOMAIN s : i < j => s[i] < s[j]
=============================================================================

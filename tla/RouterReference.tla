-------------------------- MODULE RouterReference --------------------------
(***************************************************************************)
(* What a location means, said of path segments instead of characters, and *)
(* the run that compares Router with it.                                   *)
(***************************************************************************)
EXTENDS Router

\* The slashes of a string and its two ends; the j-th of them, from 0; and what is
\* between two in a row, the empty string before the first slash included.
Bars(s)   == {k \in 0..(Len(s) + 1) : k \in DOMAIN s => s[k] = Slash}
Cut(s, j) == CHOOSE k \in Bars(s) : Cardinality({m \in Bars(s) : m < k}) = j
Segments(s) ==
    [j \in 1..(Cardinality(Bars(s)) - 1) |-> SubSeq(s, Cut(s, j - 1) + 1, Cut(s, j) - 1)]

\* A path that ends with a slash covers what is below it, any other one itself
\* and what is below it.
Covers(p, u) ==
    LET P == Segments(p)
        U == Segments(u)
    IN  /\ Len(P) <= Len(U)
        /\ IsPrefix(IF Last(P) = <<>> THEN Front(P) ELSE P, U)

Depth(k) == Len(Segments(locations[k]))

\* A request is served by the deepest location that covers it, whatever the
\* order of the file and however the names of siblings begin, and by none only
\* if no location covers it.
DeepestCovers ==
    Done =>
       LET covering == {k \in DOMAIN locations : Covers(locations[k], uri)}
       IN  IF covering = {} THEN best_loc = NoLocation
           ELSE best_loc \in covering /\ \A k \in covering : Depth(k) <= Depth(best_loc)
=============================================================================

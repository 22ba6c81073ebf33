------------------------------- MODULE Router -------------------------------
(***************************************************************************)
(* Router::match_location: which location block a request belongs to.      *)
(* Strings are sequences of characters; of these only the slash and the    *)
(* question mark matter.                                                   *)
(***************************************************************************)
EXTENDS Naturals, SequencesExt

CONSTANTS
    Char, Slash, Question,
    MaxUri, MaxPath,  \* bounds on the lengths of a request's URI and of a path
    MaxLocations      \* bound on the location blocks of a server

ASSUME RouterAssumption ==
    /\ Slash \in Char /\ Question \in Char /\ Slash # Question
    /\ MaxUri \in Nat /\ MaxPath \in Nat /\ MaxLocations \in Nat

VARIABLES
    uri,       \* of the request, its query string cut off
    locations, \* the paths of the location blocks, in the order of the file
    i,         \* index of the loop
    best_loc,  \* the index of the best location so far, or NoLocation
    best_len

vars == <<uri, locations, i, best_loc, best_len>>

Strings(n) == UNION {[1..m -> Char] : m \in 0..n}
NoLocation == 0                                                \* NULL

StripQuery(u) ==
    IF \E k \in 1..Len(u) : u[k] = Question
    THEN SubSeq(u, 1, (CHOOSE k \in 1..Len(u) :
                         u[k] = Question /\ \A j \in 1..(k - 1) : u[j] # Question) - 1)
    ELSE u

\* The parser accepts paths that start with a slash, each of them once.
Paths   == {p \in Strings(MaxPath) : Len(p) > 0 /\ p[1] = Slash}
Servers == {l \in UNION {[1..n -> Paths] : n \in 0..MaxLocations} : IsInjective(l)}

Init ==
    /\ uri \in {StripQuery(u) : u \in Strings(MaxUri)}
    /\ locations \in Servers
    /\ i = 1
    /\ best_loc = NoLocation
    /\ best_len = 0

is_prefix(u, p) == Len(p) <= Len(u) /\ SubSeq(u, 1, Len(p)) = p

AnyBoundary(u, p) == TRUE                                      \* mutation
is_segment_boundary(u, p) ==
    \/ Len(u) = Len(p)
    \/ p = <<Slash>>
    \/ p[Len(p)] = Slash
    \/ u[Len(p) + 1] = Slash

Match(u, p) == is_prefix(u, p) /\ is_segment_boundary(u, p)

FirstWins(p) == best_loc = NoLocation                          \* mutation
Longer(p)    == Len(p) > best_len

TakeIt     == best_loc' = i /\ best_len' = Len(locations[i])

\* One turn of the loop
Consider ==
    /\ i <= Len(locations)
    /\ IF Match(uri, locations[i]) /\ Longer(locations[i])
       THEN TakeIt
       ELSE UNCHANGED <<best_loc, best_len>>
    /\ i' = i + 1
    /\ UNCHANGED <<uri, locations>>

Done == i > Len(locations)

Return == Done /\ UNCHANGED vars

Next == Consider \/ Return

Spec == Init /\ [][Next]_vars

-----------------------------------------------------------------------------
\* Types; best_loc is a location before the index, and best_len is always the
\* length of its path.
TypeOK ==
    /\ uri \in Seq(Char)
    /\ locations \in Seq(Paths)
    /\ i \in 1..(Len(locations) + 1)
    /\ best_loc \in 0..(i - 1)
    /\ best_len = IF best_loc = NoLocation THEN 0 ELSE Len(locations[best_loc])

\* Of the locations before the index, best_loc is the longest that matches; it
\* is NULL only if none does.
BestSoFar ==
    /\ best_loc # NoLocation => Match(uri, locations[best_loc])
    /\ \A k \in 1..(i - 1) : Match(uri, locations[k]) =>
          best_loc # NoLocation /\ Len(locations[k]) <= Len(locations[best_loc])
=============================================================================

------------------------- MODULE MCInteractiveSearch -------------------------
(***************************************************************************)
(* A movie with two releases at two indexers and a show with one; a format *)
(* that matches the first release, with cards that bring offsets, a        *)
(* built-in format that a version may have or not, and one profile.        *)
(***************************************************************************)
EXTENDS InteractiveSearch, TLC

CONSTANTS film, series, r1, r2, r3, x1, x2, hd, sd, f1, b1, p1

MCTitleOf   == r1 :> film @@ r2 :> film @@ r3 :> series
MCIndexerOf == r1 :> x1 @@ r2 :> x2 @@ r3 :> x1
MCQualityOf == r1 :> hd @@ r2 :> sd @@ r3 :> hd

Card(group, on, required, negate, offset) ==
  [group |-> group, on |-> on, required |-> required, negate |-> negate, offset |-> offset]

Plain  == [enabled |-> TRUE, cards |-> {Card("title", {r1, r3}, FALSE, FALSE, 0)}]
Ranked == [enabled |-> TRUE,
           cards |-> {Card("title", {r1}, FALSE, FALSE, 1), Card("title", {r1, r3}, FALSE, FALSE, 2),
                      Card("group", {r2}, TRUE, TRUE, 4)}]
Off    == [Plain EXCEPT !.enabled = FALSE]
MCDefinitions == {Plain, Ranked, Off}

High == [score |-> f1 :> 5 @@ b1 :> 3, qualities |-> {hd}]
Open == [score |-> f1 :> 0 @@ b1 :> 0, qualities |-> {hd, sd}]
MCPolicies  == {High, Open}
MCOverrides == {NoOverride, f1 :> 3 @@ b1 :> None}

\* The library has no release to begin with.
MCInit == Init /\ format = (f1 :> Plain @@ b1 :> Plain) /\ profile = (p1 :> High)

MCSpec == MCInit /\ [][Next]_vars
=============================================================================

----------------------- MODULE MCDuplicateResolution -----------------------
(***************************************************************************)
(* Instances of DuplicateResolution for TLC: every release has the         *)
(* directory of its number, and the torrents are of the first one.         *)
(***************************************************************************)
EXTENDS DuplicateResolution

CONSTANTS r1, r2, d1

OwnerOf == [d \in Directory |-> IF d = d1 THEN r1 ELSE r2]

LinkOf == [t \in Torrent |-> r1]

DeleteAndRemove == {[delete |-> TRUE, remove |-> TRUE]}
=============================================================================

--------------------------- MODULE MCMovieLibrary ---------------------------
(***************************************************************************)
(* Instances of MovieLibrary for TLC: which editions the directories have  *)
(* and where the torrents live.                                            *)
(***************************************************************************)
EXTENDS MovieLibrary

CONSTANTS p1, p2, p3, p4, p5, t1, t2

(* Two directories of one edition and any others of editions of their own. *)
TwinEdition == [p \in Path |-> IF p \in {p1, p2} THEN "theatrical" ELSE p]

OwnEdition == [p \in Path |-> p]

(* The first torrent downloads to the first directory, and so on. *)
OwnContent == [t \in Torrent |-> IF t = t1 THEN p1 ELSE p2]
=============================================================================

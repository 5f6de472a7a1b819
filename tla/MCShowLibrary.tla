--------------------------- MODULE MCShowLibrary ---------------------------
(***************************************************************************)
(* Instances of ShowLibrary for TLC: a Show of two seasons whose default   *)
(* ordering has two episodes in season 1 and one in season 2, and whose    *)
(* other ordering has them all in season 1.                                *)
(***************************************************************************)
EXTENDS ShowLibrary

CONSTANTS d1, f1, f2, f3, f4, t1, i1, i2, i3

Numbers == {<<1, 1>>, <<1, 2>>, <<2, 1>>}

Says1(s, N) == [seasons |-> s, numbers |-> N]

(* d1 is named for season 1: f1 and f2 are the members of the pack t1, and *)
(* f3 lies beside them, another copy of the first episode.                 *)
PackIn == [f \in File |-> d1]
PackSays ==
  [x \in Name |-> CASE x \in {f1, f3} -> Says1({1}, {<<1, 1>>})
                    [] x = f2 -> Says1({1}, {<<1, 2>>})
                    [] x \in {d1, t1} -> Says1({1}, {})
                    [] OTHER -> Says1({}, {})]
PackContainer == [t \in Torrent |-> d1]
PackMembers == [t \in Torrent |-> {f1, f2}]

(* A folder TMDB cannot identify: f1 holds two episodes, f2 has its season *)
(* from a folder inside it only, f3 is the member of t1 but says another   *)
(* episode than t1, f4 is unreadable.                                      *)
NamesSay ==
  [x \in Name |-> CASE x = f1 -> Says1({1}, {<<1, 1>>, <<1, 2>>})
                    [] x = f2 -> Says1({1}, {<<1, 2>>})
                    [] x = f3 -> Says1({1}, {<<1, 1>>})
                    [] x = t1 -> Says1({1}, {<<1, 2>>})
                    [] OTHER -> Says1({}, {})]
NamesMembers == [t \in Torrent |-> {f3}]

TwoOrders ==
  [o \in Order |-> [i \in Title |->
     CASE i = i1 -> <<1, 1>>
       [] i = i2 -> IF o = "default" THEN <<2, 1>> ELSE <<1, 2>>]]
=============================================================================

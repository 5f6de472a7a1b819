-------------------------- MODULE ShowLibraryProofs --------------------------
(***************************************************************************)
(* What the committed catalogue of a Show keeps, for any files, names,     *)
(* orderings, torrents and releases and any interleaving of scans, polls,  *)
(* refreshes, corrections and confirmed identities.                        *)
(*                                                                         *)
(* Inside a transaction the invariant fails of the rows and the releases   *)
(* whose files were just moved: they are owed a refresh.  So it is stated  *)
(* with the set E of those rows and the set R of those releases, each      *)
(* service function is shown to add to them what it disturbs, and the      *)
(* refreshes that end a transaction to settle them.                        *)
(***************************************************************************)
EXTENDS ShowLibrary, FiniteSetTheorems, WellFoundedInduction, NaturalsInduction, TLAPS

(***************************************************************************)
(* What holds of a catalogue inside a transaction, where the rows E and    *)
(* the releases R still wait for the refresh that ends it.                 *)
(***************************************************************************)
Present(c, E) ==
  \A e \in Row \ E : c.row[e].present =>
    \E f \in File : c.maps[f][e] # None /\ c.file[f].status = "there"
Copies(c, E) == \A e \in c.duplicate \ E : Cardinality(Holders(c, e)) >= 2
Apart(c) ==
  \A e, g \in Row : /\ c.row[e].number = c.row[g].number /\ c.row[e].number # Nowhere
                    /\ c.row[e].parked = 0 /\ c.row[g].parked = 0
                    => e = g
Idle == {"incoming", "historical"}
Gone(c, R) ==
  ~c.full => \A r \in Release \ R : c.release[r].state = "removed" =>
    /\ \A f \in File, e \in Row : c.maps[f][e] # r
    /\ \E t \in Torrent : c.link[t][r] \in Idle
Sound(c, E, R) == Present(c, E) /\ Copies(c, E) /\ Apart(c) /\ Gone(c, R)

(* A step keeps what was mapped by hand.                                   *)
Kept(c, d) == d.hand = c.hand /\ \A f \in c.hand : d.maps[f] = c.maps[f]

RowOf == [number : Slot \cup {Nowhere}, parked : Nat, season : Season \cup {None},
          present : BOOLEAN]
ReleaseOf == [state : {"unused", "current", "missing", "removed"}, scope : {"pack", "own"},
              season : Season \cup {None}, name : Name \cup {None}]
DirectoryOf == [exists : BOOLEAN, missed : Nat, release : Release \cup {None}]
FileOf == [status : {"unknown", "there", "gone"}, missed : Nat]

-----------------------------------------------------------------------------
(* Numbers                                                                 *)

(* Every nonempty set of numbers has a least one.                          *)
LEMMA LeastNatural ==
  ASSUME NEW T \in SUBSET Nat, T # {}
  PROVE  \E n \in T : \A m \in T : n <= m
<1> DEFINE R == {p \in Nat \X Nat : p[1] < p[2]}
<1>1. IsWellFoundedOn(R, Nat)
  BY NatLessThanWellFounded DEF OpToRel
<1> HIDE DEF R
<1>2. PICK n \in T : \A m \in T : ~(<<m, n>> \in R)
  BY <1>1, WFMin
<1>3. \A m \in T : ~(m < n)
  BY <1>2 DEF R
<1> QED BY <1>3

(* Releases are the numbers from 1 to the bound, and None is not one.      *)
LEMMA ReleaseIsNumber ==
  /\ Release \subseteq Nat /\ None \notin Release /\ MaxRelease \in Release
  /\ \A n \in Nat : n \in Release <=> 1 <= n /\ n <= MaxRelease
BY BoundAssumption DEF Release, None

(* The minimum of a nonempty set of numbers is its least member.           *)
LEMMA MinOf ==
  ASSUME NEW S, S \subseteq Nat, S # {}
  PROVE  Min(S) \in S /\ \A k \in S : Min(S) <= k
<1>1. \E m \in S : \A k \in S : m <= k
  BY LeastNatural
<1> QED  BY <1>1 DEF Min

(* The release a new one stands in for is a number, above the bound if all *)
(* are referred to.                                                        *)
LEMMA FreshIsNumber ==
  ASSUME NEW c \in Catalogue
  PROVE  /\ Fresh(c) \in Nat
         /\ Fresh(c) > MaxRelease \/ Fresh(c) \in Release
         /\ Fresh(c) \notin Referred(c)
         /\ Min({Fresh(c), MaxRelease}) \in Release
         /\ Fresh(c) <= MaxRelease => Min({Fresh(c), MaxRelease}) = Fresh(c)
<1> DEFINE S == (Release \cup {MaxRelease + 1}) \ Referred(c)
<1>1. Release \cup {MaxRelease + 1} \subseteq Nat /\ \A n \in S : n \in Release \/ n > MaxRelease
  BY BoundAssumption, ReleaseIsNumber
<1>2. MaxRelease + 1 \notin Release \cup {None}
  BY BoundAssumption, ReleaseIsNumber DEF None
<1>3. \A f \in File : Releases(c, f) \subseteq Release
  BY DEF Catalogue, Releases, Rows
<1>4. \A t \in Torrent : Linked(c, t, Link \ {"none"}) \subseteq Release
  BY DEF Linked
<1>5. Referred(c) \subseteq Release \cup {None}
  <2>1. \A d \in Directory : c.directory[d].release \in Release \cup {None}
    BY DEF Catalogue
  <2>2. UNION {Releases(c, f) : f \in File} \subseteq Release
    BY <1>3
  <2>3. UNION {Linked(c, t, Link \ {"none"}) : t \in Torrent} \subseteq Release
    BY <1>4
  <2>4. {c.directory[d].release : d \in Directory} \subseteq Release \cup {None}
    BY <2>1
  <2> QED  BY <2>2, <2>3, <2>4, Zenon DEF Referred
<1>6. S # {} /\ S \subseteq Nat
  BY <1>1, <1>2, <1>5
<1>7. Fresh(c) \in S
  BY <1>6, MinOf, Zenon DEF Fresh
<1> HIDE DEF S
<1>8. Fresh(c) \in Nat /\ (Fresh(c) > MaxRelease \/ Fresh(c) \in Release)
  BY <1>1, <1>7, <1>6
<1>9. Fresh(c) \notin Referred(c)
  BY <1>7 DEF S
<1>10. {Fresh(c), MaxRelease} \subseteq Nat /\ MaxRelease \in Nat
  BY <1>8, BoundAssumption
<1>11. /\ Min({Fresh(c), MaxRelease}) \in {Fresh(c), MaxRelease}
       /\ \A k \in {Fresh(c), MaxRelease} : Min({Fresh(c), MaxRelease}) <= k
  BY <1>10, MinOf, Zenon
<1> QED  BY <1>8, <1>9, <1>10, <1>11, ReleaseIsNumber

-----------------------------------------------------------------------------
(* Releases and links                                                      *)

(* A step that leaves rows, files and maps as they are.                    *)
Same(c, d) ==
  /\ d.row = c.row /\ d.file = c.file /\ d.maps = c.maps
  /\ d.hand = c.hand /\ d.duplicate = c.duplicate
  /\ c.full => d.full

(* What is removed after the step, and is not to be refreshed, was removed *)
(* before, and a torrent that had given it up is not attached to it.       *)
Calm(c, d, R) ==
  \A r \in Release \ R : ~d.full /\ d.release[r].state = "removed" =>
    /\ c.release[r].state = "removed"
    /\ \A t \in Torrent : c.link[t][r] \in Idle => d.link[t][r] \in Idle

(* Who holds what depends on the maps alone.                               *)
LEMMA SameHolders ==
  ASSUME NEW c, NEW d, d.maps = c.maps
  PROVE  /\ \A e : Holders(d, e) = Holders(c, e)
         /\ \A r : MembersOf(d, r) = MembersOf(c, r)
         /\ \A f : Rows(d, f) = Rows(c, f) /\ Releases(d, f) = Releases(c, f)
<1>1. \A f : Rows(d, f) = Rows(c, f) /\ Releases(d, f) = Releases(c, f)
  BY DEF Rows, Releases
<1> QED  BY <1>1 DEF Holders, MembersOf

(* A catalogue stays sound when rows, files and maps stay, and nothing is  *)
(* given up that was not.                                                  *)
LEMMA SoundStays ==
  ASSUME NEW c \in Catalogue, NEW d \in Catalogue, NEW E, NEW R, NEW R2, R \subseteq R2,
         Sound(c, E, R), Same(c, d), Calm(c, d, R2)
  PROVE  Sound(d, E, R2)
<1>1. Present(d, E)
  BY Zenon DEF Sound, Present, Same
<1>2. Copies(d, E)
  BY SameHolders, Zenon DEF Sound, Copies, Same
<1>3. Apart(d)
  BY Zenon DEF Sound, Apart, Same
<1>4. Gone(d, R2)
  <2> SUFFICES ASSUME ~d.full, NEW r \in Release \ R2, d.release[r].state = "removed"
               PROVE  /\ \A f \in File, e \in Row : d.maps[f][e] # r
                      /\ \E t \in Torrent : d.link[t][r] \in Idle
    BY Zenon DEF Gone
  <2>1. /\ c.release[r].state = "removed"
        /\ \A t \in Torrent : c.link[t][r] \in Idle => d.link[t][r] \in Idle
    BY Zenon DEF Calm
  <2>2. ~c.full /\ d.maps = c.maps /\ r \in Release \ R
    BY Zenon DEF Same
  <2>3. /\ \A f \in File, e \in Row : c.maps[f][e] # r
        /\ \E t \in Torrent : c.link[t][r] \in Idle
    BY <2>1, <2>2, Zenon DEF Sound, Gone
  <2> QED  BY <2>1, <2>2, <2>3
<1> QED  BY <1>1, <1>2, <1>3, <1>4 DEF Sound

(* A new release has the state it is made with and takes nothing from      *)
(* others.                                                                 *)
LEMMA NewIs ==
  ASSUME NEW c \in Catalogue, NEW state \in {"current", "missing"}, NEW scope \in {"pack", "own"},
         NEW s \in Season \cup {None}, NEW name \in Name \cup {None},
         NEW d, d = New(c, state, scope, s, name)
  PROVE  /\ d \in Catalogue /\ Same(c, d) /\ Calm(c, d, {}) /\ d.link = c.link
         /\ ~d.full => d.release[Prepared(c, None)].state = state
<1>1. CASE Fresh(c) > MaxRelease
  <2>1. d = [c EXCEPT !.full = TRUE]
    BY <1>1 DEF New
  <2>2. d \in Catalogue /\ d.full
    BY <2>1 DEF Catalogue
  <2>3. Same(c, d) /\ d.link = c.link
    BY <2>1 DEF Catalogue, Same
  <2> QED  BY <2>2, <2>3 DEF Calm
<1>2. CASE ~(Fresh(c) > MaxRelease)
  <2> DEFINE new == [state |-> state, scope |-> scope, season |-> s, name |-> name]
             rel == [c.release EXCEPT ![Fresh(c)] = new]
  <2>1. d = [c EXCEPT !.release = rel]
    BY <1>2 DEF New
  <2>2. Fresh(c) \in Release /\ Prepared(c, None) = Fresh(c)
    BY <1>2, FreshIsNumber, BoundAssumption DEF Prepared
  <2>3. new \in ReleaseOf /\ new.state = state
    BY DEF ReleaseOf
  <2>4. c.release \in [Release -> ReleaseOf]
    BY DEF Catalogue, ReleaseOf
  <2> HIDE DEF new
  <2>5. /\ rel \in [Release -> ReleaseOf] /\ rel[Fresh(c)] = new
        /\ \A r \in Release : r # Fresh(c) => rel[r] = c.release[r]
    BY <2>2, <2>3, <2>4
  <2> HIDE DEF rel
  <2>6. /\ d \in Catalogue /\ d.release = rel /\ d.link = c.link
    BY <2>1, <2>5 DEF Catalogue, ReleaseOf
  <2>7. Same(c, d)
    BY <2>1 DEF Catalogue, Same
  <2>8. Calm(c, d, {})
    BY <2>3, <2>5, <2>6 DEF Calm
  <2> QED  BY <2>2, <2>3, <2>5, <2>6, <2>7, <2>8
<1> QED  BY <1>1, <1>2

(* The release a pass prepares is a release, and current.                  *)
LEMMA PrepareIs ==
  ASSUME NEW c \in Catalogue, NEW r \in Release \cup {None}, NEW scope \in {"pack", "own"},
         NEW s \in Season \cup {None}, NEW name \in Name \cup {None},
         NEW d, d = Prepare(c, r, scope, s, name)
  PROVE  /\ d \in Catalogue /\ Same(c, d) /\ Calm(c, d, {}) /\ d.link = c.link
         /\ Prepared(c, r) \in Release
         /\ ~d.full => d.release[Prepared(c, r)].state = "current"
<1>1. Prepared(c, r) \in Release
  BY FreshIsNumber DEF Prepared
<1>2. CASE r = None
  <2>1. d = New(c, "current", scope, s, name)
    BY <1>2 DEF Prepare
  <2> QED  BY <1>1, <1>2, <2>1, NewIs
<1>3. CASE r # None
  <2> DEFINE new == [c.release[r] EXCEPT !.state = "current", !.scope = scope, !.season = s]
             rel == [c.release EXCEPT ![r] = new]
  <2>1. d = [c EXCEPT !.release = rel]
    BY <1>3 DEF Prepare
  <2>2. c.release \in [Release -> ReleaseOf] /\ r \in Release
    BY <1>3 DEF Catalogue, ReleaseOf
  <2>3. new \in ReleaseOf /\ new.state = "current"
    BY <2>2 DEF ReleaseOf
  <2> HIDE DEF new
  <2>4. /\ rel \in [Release -> ReleaseOf] /\ rel[r] = new
        /\ \A q \in Release : q # r => rel[q] = c.release[q]
    BY <2>2, <2>3
  <2> HIDE DEF rel
  <2>5. d \in Catalogue /\ d.release = rel /\ d.link = c.link
    BY <2>1, <2>4 DEF Catalogue, ReleaseOf
  <2>6. Same(c, d)
    BY <2>1 DEF Catalogue, Same
  <2>7. Calm(c, d, {})
    BY <2>3, <2>4, <2>5 DEF Calm
  <2>8. Prepared(c, r) = r
    BY <1>3 DEF Prepared
  <2> QED  BY <1>1, <2>3, <2>4, <2>5, <2>6, <2>7, <2>8
<1> QED  BY <1>2, <1>3

(* To attach a torrent to a release that is not given up, or owed a        *)
(* refresh, disturbs nothing.                                              *)
LEMMA AttachIs ==
  ASSUME NEW c \in Catalogue, NEW t, NEW r \in Release, NEW R,
         r \in R \/ c.release[r].state # "removed" \/ c.full,
         NEW d, d = Attach(c, t, r)
  PROVE  d \in Catalogue /\ Same(c, d) /\ Calm(c, d, R) /\ d.release = c.release
<1> DEFINE link == [u \in Torrent |-> [q \in Release |->
                      IF u = t /\ q = r THEN "attached" ELSE c.link[u][q]]]
<1>1. d = [c EXCEPT !.link = link]
  BY Zenon DEF Attach
<1>2. c.link \in [Torrent -> [Release -> Link]]
  BY DEF Catalogue
<1>3. /\ link \in [Torrent -> [Release -> Link]]
      /\ \A u \in Torrent, q \in Release : q # r => link[u][q] = c.link[u][q]
  BY <1>2 DEF Link
<1> HIDE DEF link
<1>4. d \in Catalogue /\ d.link = link /\ d.release = c.release /\ d.full = c.full
  BY <1>1, <1>3 DEF Catalogue
<1>5. Same(c, d)
  BY <1>1 DEF Catalogue, Same
<1>6. Calm(c, d, R)
  BY <1>3, <1>4 DEF Calm
<1> QED  BY <1>4, <1>5, <1>6

-----------------------------------------------------------------------------
(* The refreshes that end a transaction                                    *)

(* The set of standing holders of a row, said with its members.            *)
LEMMA ThereIs ==
  ASSUME NEW c \in Catalogue, NEW e
  PROVE  There(c, Holders(c, e)) # {} <=>
           \E f \in File : c.maps[f][e] # None /\ c.file[f].status = "there"
BY DEF There, Holders

(* The copies that stand are among the files that hold the row.            *)
LEMMA VerifiedHolds ==
  ASSUME NEW c \in Catalogue, NEW e, Cardinality(Verified(c, e)) > 1
  PROVE  Cardinality(Holders(c, e)) >= 2
<1>1. Verified(c, e) \subseteq Holders(c, e) /\ Holders(c, e) \subseteq File
  BY DEF Verified, There, Holders
<1>2. IsFiniteSet(Holders(c, e))
  BY <1>1, FS_Subset, BoundAssumption
<1>3. /\ Cardinality(Verified(c, e)) <= Cardinality(Holders(c, e))
      /\ Cardinality(Verified(c, e)) \in Nat /\ Cardinality(Holders(c, e)) \in Nat
  BY <1>1, <1>2, FS_Subset, FS_CardinalityType
<1> QED  BY <1>3

(* The refresh of duplicate Problems leaves one only where two files hold  *)
(* the row.                                                                *)
LEMMA RefreshDuplicatesIs ==
  ASSUME NEW c \in Catalogue, NEW E \in SUBSET Row, Copies(c, E),
         NEW d, d = RefreshDuplicates(c, E)
  PROVE  /\ d \in Catalogue /\ Copies(d, {})
         /\ d.row = c.row /\ d.file = c.file /\ d.maps = c.maps /\ d.hand = c.hand
         /\ d.full = c.full /\ d.release = c.release /\ d.link = c.link
<1> DEFINE dup == (c.duplicate \ E) \cup {e \in E : Cardinality(Verified(c, e)) > 1}
<1>1. d = [c EXCEPT !.duplicate = dup]
  BY DEF RefreshDuplicates
<1>2. dup \in SUBSET Row
  BY DEF Catalogue
<1>3. \A e \in dup : e \notin c.duplicate \ E => Cardinality(Verified(c, e)) > 1
  OBVIOUS
<1>4. \A e \in dup : Cardinality(Holders(c, e)) >= 2
  BY <1>3, VerifiedHolds DEF Copies
<1> HIDE DEF dup
<1>5. /\ d \in Catalogue /\ d.duplicate = dup
      /\ d.row = c.row /\ d.file = c.file /\ d.maps = c.maps /\ d.hand = c.hand
      /\ d.full = c.full /\ d.release = c.release /\ d.link = c.link
  BY <1>1, <1>2 DEF Catalogue
<1>6. Copies(d, {})
  BY <1>4, <1>5, SameHolders DEF Copies
<1> QED  BY <1>5, <1>6

(* The refresh of rows settles what was owed to them.                      *)
LEMMA RefreshRowsKeeps ==
  ASSUME NEW c \in Catalogue, NEW E \in SUBSET Row, NEW R, Sound(c, E, R),
         NEW d, d = RefreshRows(c, E)
  PROVE  d \in Catalogue /\ Sound(d, {}, R) /\ d.hand = c.hand /\ d.maps = c.maps /\ d.full = c.full
<1> DEFINE row == [e \in Row |->
             IF e \in E THEN [c.row[e] EXCEPT !.present = There(c, Holders(c, e)) # {}]
             ELSE c.row[e]]
           b == [c EXCEPT !.row = row]
<1>1. c.row \in [Row -> RowOf]
  BY DEF Catalogue, RowOf
<1>2. \A e \in Row : /\ row[e] \in RowOf
                     /\ row[e].number = c.row[e].number /\ row[e].parked = c.row[e].parked
  BY <1>1 DEF RowOf
<1>3. \A e \in Row : row[e].present <=>
        IF e \in E THEN There(c, Holders(c, e)) # {} ELSE c.row[e].present
  BY <1>1 DEF RowOf
<1>4. row \in [Row -> RowOf]
  BY <1>2
<1>5. d = RefreshDuplicates(b, E)
  BY Zenon DEF RefreshRows
<1> HIDE DEF row
<1>6. /\ b \in Catalogue /\ b.row = row /\ b.file = c.file /\ b.maps = c.maps /\ b.hand = c.hand
      /\ b.full = c.full /\ b.release = c.release /\ b.link = c.link /\ b.duplicate = c.duplicate
  BY <1>4 DEF Catalogue, RowOf
<1> HIDE DEF b
<1>7. Copies(b, E)
  BY <1>6, SameHolders, Zenon DEF Sound, Copies
<1>8. /\ d \in Catalogue /\ Copies(d, {})
      /\ d.row = b.row /\ d.file = b.file /\ d.maps = b.maps /\ d.hand = b.hand
      /\ d.full = b.full /\ d.release = b.release /\ d.link = b.link
  BY <1>5, <1>6, <1>7, RefreshDuplicatesIs
<1>9. Present(d, {})
  <2> SUFFICES ASSUME NEW e \in Row, row[e].present
               PROVE  \E f \in File : c.maps[f][e] # None /\ c.file[f].status = "there"
    BY <1>6, <1>8 DEF Present
  <2>1. CASE e \in E
    BY <1>3, <2>1, ThereIs
  <2>2. CASE e \notin E
    BY <1>3, <2>2 DEF Sound, Present
  <2> QED  BY <2>1, <2>2
<1>10. Apart(d)
  <2>1. \A e \in Row : d.row[e].number = c.row[e].number /\ d.row[e].parked = c.row[e].parked
    BY <1>2, <1>6, <1>8
  <2> QED  BY <2>1, Zenon DEF Sound, Apart
<1>11. Gone(d, R)
  <2>1. d.full = c.full /\ d.release = c.release /\ d.maps = c.maps /\ d.link = c.link
    BY <1>6, <1>8, Zenon
  <2> QED  BY <2>1, Zenon DEF Sound, Gone
<1> QED  BY <1>6, <1>8, <1>9, <1>10, <1>11 DEF Sound

(* The refresh of releases settles what was owed to them: none is left     *)
(* removed.                                                                *)
LEMMA RefreshReleasesKeeps ==
  ASSUME NEW c \in Catalogue, NEW E, NEW R \in SUBSET Release, Sound(c, E, R),
         NEW d, d = RefreshReleases(c, R)
  PROVE  d \in Catalogue /\ Sound(d, E, {}) /\ d.hand = c.hand /\ d.maps = c.maps /\ d.full = c.full
<1> DEFINE State(r) == IF There(c, MembersOf(c, r)) # {} THEN "current" ELSE "missing"
           rel == [r \in Release |-> IF r \in R THEN [c.release[r] EXCEPT !.state = State(r)]
                                     ELSE c.release[r]]
<1>1. d = [c EXCEPT !.release = rel]
  BY Zenon DEF RefreshReleases
<1>2. c.release \in [Release -> ReleaseOf]
  BY DEF Catalogue, ReleaseOf
<1>3. \A r : State(r) \in {"current", "missing"}
  OBVIOUS
<1> HIDE DEF State
<1>4. \A r \in Release : /\ rel[r] \in ReleaseOf
                         /\ rel[r].state = "removed" => r \notin R /\ c.release[r].state = "removed"
  BY <1>2, <1>3 DEF ReleaseOf
<1>5. rel \in [Release -> ReleaseOf]
  BY <1>4
<1> HIDE DEF rel
<1>6. /\ d \in Catalogue /\ d.release = rel /\ d.link = c.link /\ d.full = c.full
      /\ d.maps = c.maps /\ d.hand = c.hand /\ d.row = c.row /\ d.file = c.file
      /\ d.duplicate = c.duplicate
  BY <1>1, <1>5 DEF Catalogue, ReleaseOf
<1>7. Present(d, E)
  BY <1>6, Zenon DEF Sound, Present
<1>8. Copies(d, E)
  BY <1>6, SameHolders, Zenon DEF Sound, Copies
<1>9. Apart(d)
  BY <1>6, Zenon DEF Sound, Apart
<1>10. Gone(d, {})
  BY <1>4, <1>6 DEF Sound, Gone
<1> QED  BY <1>6, <1>7, <1>8, <1>9, <1>10 DEF Sound

-----------------------------------------------------------------------------
(* The files of a pass                                                     *)

(* What a pass carries from file to file.                                  *)
Work == [c : Catalogue, rows : SUBSET Row, releases : SUBSET Release]
Holds(a) == a \in Work /\ Sound(a.c, a.rows, a.releases)

(* A row is invented only where none stands, and without files.            *)
LEMMA InventKeeps ==
  ASSUME NEW c \in Catalogue, NEW s \in Season, NEW N \in SUBSET Slot, NEW E, NEW R,
         Sound(c, E, R), NEW d, d = Invent(c, s, N)
  PROVE  d \in Catalogue /\ Sound(d, E, R) /\ d.maps = c.maps /\ d.hand = c.hand
<1> DEFINE missing == {n \in N : RowAt(c, n) = {}}
           rows == {e \in Row : c.row[e].number # Nowhere /\ c.row[e].season = s}
           Rank(n) == Cardinality({m \in missing : m[2] <= n[2]})
           invented == {n \in missing : \/ c.expected[s] = 0
                                        \/ Cardinality(rows) + Rank(n) <= c.expected[s]}
           Next1(n) == Cardinality({i \in Local : c.row[i].number # Nowhere}) + Rank(n)
           At(e) == CHOOSE n \in invented : Next1(n) = e
           row == [e \in Row |->
              IF \E n \in invented : Next1(n) = e
              THEN [number |-> At(e), parked |-> 0, season |-> s, present |-> FALSE]
              ELSE c.row[e]]
<1>1. d = IF \E n \in invented : Next1(n) > MaxLocal THEN [c EXCEPT !.full = TRUE]
          ELSE [c EXCEPT !.row = row]
  BY DEF Invent
<1>2. \A n \in invented : n \in Slot /\ RowAt(c, n) = {}
  OBVIOUS
<1> HIDE DEF invented, Next1
<1>3. CASE \E n \in invented : Next1(n) > MaxLocal
  <2>1. d = [c EXCEPT !.full = TRUE]
    BY <1>1, <1>3
  <2>2. d \in Catalogue /\ Same(c, d) /\ d.full
    BY <2>1 DEF Catalogue, Same
  <2>3. Sound(d, E, R)
    BY <2>2, SoundStays DEF Calm
  <2> QED  BY <2>2, <2>3 DEF Same
<1>4. CASE ~(\E n \in invented : Next1(n) > MaxLocal)
  <2>1. d = [c EXCEPT !.row = row]
    BY <1>1, <1>4
  <2>2. \A e \in Row : (\E n \in invented : Next1(n) = e) =>
          At(e) \in invented /\ Next1(At(e)) = e
    OBVIOUS
  <2>3. c.row \in [Row -> RowOf]
    BY DEF Catalogue, RowOf
  <2> HIDE DEF At
  <2>4. \A e \in Row :
          \/ /\ At(e) \in invented /\ Next1(At(e)) = e /\ row[e] \in RowOf
             /\ row[e].number = At(e) /\ row[e].present = FALSE
          \/ row[e] = c.row[e]
    BY <1>2, <2>2 DEF RowOf
  <2>5. row \in [Row -> RowOf]
    BY <2>3, <2>4
  <2> HIDE DEF row
  <2>6. /\ d \in Catalogue /\ d.row = row /\ d.file = c.file /\ d.maps = c.maps
        /\ d.hand = c.hand /\ d.duplicate = c.duplicate /\ d.full = c.full
        /\ d.release = c.release /\ d.link = c.link
    BY <2>1, <2>5 DEF Catalogue, RowOf
  <2>7. Present(d, E)
    BY <2>4, <2>6 DEF Sound, Present
  <2>8. Copies(d, E)
    BY <2>6, SameHolders, Zenon DEF Sound, Copies
  <2>9. Apart(d)
    <3> SUFFICES ASSUME NEW e \in Row, NEW g \in Row, row[e].number = row[g].number,
                        row[e].number # Nowhere, row[e].parked = 0, row[g].parked = 0
                 PROVE  e = g
      BY <2>6 DEF Apart
    <3>1. \A h \in Row : c.row[h].parked = 0 => h \in RowAt(c, c.row[h].number)
      BY DEF RowAt
    <3>2. CASE row[e] = c.row[e] /\ row[g] = c.row[g]
      BY <3>2 DEF Sound, Apart
    <3>3. CASE row[e] = c.row[e] /\ row[g] # c.row[g]
      BY <1>2, <2>4, <3>1, <3>3
    <3>4. CASE row[e] # c.row[e] /\ row[g] = c.row[g]
      BY <1>2, <2>4, <3>1, <3>4
    <3>5. CASE row[e] # c.row[e] /\ row[g] # c.row[g]
      BY <2>4, <3>5
    <3> QED  BY <3>2, <3>3, <3>4, <3>5
  <2>10. Gone(d, R)
    BY <2>6, Zenon DEF Sound, Gone
  <2> QED  BY <2>6, <2>7, <2>8, <2>9, <2>10 DEF Sound
<1> QED  BY <1>3, <1>4

(* A file that is not mapped by hand is mapped anew: the rows it gains and *)
(* loses, and its releases, are owed a refresh.                            *)
LEMMA MapRowsKeeps ==
  ASSUME NEW a \in Work, NEW e \in Catalogue, NEW f \in File, NEW release \in Release,
         e.maps = a.c.maps, f \notin e.hand, Sound(e, a.rows, a.releases \cup {release}),
         NEW b, b = MapRows(a, e, f, release)
  PROVE  Holds(b) /\ Kept(e, b.c)
<1> DEFINE at == UNION {RowAt(e, n) : n \in Says[f].numbers}
           complete == \A n \in Says[f].numbers : RowAt(e, n) # {}
           stale == {r \in Rows(a.c, f) \ at : complete}
           map == [r \in Row |-> IF r \in at THEN release
                                 ELSE IF r \in stale THEN None ELSE e.maps[f][r]]
           maps == [g \in File |-> [r \in Row |->
                      IF g # f THEN e.maps[g][r]
                      ELSE IF r \in at THEN release ELSE IF r \in stale THEN None
                      ELSE e.maps[g][r]]]
           unmapped == IF complete THEN e.unmapped \ {f} ELSE e.unmapped \cup {f}
           touched == {a.c.maps[f][r] : r \in stale}
           c == [e EXCEPT !.maps = maps, !.unmapped = unmapped]
<1>1. /\ b = [c |-> c, rows |-> (a.rows \cup at) \cup stale,
              releases |-> (a.releases \cup {release}) \cup touched]
  BY DEF MapRows
<1>2. /\ at \subseteq Row /\ stale \subseteq Row /\ \A r \in stale : a.c.maps[f][r] # None
  BY DEF RowAt, Rows
<1>3. a.c.maps \in [File -> [Row -> Release \cup {None}]] /\ a.rows \subseteq Row /\ a.releases \subseteq Release
  BY DEF Work, Catalogue
<1>4. touched \subseteq Release
  BY <1>2, <1>3
<1>5. unmapped \in SUBSET File
  BY DEF Catalogue
<1> HIDE DEF at, stale, complete, unmapped
<1>6. /\ maps \in [File -> [Row -> Release \cup {None}]]
      /\ \A g \in File, r \in Row : g # f \/ r \notin at \cup stale => maps[g][r] = e.maps[g][r]
      /\ \A r \in Row : r \in at \cup stale => maps[f][r] \in {release, None}
  BY <1>3
<1>6a. \A g \in File \ {f} : maps[g] = e.maps[g]
  BY <1>3
<1> HIDE DEF maps, touched
<1>7. /\ c \in Catalogue /\ c.maps = maps /\ c.row = e.row /\ c.file = e.file /\ c.hand = e.hand
      /\ c.duplicate = e.duplicate /\ c.full = e.full /\ c.release = e.release /\ c.link = e.link
  BY <1>5, <1>6 DEF Catalogue
<1> HIDE DEF c
<1>8. b \in Work /\ b.c = c /\ b.rows = (a.rows \cup at) \cup stale
      /\ b.releases = (a.releases \cup {release}) \cup touched
  BY <1>1, <1>2, <1>3, <1>4, <1>7 DEF Work
<1>9. Present(c, b.rows)
  BY <1>6, <1>7, <1>8 DEF Sound, Present
<1>10. Copies(c, b.rows)
  <2>1. \A r \in Row \ b.rows : Holders(c, r) = Holders(e, r)
    BY <1>6, <1>7, <1>8 DEF Holders
  <2>2. e.duplicate \subseteq Row
    BY DEF Catalogue
  <2> QED  BY <1>7, <1>8, <2>1, <2>2 DEF Sound, Copies
<1>11. Apart(c)
  BY <1>7, Zenon DEF Sound, Apart
<1>12. Gone(c, b.releases)
  <2> SUFFICES ASSUME ~c.full, NEW r \in Release \ b.releases, c.release[r].state = "removed"
               PROVE  /\ \A g \in File, h \in Row : c.maps[g][h] # r
                      /\ \E t \in Torrent : c.link[t][r] \in Idle
    BY Zenon DEF Gone
  <2>1. /\ \A g \in File, h \in Row : e.maps[g][h] # r
        /\ \E t \in Torrent : e.link[t][r] \in Idle
    BY <1>7, <1>8 DEF Sound, Gone
  <2>2. r # release /\ r # None
    BY <1>8, ReleaseIsNumber
  <2> QED  BY <1>6, <1>7, <2>1, <2>2
<1>13. Kept(e, c)
  <2>1. e.hand \subseteq File
    BY DEF Catalogue
  <2> QED  BY <1>6a, <1>7, <2>1 DEF Kept
<1> QED  BY <1>8, <1>9, <1>10, <1>11, <1>12, <1>13 DEF Holds, Sound

(* The release a file counts for by its own name is a release or none.     *)
LEMMA OwnReleaseIs ==
  ASSUME NEW c \in Catalogue, NEW f \in File, NEW s, NEW q \in Release \cup {None}
  PROVE  OwnRelease(c, f, s, q) \in Release \cup {None}
<1> DEFINE old == {r \in Releases(c, f) :
                     Releases(c, f) = {r} /\ Matches(c, r, s, Says[f].numbers)}
           incoming == {r \in {q} \ {None} :
             Says[c.release[r].name] = [seasons |-> {s}, numbers |-> Says[f].numbers]}
           Owns(r) == IF old # {} THEN r \in old ELSE IF incoming # {} THEN r \in incoming
                      ELSE r = None
<1>1. Releases(c, f) \subseteq Release
  BY DEF Catalogue, Releases, Rows
<1>2. old \subseteq Release /\ incoming \subseteq Release
  BY <1>1
<1>3. OwnRelease(c, f, s, q) = CHOOSE r \in Release \cup {None} : Owns(r)
  BY DEF OwnRelease
<1> HIDE DEF old, incoming
<1>4. \E r \in Release \cup {None} : Owns(r)
  BY <1>2
<1> QED  BY <1>3, <1>4

(* Steps that keep what was mapped by hand compose.                        *)
LEMMA KeptTrans ==
  ASSUME NEW c, NEW d, NEW e, Kept(c, d), Kept(d, e)
  PROVE  Kept(c, e)
BY Zenon DEF Kept

(* A step that leaves the maps keeps what was mapped by hand.              *)
LEMMA SameKept ==
  ASSUME NEW c, NEW d, d.maps = c.maps, d.hand = c.hand
  PROVE  Kept(c, d)
BY DEF Kept

(* A file that is mapped into a release, claimed by the pack or its own,   *)
(* leaves the work of the pass sound.                                      *)
LEMMA MapIntoKeeps ==
  ASSUME NEW a, Holds(a), NEW f \in File, f \notin a.c.hand, NEW t, NEW pack, NEW s \in Season,
         NEW q \in Release \cup {None}, NEW claimed \in BOOLEAN, claimed => pack \in Release,
         NEW own \in Release \cup {None}, Says[f].numbers \in SUBSET Slot,
         NEW b, b = MapInto(a, f, t, pack, q, s, claimed, own)
  PROVE  Holds(b) /\ Kept(a.c, b.c)
<1> DEFINE kept == claimed \/ (own # None /\ a.c.release[own].scope = "pack")
           release == IF claimed THEN pack ELSE Prepared(a.c, own)
           prepared == IF kept THEN a.c ELSE Prepare(a.c, own, "own", s, f)
           linked == IF t # None /\ ~claimed /\ release = q THEN Attach(prepared, t, q)
                     ELSE prepared
           e == Invent(linked, s, Says[f].numbers)
           R == a.releases \cup {release}
<1>1. b = MapRows(a, e, f, release)
  BY Zenon DEF MapInto
<1>2. a \in Work /\ a.c \in Catalogue /\ a.releases \subseteq Release
  BY DEF Holds, Work
<1>3. f \in Name \cup {None}
  BY DEF Name
<1>4. release \in Release
  <2>1. Prepared(a.c, own) \in Release
    BY <1>2, FreshIsNumber DEF Prepared
  <2> QED  BY <2>1
<1> HIDE DEF kept, release
<1>5. prepared \in Catalogue /\ Same(a.c, prepared) /\ Calm(a.c, prepared, R)
  <2>1. CASE kept
    BY <1>2, <2>1 DEF Same, Calm
  <2>2. CASE ~kept
    <3> DEFINE p == Prepare(a.c, own, "own", s, f)
    <3>1. p \in Catalogue /\ Same(a.c, p) /\ Calm(a.c, p, {})
      BY <1>2, <1>3, PrepareIs
    <3> QED  BY <2>2, <3>1 DEF Calm
  <2> QED  BY <2>1, <2>2
<1> HIDE DEF prepared
<1>6. Sound(prepared, a.rows, R)
  BY <1>2, <1>5, SoundStays DEF Holds
<1>7. linked \in Catalogue /\ Same(prepared, linked) /\ Sound(linked, a.rows, R)
  <2>1. CASE t # None /\ ~claimed /\ release = q
    <3>1. linked = Attach(prepared, t, q) /\ q \in Release /\ q \in R
      BY <1>4, <2>1
    <3>2. linked \in Catalogue /\ Same(prepared, linked) /\ Calm(prepared, linked, R)
      BY <1>5, <3>1, AttachIs
    <3> HIDE DEF linked
    <3>3. Sound(linked, a.rows, R)
      BY <1>5, <1>6, <3>2, SoundStays
    <3> QED  BY <3>2, <3>3
  <2>2. CASE ~(t # None /\ ~claimed /\ release = q)
    <3>1. linked = prepared
      BY <2>2
    <3> QED  BY <1>5, <1>6, <3>1 DEF Same
  <2> QED  BY <2>1, <2>2
<1> HIDE DEF linked
<1>8. e \in Catalogue /\ Sound(e, a.rows, R) /\ e.maps = linked.maps /\ e.hand = linked.hand
  BY <1>7, InventKeeps
<1> HIDE DEF e
<1>9. e.maps = a.c.maps /\ e.hand = a.c.hand
  BY <1>5, <1>7, <1>8 DEF Same
<1>10. Holds(b) /\ Kept(e, b.c)
  BY <1>1, <1>2, <1>4, <1>8, <1>9, MapRowsKeeps
<1> QED  BY <1>9, <1>10, SameKept, KeptTrans

(* What a pass writes of a file that it sees, with some mapping Problems.  *)
FileSet == SUBSET File
Seen(c, f, mismatch, unmapped) ==
  [c EXCEPT !.file = [c.file EXCEPT ![f] = [status |-> "there", missed |-> 0]],
            !.mismatch = mismatch, !.unmapped = unmapped]

(* A file that is seen stands again: no row and no release loses by it.    *)
LEMMA SeenKeeps ==
  ASSUME NEW c \in Catalogue, NEW f \in File, NEW mismatch \in FileSet,
         NEW unmapped \in FileSet, NEW E, NEW R, Sound(c, E, R),
         NEW d, d = Seen(c, f, mismatch, unmapped)
  PROVE  /\ d \in Catalogue /\ Sound(d, E, R) /\ d.maps = c.maps /\ d.hand = c.hand
         /\ d.unmapped = unmapped
<1> DEFINE file == [c.file EXCEPT ![f] = [status |-> "there", missed |-> 0]]
<1>1. c.file \in [File -> FileOf]
  BY DEF Catalogue, FileOf
<1>2. d = [c EXCEPT !.file = file, !.mismatch = mismatch, !.unmapped = unmapped]
  BY DEF Seen
<1>3. /\ file \in [File -> FileOf]
      /\ \A g \in File : c.file[g].status = "there" => file[g].status = "there"
  BY <1>1 DEF FileOf
<1> HIDE DEF file
<1>4. /\ d \in Catalogue /\ d.file = file /\ d.maps = c.maps /\ d.hand = c.hand /\ d.row = c.row
      /\ d.duplicate = c.duplicate /\ d.full = c.full /\ d.release = c.release
      /\ d.link = c.link /\ d.unmapped = unmapped
  BY <1>2, <1>3 DEF Catalogue, FileOf, FileSet
<1>5. Present(d, E)
  BY <1>3, <1>4 DEF Sound, Present
<1>6. Copies(d, E)
  BY <1>4, SameHolders, Zenon DEF Sound, Copies
<1>7. Apart(d)
  BY <1>4, Zenon DEF Sound, Apart
<1>8. Gone(d, R)
  BY <1>4, Zenon DEF Sound, Gone
<1> QED  BY <1>4, <1>5, <1>6, <1>7, <1>8 DEF Sound

(* One file of a pass, whatever the catalogue has come to.                 *)
LEMMA PassFileKeeps ==
  ASSUME NEW a, Holds(a), NEW f \in File, NEW d, NEW t, NEW pack,
         pack.pack \in Release \cup {None}, NEW q \in Release \cup {None},
         NEW b, b = PassFile(a, f, d, t, pack, q)
  PROVE  Holds(b) /\ Kept(a.c, b.c)
<1> DEFINE now == a.c
<1>1. /\ a \in Work /\ now = a.c /\ now \in Catalogue /\ a.releases \subseteq Release
      /\ a.rows \subseteq Row /\ Sound(now, a.rows, a.releases)
  BY DEF Holds, Work
<1> HIDE DEF now
<1> DEFINE was == now.unmapped
<1> DEFINE mismatch == IF Mismatch(f, d, t) THEN now.mismatch \cup {f} ELSE now.mismatch \ {f}
           c == Seen(now, f, mismatch, was)
           less == Seen(now, f, mismatch, was \ {f})
           more == Seen(now, f, mismatch, was \cup {f})
           seen == [c |-> c, rows |-> a.rows, releases |-> a.releases]
<1>2. mismatch \in FileSet /\ was \in FileSet /\ was \ {f} \in FileSet /\ was \cup {f} \in FileSet
  BY <1>1 DEF Catalogue, FileSet
<1>3. b = IF f \in c.hand
          THEN [c |-> less, rows |-> a.rows \cup Rows(c, f), releases |-> a.releases \cup Releases(c, f)]
          ELSE IF Says[f].numbers = {} THEN [a EXCEPT !.c = more]
          ELSE MapFile(seen, f, d, t, pack, q)
  <2> DEFINE k == [now EXCEPT !.file[f] = [status |-> "there", missed |-> 0],
                     !.mismatch = IF Mismatch(f, d, t) THEN @ \cup {f} ELSE @ \ {f}]
  <2>1. k = c /\ [k EXCEPT !.unmapped = @ \ {f}] = less /\ [k EXCEPT !.unmapped = @ \cup {f}] = more
    BY <1>1 DEF Catalogue, Seen
  <2>2. [a EXCEPT !.c = c] = seen
    BY <1>1 DEF Work
  <2>3. b = IF f \in k.hand
            THEN [c |-> [k EXCEPT !.unmapped = @ \ {f}],
                  rows |-> a.rows \cup Rows(k, f), releases |-> a.releases \cup Releases(k, f)]
            ELSE IF Says[f].numbers = {} THEN [a EXCEPT !.c = [k EXCEPT !.unmapped = @ \cup {f}]]
            ELSE MapFile([a EXCEPT !.c = k], f, d, t, pack, q)
    BY <1>1 DEF PassFile
  <2> HIDE DEF k, c, less, more, seen
  <2> QED  BY <2>1, <2>2, <2>3
<1>3a. /\ c = Seen(now, f, mismatch, was)
       /\ less = Seen(now, f, mismatch, was \ {f})
       /\ more = Seen(now, f, mismatch, was \cup {f})
  OBVIOUS
<1> HIDE DEF mismatch, was, c, less, more
<1>4. /\ c \in Catalogue /\ Sound(c, a.rows, a.releases) /\ c.maps = now.maps
      /\ c.hand = now.hand 
  BY <1>1, <1>2, <1>3a, SeenKeeps
<1>5. /\ less \in Catalogue /\ Sound(less, a.rows, a.releases) /\ less.maps = now.maps
      /\ less.hand = now.hand
  BY <1>1, <1>2, <1>3a, SeenKeeps
<1>6. /\ more \in Catalogue /\ Sound(more, a.rows, a.releases) /\ more.maps = now.maps
      /\ more.hand = now.hand
  BY <1>1, <1>2, <1>3a, SeenKeeps
<1>9. seen.c = c /\ Holds(seen)
  BY <1>1, <1>4 DEF Holds, Work
<1> HIDE DEF seen
<1>12. CASE f \in now.hand
  <2> DEFINE rows == a.rows \cup Rows(c, f)
             rels == a.releases \cup Releases(c, f)
  <2>1. b = [c |-> less, rows |-> rows, releases |-> rels]
    BY <1>3, <1>4, <1>12
  <2>2. rows \subseteq Row /\ rels \subseteq Release
    BY <1>1, <1>4 DEF Rows, Releases, Catalogue
  <2>3. a.rows \subseteq rows /\ a.releases \subseteq rels
    OBVIOUS
  <2> HIDE DEF rows, rels
  <2>4. Sound(less, rows, rels)
    BY <1>5, <2>3 DEF Sound, Present, Copies, Gone
  <2>5. Holds(b) /\ b.c = less
    BY <1>5, <2>1, <2>2, <2>4 DEF Holds, Work
  <2> QED  BY <1>1, <1>5, <2>5, SameKept
<1>13. CASE f \notin now.hand /\ Says[f].numbers = {}
  <2>1. b = [c |-> more, rows |-> a.rows, releases |-> a.releases]
    BY <1>1, <1>3, <1>4, <1>13 DEF Work
  <2>2. Holds(b) /\ b.c = more
    BY <1>1, <1>6, <2>1 DEF Holds, Work
  <2> QED  BY <1>1, <1>6, <2>2, SameKept
<1>14. CASE f \notin now.hand /\ Says[f].numbers # {}
  <2> DEFINE s == (CHOOSE n \in Says[f].numbers : TRUE)[1]
             claimed == pack.pack # None /\ s = pack.season /\ ~Mismatch(f, d, t) /\ Belongs(f, t)
             own == OwnRelease(c, f, s, q)
  <2>1. b = MapFile(seen, f, d, t, pack, q)
    BY <1>3, <1>4, <1>14
  <2>2. b = MapInto(seen, f, t, pack.pack, q, s, claimed, own)
    BY <1>9, <2>1 DEF MapFile
  <2>3. Says[f].numbers \in SUBSET Slot
    BY NameAssumption DEF Name
  <2>4. s \in Season
    BY <1>14, <2>3 DEF Season
  <2>5. own \in Release \cup {None} /\ claimed \in BOOLEAN /\ (claimed => pack.pack \in Release)
    BY <1>4, OwnReleaseIs
  <2> HIDE DEF s, claimed, own
  <2>6. Holds(b) /\ Kept(seen.c, b.c)
    BY <1>9, <1>4, <1>14, <2>2, <2>3, <2>4, <2>5, MapIntoKeeps
  <2> QED  BY <1>1, <1>9, <1>4, <2>6, SameKept, KeptTrans
<1> QED  BY <1>12, <1>13, <1>14

-----------------------------------------------------------------------------
(* A pass over a directory                                                 *)

(* Files that a pass gives up leave their rows and releases owed a         *)
(* refresh, and nothing else unsound.                                      *)
LEMMA CountMissingKeeps ==
  ASSUME NEW c \in Catalogue, NEW d, NEW F, Sound(c, {}, {}),
         NEW a, a = CountMissing(c, d, F)
  PROVE  Holds(a) /\ Kept(c, a.c)
<1> DEFINE lacking == {f \in There(c, Known(c, d)) : f \notin F}
           dropped == {f \in lacking : c.file[f].missed >= 1 /\ c.file[f].missed + 1 >= Grace}
           back == {f \in Known(c, d) \cap F : c.file[f].status = "gone"}
           file == [f \in File |->
             IF f \notin lacking THEN c.file[f]
             ELSE [status |-> IF f \in dropped THEN "gone" ELSE "there",
                   missed |-> c.file[f].missed + 1]]
           mismatch == c.mismatch \ (Known(c, d) \ F)
           b == [c EXCEPT !.file = file, !.mismatch = mismatch]
           rows == UNION {Rows(c, f) : f \in dropped \cup back}
           rels == UNION {Releases(c, f) : f \in dropped}
<1>1. a = [c |-> b, rows |-> rows, releases |-> rels]
  BY DEF CountMissing
<1>2. c.file \in [File -> FileOf]
  BY DEF Catalogue, FileOf
<1>3. dropped \subseteq File /\ back \subseteq File /\ lacking \subseteq File
  BY DEF Known, There
<1>4. rows \subseteq Row
  BY <1>3 DEF Rows
<1>5. \A f \in File : Releases(c, f) \subseteq Release
  BY DEF Catalogue, Releases, Rows
<1>6. rels \subseteq Release
  BY <1>3, <1>5
<1>7. \A f \in dropped : Rows(c, f) \subseteq rows
  OBVIOUS
<1> HIDE DEF lacking, dropped, rows, rels
<1>8. /\ file \in [File -> FileOf]
      /\ \A f \in File \ dropped : c.file[f].status = "there" => file[f].status = "there"
  BY <1>2 DEF FileOf
<1>9. mismatch \in SUBSET File
  BY DEF Catalogue
<1> HIDE DEF file, mismatch
<1>10. /\ b \in Catalogue /\ b.file = file /\ b.maps = c.maps /\ b.hand = c.hand /\ b.row = c.row
       /\ b.duplicate = c.duplicate /\ b.full = c.full /\ b.release = c.release /\ b.link = c.link
  BY <1>8, <1>9 DEF Catalogue, FileOf
<1> HIDE DEF b
<1>11. Present(b, rows)
  BY <1>7, <1>8, <1>10 DEF Sound, Present, Rows
<1>12. Copies(b, rows)
  <2>1. \A e : Holders(b, e) = Holders(c, e)
    BY <1>10, SameHolders
  <2> QED  BY <1>10, <2>1 DEF Sound, Copies
<1>13. Apart(b)
  BY <1>10, Zenon DEF Sound, Apart
<1>14. Gone(b, rels)
  BY <1>10 DEF Sound, Gone
<1>15. Holds(a) /\ a.c = b
  BY <1>1, <1>4, <1>6, <1>10, <1>11, <1>12, <1>13, <1>14 DEF Holds, Work, Sound
<1> QED  BY <1>10, <1>15, SameKept

(* A name of one season names a season.                                    *)
LEMMA SeasonNamedIs ==
  ASSUME NEW x \in Name, Cardinality(Says[x].seasons) = 1
  PROVE  SeasonNamed(x) \in Season
<1>1. Says[x].seasons # {}
  BY FS_EmptySet
<1>2. Says[x].seasons \subseteq Season
  BY NameAssumption
<1> QED  BY <1>1, <1>2 DEF SeasonNamed

(* What names a pack is a torrent or a directory of one season.            *)
LEMMA PackNamesIs ==
  ASSUME NEW d \in Directory, NEW t \in Torrent \cup {None}, NEW F, NEW x \in PackNames(d, t, F)
  PROVE  x \in Name /\ Cardinality(Says[x].seasons) = 1
<1> DEFINE NamesPack(y) == Cardinality(Says[y].seasons) = 1 /\ Says[y].numbers = {}
           Episodes(y) == {f \in F : Identity(f).seasons = Says[y].seasons /\ Identity(f).numbers # {}}
<1>1. PackNames(d, t, F) =
        IF t # None /\ NamesPack(t) THEN {t}
        ELSE {y \in {d} : NamesPack(y) /\ (t # None \/ Cardinality(Episodes(y)) >= 2)}
  BY Zenon DEF PackNames
<1> HIDE DEF Episodes
<1> QED  BY <1>1 DEF Name

(* The pack that a pass prepares, binds and attaches disturbs nothing.     *)
LEMMA WithPackKeeps ==
  ASSUME NEW c \in Catalogue, NEW d \in Directory, NEW t \in Torrent \cup {None}, NEW F,
         NEW q \in Release \cup {None}, Sound(c, {}, {}), NEW p, p = WithPack(c, d, t, F, q)
  PROVE  /\ p.c \in Catalogue /\ Sound(p.c, {}, {}) /\ Kept(c, p.c)
         /\ p.pack \in Release \cup {None}
<1> DEFINE names == PackNames(d, t, F)
           s == SeasonNamed(CHOOSE x \in names : TRUE)
           Fits(r) == r # None /\ c.release[r].scope = "pack" /\ Matches(c, r, s, {})
           existing == IF Fits(q) THEN q
                       ELSE IF Fits(c.directory[d].release) THEN c.directory[d].release
                       ELSE None
           pack == Prepared(c, existing)
           name == IF t # None THEN t ELSE d
           prepared == Prepare(c, existing, "pack", s, name)
           bound == IF Says[d] = [seasons |-> {s}, numbers |-> {}]
                    THEN [prepared EXCEPT !.directory[d].release = pack] ELSE prepared
           linked == IF t = None THEN bound ELSE Attach(bound, t, pack)
<1>1. p = IF names = {} THEN [c |-> c, pack |-> None, season |-> None]
          ELSE [c |-> linked, pack |-> pack, season |-> s]
  BY Zenon DEF WithPack
<1>2. CASE names = {}
  <2>1. p.c = c /\ p.pack = None
    BY <1>1, <1>2
  <2> QED  BY <2>1, SameKept
<1>3. CASE names # {}
  <2>1. s \in Season
    <3>1. PICK x : x = (CHOOSE y \in names : TRUE)
      OBVIOUS
    <3>2. x \in names
      BY <1>3, <3>1
    <3> QED  BY <3>1, <3>2, PackNamesIs, SeasonNamedIs
  <2>2. existing \in Release \cup {None}
    BY DEF Catalogue
  <2>3. name \in Name \cup {None} /\ s \in Season \cup {None}
    BY <2>1 DEF Name
  <2> HIDE DEF existing, s, name, names
  <2>4. /\ prepared \in Catalogue /\ Same(c, prepared) /\ Calm(c, prepared, {})
        /\ pack \in Release
        /\ ~prepared.full => prepared.release[pack].state = "current"
    BY <2>2, <2>3, PrepareIs
  <2> HIDE DEF pack, prepared
  <2>5. /\ bound \in Catalogue /\ Same(prepared, bound) /\ bound.release = prepared.release
        /\ bound.link = prepared.link /\ bound.full = prepared.full
    <3> DEFINE dir == [prepared.directory EXCEPT ![d].release = pack]
    <3>1. CASE Says[d] = [seasons |-> {s}, numbers |-> {}]
      <4>1. bound = [prepared EXCEPT !.directory = dir]
        BY <3>1
      <4>2. prepared.directory \in [Directory -> DirectoryOf]
        BY <2>4 DEF Catalogue, DirectoryOf
      <4>3. dir \in [Directory -> DirectoryOf]
        BY <2>4, <4>2 DEF DirectoryOf
      <4> HIDE DEF bound, dir
      <4> QED  BY <2>4, <4>1, <4>3 DEF Catalogue, DirectoryOf, Same
    <3>2. CASE Says[d] # [seasons |-> {s}, numbers |-> {}]
      <4>1. bound = prepared
        BY <3>2
      <4> QED  BY <2>4, <4>1 DEF Same
    <3> QED  BY <3>1, <3>2
  <2> HIDE DEF bound
  <2>6. Sound(prepared, {}, {})
    BY <2>4, SoundStays
  <2>7. Calm(prepared, bound, {})
    BY <2>5 DEF Calm
  <2>8. Sound(bound, {}, {})
    BY <2>4, <2>5, <2>6, <2>7, SoundStays
  <2>9. linked \in Catalogue /\ Same(bound, linked) /\ Sound(linked, {}, {})
    <3>1. CASE t = None
      <4>1. linked = bound
        BY <3>1
      <4> QED  BY <2>5, <2>8, <4>1 DEF Same
    <3>2. CASE t # None
      <4>1. linked = Attach(bound, t, pack)
        BY <3>2
      <4>2. pack \in {} \/ bound.release[pack].state # "removed" \/ bound.full
        BY <2>4, <2>5
      <4> HIDE DEF linked
      <4>3. linked \in Catalogue /\ Same(bound, linked) /\ Calm(bound, linked, {})
        BY <2>4, <2>5, <4>1, <4>2, AttachIs
      <4> QED  BY <2>5, <2>8, <4>3, SoundStays
    <3> QED  BY <3>1, <3>2
  <2>10. linked.maps = c.maps /\ linked.hand = c.hand
    BY <2>4, <2>5, <2>9, Zenon DEF Same
  <2> HIDE DEF linked
  <2>11. p.c = linked /\ p.pack = pack
    BY <1>1, <1>3 DEF names
  <2> QED  BY <2>4, <2>9, <2>10, <2>11, SameKept
<1> QED  BY <1>2, <1>3

(* A pass takes its files one by one: what it has come to after each set   *)
(* of them that it may have done by then.                                  *)
Pick(U) == CHOOSE f \in U : TRUE

Steps(pack, d, t, q, base, W, pass) ==
  pass = [U \in W |-> IF U = {} THEN base
                      ELSE PassFile(pass[U \ {Pick(U)}], Pick(U), d, t, pack, q)]
Small(F, n) == {V \in SUBSET F : Cardinality(V) <= n}

(* Sets of files are finite: taking one file from a set leaves one less.   *)
LEMMA FileSets ==
  ASSUME NEW F \in SUBSET File
  PROVE  /\ Cardinality(F) \in Nat
         /\ \A U \in SUBSET F :
              /\ Cardinality(U) \in Nat /\ Cardinality(U) <= Cardinality(F)
              /\ Cardinality(U) = 0 => U = {}
         /\ \A U \in SUBSET F :
              U # {} => Pick(U) \in F /\ Cardinality(U \ {Pick(U)}) = Cardinality(U) - 1
<1>1. IsFiniteSet(F)
  BY BoundAssumption, FS_Subset
<1>2. \A U \in SUBSET F : IsFiniteSet(U)
  BY <1>1, FS_Subset
<1>3. \A U \in SUBSET F : U # {} => Pick(U) \in U
  BY DEF Pick
<1>4. \A U \in SUBSET F : Cardinality(U) \in Nat /\ Cardinality(U) <= Cardinality(F)
  BY <1>1, <1>2, FS_Subset, FS_CardinalityType
<1>5. \A U \in SUBSET F : U # {} => Cardinality(U \ {Pick(U)}) = Cardinality(U) - 1
  BY <1>2, <1>3, FS_RemoveElement
<1>6. \A U \in SUBSET F : Cardinality(U) = 0 => U = {}
  BY <1>2, FS_EmptySet
<1> QED  BY <1>3, <1>4, <1>5, <1>6

(* There is a function that takes every set of files through the pass, by  *)
(* induction on their number.                                              *)
LEMMA StepsExist ==
  ASSUME NEW pack, NEW d, NEW t, NEW q, NEW base, NEW F \in SUBSET File
  PROVE  \E pass : Steps(pack, d, t, q, base, SUBSET F, pass)
<1> DEFINE T == {n \in Nat : ~\E pass : Steps(pack, d, t, q, base, Small(F, n), pass)}
<1>1. T = {}
  <2> SUFFICES ASSUME T # {} PROVE FALSE
    OBVIOUS
  <2>1. PICK n \in T : \A m \in T : n <= m
    <3>1. T \subseteq Nat
      OBVIOUS
    <3> HIDE DEF T
    <3> QED  BY <3>1, LeastNatural
  <2>2. n # 0
    <3> DEFINE none == [U \in Small(F, 0) |-> base]
    <3>1. \A U \in Small(F, 0) : U = {}
      BY FileSets DEF Small
    <3>2. Steps(pack, d, t, q, base, Small(F, 0), none)
      BY <3>1 DEF Steps
    <3> QED  BY <3>2, <2>1
  <2>3. n \in Nat /\ n - 1 \in Nat /\ n - 1 \notin T
    <3>1. n \in Nat
      BY <2>1
    <3> HIDE DEF T
    <3> QED  BY <3>1, <2>1, <2>2
  <2>4. PICK pass : Steps(pack, d, t, q, base, Small(F, n - 1), pass)
    BY <2>3
  <2> DEFINE all == [U \in Small(F, n) |->
                       IF U = {} THEN base
                       ELSE PassFile(pass[U \ {Pick(U)}], Pick(U), d, t, pack, q)]
  <2>5. \A U \in Small(F, n) : U # {} => U \ {Pick(U)} \in Small(F, n - 1)
    BY <2>3, FileSets DEF Small
  <2>6. \A U \in Small(F, n - 1) : U \in Small(F, n)
    BY <2>3, FileSets DEF Small
  <2>7. \A U \in Small(F, n - 1) : all[U] = pass[U]
    BY <2>4, <2>6 DEF Steps
  <2>8. Steps(pack, d, t, q, base, Small(F, n), all)
    BY <2>5, <2>7 DEF Steps
  <2> QED  BY <2>8, <2>1
<1>2. Small(F, Cardinality(F)) = SUBSET F
  BY FileSets DEF Small
<1>3. PICK pass : Steps(pack, d, t, q, base, Small(F, Cardinality(F)), pass)
  <2>1. Cardinality(F) \in Nat
    BY FileSets
  <2> QED  BY <1>1, <2>1
<1> QED  BY <1>2, <1>3

(* The fold of a pass over its files is that function, taken at all of     *)
(* them.                                                                   *)
LEMMA PassFilesSteps ==
  ASSUME NEW pack, NEW d, NEW t, NEW q, NEW F \in SUBSET File
  PROVE  \E pass : /\ PassFiles(pack, d, F, t, q) = pass[F]
                   /\ Steps(pack, d, t, q, CountMissing(pack.c, d, F), SUBSET F, pass)
<1> DEFINE base == CountMissing(pack.c, d, F)
           Is(pass) == pass = [U \in SUBSET F |->
             IF U = {} THEN base
             ELSE PassFile(pass[U \ {Pick(U)}], Pick(U), d, t, pack, q)]
           made == CHOOSE pass : Is(pass)
<1>1. PassFiles(pack, d, F, t, q) = made[F]
  BY DEF PassFiles, FoldSet, MapThenFoldSet, Pick
<1> HIDE DEF base
<1>2. PICK pass : Steps(pack, d, t, q, base, SUBSET F, pass)
  BY StepsExist
<1>3. Is(pass)
  BY <1>2 DEF Steps
<1>4. Is(made)
  BY <1>3
<1> HIDE DEF made
<1>5. Steps(pack, d, t, q, base, SUBSET F, made)
  BY <1>4 DEF Steps
<1> QED  BY <1>1, <1>5 DEF base

(* What each file keeps, the whole pass keeps.                             *)
LEMMA PassFilesKeeps ==
  ASSUME NEW pack, pack.c \in Catalogue, Sound(pack.c, {}, {}), pack.pack \in Release \cup {None},
         NEW d, NEW t, NEW q \in Release \cup {None}, NEW F \in SUBSET File,
         NEW a, a = PassFiles(pack, d, F, t, q)
  PROVE  Holds(a) /\ Kept(pack.c, a.c)
<1>1. PICK pass : /\ a = pass[F]
                  /\ Steps(pack, d, t, q, CountMissing(pack.c, d, F), SUBSET F, pass)
  BY PassFilesSteps
<1> DEFINE now == pack.c
           Reached(b) == Holds(b) /\ Kept(now, b.c)
           T == {n \in Nat : \E U \in SUBSET F : Cardinality(U) = n /\ ~Reached(pass[U])}
<1>2. \A U \in SUBSET F : U # {} => pass[U] = PassFile(pass[U \ {Pick(U)}], Pick(U), d, t, pack, q)
  BY <1>1 DEF Steps
<1>3. pass[{}] = CountMissing(now, d, F)
  BY <1>1 DEF Steps
<1>4. Reached(pass[{}])
  <2>1. now \in Catalogue /\ Sound(now, {}, {})
    OBVIOUS
  <2> HIDE DEF now
  <2> QED  BY <1>3, <2>1, CountMissingKeeps
<1>5. T = {}
  <2> SUFFICES ASSUME T # {} PROVE FALSE
    OBVIOUS
  <2>1. PICK n \in T : \A m \in T : n <= m
    <3>1. T \subseteq Nat
      OBVIOUS
    <3> HIDE DEF T
    <3> QED  BY <3>1, LeastNatural
  <2>2. PICK U \in SUBSET F : Cardinality(U) = n /\ ~Reached(pass[U])
    BY <2>1
  <2>3. U # {}
    BY <1>4, <2>2
  <2>4. Pick(U) \in File /\ Cardinality(U \ {Pick(U)}) = n - 1 /\ n - 1 \in Nat
    BY <2>2, <2>3, FileSets
  <2>5. Reached(pass[U \ {Pick(U)}])
    BY <2>1, <2>4
  <2> DEFINE b == pass[U \ {Pick(U)}]
             e == pass[U]
  <2>6. e = PassFile(b, Pick(U), d, t, pack, q) /\ Holds(b) /\ Kept(now, b.c)
    BY <1>2, <2>3, <2>5
  <2> HIDE DEF b, e, now
  <2>7. Holds(e) /\ Kept(b.c, e.c)
    BY <2>4, <2>6, PassFileKeeps
  <2> QED  BY <2>2, <2>6, <2>7, KeptTrans DEF e
<1>6. Reached(pass[F])
  BY <1>5, FileSets
<1> QED  BY <1>1, <1>6

(* A step that leaves all that the invariant is about as it is.            *)
Quiet(c, d) == Same(c, d) /\ d.release = c.release /\ d.link = c.link /\ d.full = c.full

(* A quiet step keeps the invariant and what was mapped by hand.           *)
LEMMA QuietKeeps ==
  ASSUME NEW c \in Catalogue, NEW d \in Catalogue, NEW E, NEW R, Sound(c, E, R), Quiet(c, d)
  PROVE  Sound(d, E, R) /\ Kept(c, d)
<1>1. Same(c, d) /\ Calm(c, d, R) /\ d.maps = c.maps /\ d.hand = c.hand
  BY DEF Quiet, Same, Calm
<1> QED  BY <1>1, SoundStays, SameKept

(* What a transaction may commit.                                          *)
Good(c) == c \in Catalogue /\ Sound(c, {}, {})

(* The end of a pass pays what is owed, to releases and then to rows.      *)
LEMMA SettledKeeps ==
  ASSUME NEW a, Holds(a), NEW d, NEW b, b = Settled(a, d)
  PROVE  Good(b) /\ Kept(a.c, b)
<1> DEFINE now == a.c
           r == RefreshReleases(now, a.releases)
           e == RefreshRows(r, a.rows)
<1>1. /\ now \in Catalogue /\ a.releases \in SUBSET Release /\ a.rows \in SUBSET Row
      /\ Sound(now, a.rows, a.releases)
  BY DEF Holds, Work
<1>2. b = [e EXCEPT !.failed = e.failed \ {d}]
  BY DEF Settled
<1> DEFINE rels == a.releases
           rows == a.rows
<1>3. r = RefreshReleases(now, rels) /\ e = RefreshRows(r, rows)
  OBVIOUS
<1>4. now = a.c
  OBVIOUS
<1> HIDE DEF now, r, e, rels
<1>5. r \in Catalogue /\ Sound(r, a.rows, {}) /\ r.hand = now.hand /\ r.maps = now.maps
  BY <1>1, <1>3, RefreshReleasesKeeps DEF rels
<1> HIDE DEF rows
<1>6. e \in Catalogue /\ Sound(e, {}, {}) /\ e.hand = r.hand /\ e.maps = r.maps
  BY <1>1, <1>3, <1>5, RefreshRowsKeeps DEF rows
<1>7. e.failed \ {d} \in SUBSET Directory
  BY <1>6 DEF Catalogue
<1>8. b \in Catalogue /\ Quiet(e, b)
  BY <1>2, <1>6, <1>7 DEF Catalogue, Quiet, Same
<1>9. Sound(b, {}, {}) /\ b.maps = now.maps /\ b.hand = now.hand
  BY <1>5, <1>6, <1>8, QuietKeeps DEF Quiet, Same
<1> QED  BY <1>4, <1>8, <1>9, SameKept DEF Good

(* A whole pass takes a sound catalogue to a sound one and keeps what was  *)
(* mapped by hand.                                                         *)
LEMMA PassKeeps ==
  ASSUME NEW c, Good(c), NEW d \in Directory, NEW F \in SUBSET File,
         NEW t \in Torrent \cup {None}, NEW q \in Release \cup {None}, NEW hinted,
         NEW b, b = Pass(c, d, F, t, q, hinted)
  PROVE  Good(b) /\ Kept(c, b)
<1> DEFINE dir == [c.directory EXCEPT ![d] = [c.directory[d] EXCEPT !.exists = TRUE, !.missed = 0]]
           here == [c EXCEPT !.directory = dir]
           known == [here EXCEPT !.unsure = here.unsure \ {d}]
           unknown == [here EXCEPT !.unsure = here.unsure \cup {d}]
           pack == WithPack(known, d, t, F, q)
           a == PassFiles(pack, d, F, t, q)
<1>1. c \in Catalogue /\ Sound(c, {}, {})
  BY DEF Good
<1>2. here = [c EXCEPT !.directory[d].exists = TRUE, !.directory[d].missed = 0]
  BY <1>1 DEF Catalogue
<1>3. b = IF ~Identified(c, d, hinted) THEN unknown ELSE Settled(a, d)
  <2> HIDE DEF here
  <2> QED  BY <1>2 DEF Pass
<1>4. c.directory \in [Directory -> DirectoryOf]
  BY <1>1 DEF Catalogue, DirectoryOf
<1>5. dir \in [Directory -> DirectoryOf]
  BY <1>4 DEF DirectoryOf
<1> HIDE DEF dir
<1>6. here \in Catalogue /\ Quiet(c, here)
  BY <1>1, <1>5 DEF Catalogue, DirectoryOf, Quiet, Same
<1> HIDE DEF here
<1>7. here.unsure \in SUBSET Directory
  BY <1>6 DEF Catalogue
<1>8. known \in Catalogue /\ Quiet(here, known)
  BY <1>6, <1>7 DEF Catalogue, Quiet, Same
<1>9. unknown \in Catalogue /\ Quiet(here, unknown)
  BY <1>6, <1>7 DEF Catalogue, Quiet, Same
<1> HIDE DEF known, unknown
<1>10. Sound(here, {}, {}) /\ Kept(c, here)
  BY <1>1, <1>6, QuietKeeps
<1>11. CASE ~Identified(c, d, hinted)
  <2>1. Sound(unknown, {}, {}) /\ Kept(here, unknown)
    BY <1>6, <1>9, <1>10, QuietKeeps
  <2> QED  BY <1>3, <1>9, <1>10, <1>11, <2>1, KeptTrans DEF Good
<1>12. CASE Identified(c, d, hinted)
  <2>1. Sound(known, {}, {}) /\ Kept(here, known)
    BY <1>6, <1>8, <1>10, QuietKeeps
  <2>2. /\ pack.c \in Catalogue /\ Sound(pack.c, {}, {}) /\ Kept(known, pack.c)
        /\ pack.pack \in Release \cup {None}
    BY <1>8, <2>1, WithPackKeeps
  <2> HIDE DEF pack
  <2>3. Holds(a) /\ Kept(pack.c, a.c)
    BY <2>2, PassFilesKeeps
  <2> HIDE DEF a
  <2>4. Good(b) /\ Kept(a.c, b)
    BY <1>3, <1>12, <2>3, SettledKeeps
  <2>5. Kept(c, known)
    BY <1>10, <2>1, KeptTrans
  <2>6. Kept(c, pack.c)
    BY <2>2, <2>5, KeptTrans
  <2>7. Kept(c, a.c)
    BY <2>3, <2>6, KeptTrans
  <2> QED  BY <2>4, <2>7, KeptTrans
<1> QED  BY <1>11, <1>12

-----------------------------------------------------------------------------
(* The other service functions                                             *)

(* Directories given up take their files with them: rows and releases are  *)
(* told so at once.                                                        *)
LEMMA MarkAbsentKeeps ==
  ASSUME NEW c, Good(c), NEW seen, NEW d, d = MarkAbsent(c, seen)
  PROVE  Good(d) /\ d.maps = c.maps /\ d.hand = c.hand /\ d.full = c.full
<1> DEFINE lacking == {x \in Directory \ seen : c.directory[x].exists}
           dropped == {x \in lacking : c.directory[x].missed >= 1
                                       /\ c.directory[x].missed + 1 >= Grace}
           lost == {f \in File : In[f] \in dropped /\ c.file[f].status # "unknown"}
           rows == UNION {Rows(c, f) : f \in lost}
           releases == UNION {Releases(c, f) : f \in lost}
           dir == [x \in Directory |->
             IF x \in lacking
             THEN [c.directory[x] EXCEPT !.exists = x \notin dropped, !.missed = c.directory[x].missed + 1]
             ELSE IF x \in seen /\ c.directory[x].missed > 0
             THEN [c.directory[x] EXCEPT !.exists = TRUE, !.missed = 0]
             ELSE c.directory[x]]
           file == [f \in File |-> IF f \in lost THEN [c.file[f] EXCEPT !.status = "gone"]
                                   ELSE c.file[f]]
           mismatch == {f \in c.mismatch : In[f] \in seen}
           row == [e \in Row |-> IF e \in rows THEN [c.row[e] EXCEPT !.present = FALSE]
                                 ELSE c.row[e]]
           rel == [r \in Release |-> IF r \in releases
                                     THEN [c.release[r] EXCEPT !.state = "missing"]
                                     ELSE c.release[r]]
<1>1. d = [c EXCEPT !.directory = dir, !.file = file, !.mismatch = mismatch,
                    !.row = row, !.release = rel]
  BY DEF MarkAbsent
<1>2. c \in Catalogue /\ Sound(c, {}, {})
  BY DEF Good
<1>3. /\ c.directory \in [Directory -> DirectoryOf] /\ c.file \in [File -> FileOf]
      /\ c.row \in [Row -> RowOf] /\ c.release \in [Release -> ReleaseOf] /\ c.mismatch \in SUBSET File
  BY <1>2 DEF Catalogue, DirectoryOf, FileOf, RowOf, ReleaseOf
<1>4. \A f \in lost : Rows(c, f) \subseteq rows
  OBVIOUS
<1> HIDE DEF lacking, dropped, lost, rows, releases
<1>5. dir \in [Directory -> DirectoryOf]
  <2> SUFFICES ASSUME NEW x \in Directory PROVE dir[x] \in DirectoryOf
    OBVIOUS
  <2> DEFINE stands == x \notin dropped
  <2>1. stands \in BOOLEAN
    OBVIOUS
  <2>2. dir[x] = IF x \in lacking
                 THEN [c.directory[x] EXCEPT !.exists = stands, !.missed = c.directory[x].missed + 1]
                 ELSE IF x \in seen /\ c.directory[x].missed > 0
                 THEN [c.directory[x] EXCEPT !.exists = TRUE, !.missed = 0]
                 ELSE c.directory[x]
    OBVIOUS
  <2> HIDE DEF stands, dir
  <2>3. c.directory[x] \in DirectoryOf /\ c.directory[x].missed + 1 \in Nat
    BY <1>3 DEF DirectoryOf
  <2>4. [c.directory[x] EXCEPT !.exists = stands, !.missed = c.directory[x].missed + 1] \in DirectoryOf
    BY <2>1, <2>3 DEF DirectoryOf
  <2>5. [c.directory[x] EXCEPT !.exists = TRUE, !.missed = 0] \in DirectoryOf
    BY <2>3 DEF DirectoryOf
  <2> QED  BY <2>2, <2>3, <2>4, <2>5
<1>6. /\ file \in [File -> FileOf]
      /\ \A f \in File \ lost : file[f] = c.file[f]
  BY <1>3 DEF FileOf
<1>7. \A e \in Row : /\ row[e] \in RowOf
                     /\ row[e].number = c.row[e].number /\ row[e].parked = c.row[e].parked
  BY <1>3 DEF RowOf
<1>8. \A e \in Row : row[e].present => c.row[e].present /\ e \notin rows
  BY <1>3 DEF RowOf
<1>9. \A r \in Release : /\ rel[r] \in ReleaseOf
                         /\ rel[r].state = "removed" => c.release[r].state = "removed"
  BY <1>3 DEF ReleaseOf
<1>10. row \in [Row -> RowOf] /\ rel \in [Release -> ReleaseOf] /\ mismatch \in SUBSET File
  BY <1>3, <1>7, <1>9
<1> HIDE DEF dir, file, mismatch, row, rel
<1>11. /\ d \in Catalogue /\ d.row = row /\ d.file = file /\ d.release = rel
       /\ d.maps = c.maps /\ d.hand = c.hand /\ d.duplicate = c.duplicate
       /\ d.full = c.full /\ d.link = c.link
  <2> DEFINE b == [c EXCEPT !.directory = dir, !.file = file, !.mismatch = mismatch]
  <2>1. d = [b EXCEPT !.row = row, !.release = rel]
    BY <1>1
  <2>2. /\ b \in Catalogue /\ b.file = file /\ b.maps = c.maps /\ b.hand = c.hand
        /\ b.duplicate = c.duplicate /\ b.full = c.full /\ b.link = c.link
    BY <1>2, <1>5, <1>6, <1>10 DEF Catalogue, DirectoryOf, FileOf
  <2> HIDE DEF b
  <2> QED  BY <1>10, <2>1, <2>2 DEF Catalogue, RowOf, ReleaseOf
<1>12. Present(d, {})
  BY <1>2, <1>4, <1>6, <1>8, <1>11 DEF Sound, Present, Rows
<1>13. Copies(d, {})
  <2>1. \A e : Holders(d, e) = Holders(c, e)
    BY <1>11, SameHolders
  <2> QED  BY <1>2, <1>11, <2>1 DEF Sound, Copies
<1>14. Apart(d)
  <2>1. \A e \in Row : d.row[e].number = c.row[e].number /\ d.row[e].parked = c.row[e].parked
    BY <1>7, <1>11
  <2> QED  BY <1>2, <2>1, Zenon DEF Sound, Apart
<1>15. Gone(d, {})
  BY <1>2, <1>9, <1>11 DEF Sound, Gone
<1> QED  BY <1>11, <1>12, <1>13, <1>14, <1>15 DEF Good, Sound

(* A correction by hand changes the maps of its file alone.                *)
LEMMA CorrectKeeps ==
  ASSUME NEW c, Good(c), NEW f \in File, NEW E \in SUBSET Row, E # {},
         NEW d, d = Correct(c, f, E)
  PROVE  /\ Good(d) /\ d.hand = c.hand \cup {f}
         /\ \A g \in File \ {f} : d.maps[g] = c.maps[g]
<1> DEFINE old == Releases(c, f)
           kept == IF Cardinality(old) = 1 THEN CHOOSE r \in old : TRUE ELSE None
           release == Prepared(c, kept)
           s == c.row[CHOOSE e \in E : TRUE].season
           prepared == IF kept # None THEN c ELSE Prepare(c, None, "own", s, f)
           map == [e \in Row |-> IF e \in E THEN release ELSE None]
           maps == [prepared.maps EXCEPT ![f] = map]
           mapped == [prepared EXCEPT !.maps = maps, !.hand = prepared.hand \cup {f},
                                      !.unmapped = prepared.unmapped \ {f}]
           rows == Rows(c, f) \cup E
<1>1. c \in Catalogue /\ Sound(c, {}, {})
  BY DEF Good
<1>2. kept \in old \cup {None} /\ old \subseteq Release
  <2>1. old \subseteq Release
    BY <1>1 DEF Catalogue, Releases, Rows
  <2> HIDE DEF old
  <2>2. Cardinality(old) = 1 => old # {}
    BY FS_EmptySet
  <2> QED  BY <2>1, <2>2
<1>3. s \in Season \cup {None}
  <2>1. (CHOOSE e \in E : TRUE) \in Row
    OBVIOUS
  <2> QED  BY <1>1, <2>1 DEF Catalogue
<1>4. d = RefreshRows(mapped, rows)
  BY Zenon DEF Correct
<1>5. rows \in SUBSET Row /\ Rows(c, f) \subseteq rows /\ E \subseteq rows
  BY DEF Rows
<1>6. kept # None => \E e \in Row : c.maps[f][e] = kept
  BY <1>2 DEF Releases, Rows
<1> HIDE DEF old, kept, s, rows
<1>7. /\ prepared \in Catalogue /\ Same(c, prepared) /\ Calm(c, prepared, {})
      /\ release \in Release
      /\ ~prepared.full => prepared.release[release].state # "removed"
  <2>1. CASE kept = None
    <3>1. f \in Name \cup {None}
      BY DEF Name
    <3>2. prepared = Prepare(c, None, "own", s, f)
      BY <2>1
    <3> DEFINE p == prepared
    <3> HIDE DEF p
    <3>3. release = Prepared(c, None)
      BY <2>1
    <3> HIDE DEF prepared, release
    <3> QED  BY <1>1, <1>3, <3>1, <3>2, <3>3, PrepareIs
  <2>2. CASE kept # None
    <3>1. prepared = c /\ release = kept
      BY <2>2 DEF Prepared
    <3>2. kept \in Release
      BY <1>2, <2>2
    <3>3. ~c.full => c.release[kept].state # "removed"
      BY <1>1, <1>6, <2>2, <3>2 DEF Sound, Gone
    <3> HIDE DEF prepared, release
    <3> QED  BY <1>1, <3>1, <3>2, <3>3 DEF Same, Calm
  <2> QED  BY <2>1, <2>2
<1> HIDE DEF release, prepared
<1>8. Sound(prepared, {}, {}) /\ prepared.maps = c.maps /\ prepared.hand = c.hand
  BY <1>1, <1>7, SoundStays DEF Same
<1>9. /\ map \in [Row -> Release \cup {None}]
      /\ \A e \in Row : e \notin rows => map[e] = None
      /\ \A e \in Row : map[e] \in {release, None}
  BY <1>5, <1>7
<1> HIDE DEF map
<1>10. c.maps \in [File -> [Row -> Release \cup {None}]] /\ prepared.unmapped \in SUBSET File
       /\ prepared.hand \in SUBSET File
  BY <1>1, <1>7 DEF Catalogue
<1>11. /\ maps \in [File -> [Row -> Release \cup {None}]] /\ maps[f] = map
       /\ \A g \in File \ {f} : maps[g] = c.maps[g]
  BY <1>8, <1>9, <1>10
<1> HIDE DEF maps
<1>12. /\ mapped \in Catalogue /\ mapped.maps = maps /\ mapped.hand = c.hand \cup {f}
       /\ mapped.row = prepared.row /\ mapped.file = prepared.file
       /\ mapped.duplicate = prepared.duplicate /\ mapped.full = prepared.full
       /\ mapped.release = prepared.release /\ mapped.link = prepared.link
  BY <1>7, <1>8, <1>10, <1>11 DEF Catalogue
<1> HIDE DEF mapped
<1>13. \A g \in File, e \in Row : e \notin rows => (maps[g][e] # None <=> c.maps[g][e] # None)
  BY <1>5, <1>9, <1>11 DEF Rows
<1>14. Present(mapped, rows)
  BY <1>8, <1>12, <1>13 DEF Sound, Present
<1>15. Copies(mapped, rows)
  <2>1. \A e \in Row \ rows : Holders(mapped, e) = Holders(prepared, e)
    BY <1>8, <1>12, <1>13 DEF Holders
  <2>2. prepared.duplicate \subseteq Row
    BY <1>7 DEF Catalogue
  <2> QED  BY <1>8, <1>12, <2>1, <2>2 DEF Sound, Copies
<1>16. Apart(mapped)
  BY <1>8, <1>12, Zenon DEF Sound, Apart
<1>17. Gone(mapped, {})
  <2> SUFFICES ASSUME ~mapped.full, NEW r \in Release, mapped.release[r].state = "removed"
               PROVE  /\ \A g \in File, e \in Row : mapped.maps[g][e] # r
                      /\ \E t \in Torrent : mapped.link[t][r] \in Idle
    BY DEF Gone
  <2>1. /\ \A g \in File, e \in Row : c.maps[g][e] # r
        /\ \E t \in Torrent : prepared.link[t][r] \in Idle
    BY <1>8, <1>12 DEF Sound, Gone
  <2>2. r # release /\ r # None
    BY <1>7, <1>12, ReleaseIsNumber
  <2> QED  BY <1>9, <1>11, <1>12, <2>1, <2>2
<1>18. d \in Catalogue /\ Sound(d, {}, {}) /\ d.hand = mapped.hand /\ d.maps = mapped.maps
  BY <1>4, <1>5, <1>12, <1>14, <1>15, <1>16, <1>17, RefreshRowsKeeps DEF Sound
<1> QED  BY <1>11, <1>12, <1>18 DEF Good

(* Whatever stood is parked before the titles told take their numbers, and *)
(* those are apart: no other row is left standing.                         *)
LEMMA SyncKeeps ==
  ASSUME NEW c, Good(c), NEW order \in Order, NEW U, NEW d, d = Sync(c, order, U)
  PROVE  Good(d) /\ d.maps = c.maps /\ d.hand = c.hand /\ d.full = c.full
<1> DEFINE told == UNION {Titles(order, s) : s \in Planned(order) \ U}
           row == [e \in Row |->
             IF e \in told
             THEN [c.row[e] EXCEPT !.number = Place[order][e], !.parked = 0,
                                   !.season = Place[order][e][1]]
             ELSE IF c.row[e].number = Nowhere THEN c.row[e]
             ELSE [c.row[e] EXCEPT !.parked = @ + 1]]
           dropped == {s \in Season \ Planned(order) :
                         \A e \in Row : row[e].number # Nowhere => row[e].season # s}
           expected == [s \in Season |->
             IF s \in Planned(order) THEN Cardinality(Titles(order, s))
             ELSE IF s \in dropped THEN 0 ELSE c.expected[s]]
<1>1. d = [c EXCEPT !.row = row, !.expected = expected]
  BY DEF Sync
<1>2. c \in Catalogue /\ Sound(c, {}, {})
  BY DEF Good
<1>3. c.row \in [Row -> RowOf] /\ c.expected \in [Season -> Nat]
  BY <1>2 DEF Catalogue, RowOf
<1>4. \A e \in told : e \in Title /\ Place[order][e] \in Slot
  BY PlaceAssumption DEF Titles
<1>5. \A s : Cardinality(Titles(order, s)) \in Nat
  <2>1. \A s : Titles(order, s) \subseteq Title
    BY DEF Titles
  <2> QED  BY <2>1, BoundAssumption, FS_Subset, FS_CardinalityType
<1>6. expected \in [Season -> Nat]
  BY <1>3, <1>5
<1> HIDE DEF told, expected
<1>7. \A e \in Row : row[e] \in RowOf /\ row[e].present = c.row[e].present
  <2>1. \A e \in told : Place[order][e] \in Slot \cup {Nowhere} /\ Place[order][e][1] \in Season \cup {None}
    BY <1>4 DEF Season
  <2> SUFFICES ASSUME NEW e \in Row PROVE row[e] \in RowOf /\ row[e].present = c.row[e].present
    OBVIOUS
  <2> DEFINE n == Place[order][e]
             s == Place[order][e][1]
             was == c.row[e]
  <2>2. CASE e \in told
    <3>1. n \in Slot \cup {Nowhere} /\ s \in Season \cup {None} /\ was \in RowOf
      BY <1>3, <2>1, <2>2
    <3> DEFINE new == [was EXCEPT !.number = n, !.parked = 0, !.season = s]
    <3>2. row[e] = new
      BY <2>2
    <3> HIDE DEF n, s, row, was
    <3>3. new \in RowOf
      BY <3>1 DEF RowOf
    <3>4. new.present = was.present
      BY <3>1 DEF RowOf
    <3> HIDE DEF new
    <3>5. row[e] \in RowOf /\ row[e].present = was.present
      BY <3>2, <3>3, <3>4
    <3> QED  BY <3>5 DEF was
  <2>3. CASE e \notin told
    BY <1>3, <2>3 DEF RowOf
  <2> QED  BY <2>2, <2>3
<1>8. \A e \in Row : row[e].number # Nowhere /\ row[e].parked = 0 =>
        e \in Title /\ row[e].number = Place[order][e]
  BY <1>3, <1>4 DEF RowOf
<1>9. row \in [Row -> RowOf]
  BY <1>7
<1> HIDE DEF row
<1>10. /\ d \in Catalogue /\ d.row = row /\ d.file = c.file /\ d.release = c.release
       /\ d.maps = c.maps /\ d.hand = c.hand /\ d.duplicate = c.duplicate
       /\ d.full = c.full /\ d.link = c.link
  BY <1>1, <1>2, <1>6, <1>9 DEF Catalogue, RowOf
<1>11. Present(d, {})
  BY <1>2, <1>7, <1>10 DEF Sound, Present
<1>12. Copies(d, {})
  <2>1. \A e : Holders(d, e) = Holders(c, e)
    BY <1>10, SameHolders
  <2> QED  BY <1>2, <1>10, <2>1 DEF Sound, Copies
<1>13. Apart(d)
  BY <1>8, <1>10, NumberAssumption DEF Apart
<1>14. Gone(d, {})
  BY <1>2, <1>10 DEF Sound, Gone
<1> QED  BY <1>10, <1>11, <1>12, <1>13, <1>14 DEF Good, Sound

(* So it is for each ordering and each set of seasons that a refresh may   *)
(* end with.                                                               *)
LEMMA SyncedKeeps ==
  ASSUME NEW c, Good(c), NEW d \in Synced(c)
  PROVE  Good(d) /\ d.maps = c.maps /\ d.hand = c.hand /\ d.full = c.full
<1>1. c.order \in Order /\ Default \in Order
  BY PlaceAssumption DEF Good, Catalogue
<1> DEFINE order == c.order
<1>2. PICK o \in Order : \E U : d = Sync(c, o, U)
  <2>1. order \in Order
    BY <1>1
  <2>2. d = Sync(c, order, {}) \/ \E U \in SUBSET Planned(Default) : d = Sync(c, Default, U)
    BY DEF Synced
  <2> HIDE DEF order
  <2> QED  BY <1>1, <2>1, <2>2
<1>3. PICK U : d = Sync(c, o, U)
  BY <1>2
<1> QED  BY <1>3, SyncKeeps

(* A quiet step leaves a catalogue that may be committed.                  *)
LEMMA QuietGood ==
  ASSUME NEW c, Good(c), NEW d \in Catalogue, Quiet(c, d)
  PROVE  Good(d) /\ d.maps = c.maps /\ d.hand = c.hand /\ d.full = c.full
BY QuietKeeps DEF Good, Quiet, Same

(* To associate a torrent links it as incoming, to a new release or to one *)
(* of its own.                                                             *)
LEMMA AssociateKeeps ==
  ASSUME NEW c, Good(c), NEW t \in Torrent, NEW complete, NEW d \in Associate(c, t, complete)
  PROVE  Good(d) /\ d.maps = c.maps /\ d.hand = c.hand
<1> DEFINE links == Linked(c, t, Link \ {"none"})
           new == Prepared(c, None)
           scope == IF Says[t].numbers = {} THEN "pack" ELSE "own"
           made == New(c, "missing", scope, SeasonNamed(t), t)
           link == [u \in Torrent |-> [r \in Release |->
                      IF u = t /\ r = new THEN "incoming" ELSE made.link[u][r]]]
           linked == [made EXCEPT !.link = link]
           again(r) == [c EXCEPT !.link = [c.link EXCEPT ![t] = [c.link[t] EXCEPT ![r] = "incoming"]]]
<1>1. d \in IF Cardinality(Says[t].seasons) # 1 THEN {c}
            ELSE IF links = {} THEN {linked}
            ELSE {IF c.link[t][r] = "attached" \/ complete THEN c ELSE again(r) : r \in links}
  BY DEF Associate
<1>2. c \in Catalogue /\ Sound(c, {}, {}) /\ c.link \in [Torrent -> [Release -> Link]]
  BY DEF Good, Catalogue
<1>3. CASE Cardinality(Says[t].seasons) = 1 /\ links = {}
  <2>1. t \in Name /\ t \in Name \cup {None} /\ SeasonNamed(t) \in Season \cup {None}
    BY <1>3, SeasonNamedIs DEF Name
  <2> DEFINE s == SeasonNamed(t)
  <2>2. made = New(c, "missing", scope, s, t) /\ s \in Season \cup {None} /\ scope \in {"pack", "own"}
    BY <2>1
  <2> HIDE DEF made, s, scope, links
  <2>3. made \in Catalogue /\ Same(c, made) /\ Calm(c, made, {}) /\ made.link = c.link
    <3>0. c \in Catalogue /\ s \in Season \cup {None} /\ t \in Name \cup {None}
      BY <1>2, <2>1, <2>2
    <3>1. CASE scope = "pack"
      <4>1. made = New(c, "missing", "pack", s, t)
        BY <2>2, <3>1
      <4> QED  BY <3>0, <4>1, NewIs
    <3>2. CASE scope = "own"
      <4>1. made = New(c, "missing", "own", s, t)
        BY <2>2, <3>2
      <4> QED  BY <3>0, <4>1, NewIs
    <3> QED  BY <2>2, <3>1, <3>2
  <2>4. /\ link \in [Torrent -> [Release -> Link]]
        /\ \A u \in Torrent, r \in Release : made.link[u][r] \in Idle => link[u][r] \in Idle
    BY <1>2, <2>3 DEF Link, Idle
  <2> HIDE DEF link
  <2>5. linked \in Catalogue /\ linked.link = link /\ linked.release = made.release
        /\ linked.full = made.full
    BY <2>3, <2>4 DEF Catalogue
  <2>6. Same(made, linked)
    BY <2>3 DEF Catalogue, Same
  <2> HIDE DEF linked
  <2>7. Calm(made, linked, {})
    BY <2>4, <2>5 DEF Calm
  <2>8. Sound(made, {}, {})
    BY <1>2, <2>3, SoundStays
  <2>9. Sound(linked, {}, {})
    BY <2>3, <2>5, <2>6, <2>7, <2>8, SoundStays
  <2>10. d = linked
    BY <1>1, <1>3
  <2> QED  BY <2>3, <2>5, <2>6, <2>9, <2>10 DEF Good, Same
<1>4. CASE d = c
  BY <1>4
<1>5. CASE Cardinality(Says[t].seasons) = 1 /\ links # {} /\ d # c
  <2>1. PICK r \in links : d = again(r)
    BY <1>1, <1>5
  <2>2. r \in Release
    BY <2>1 DEF Linked
  <2> DEFINE l == [c.link EXCEPT ![t] = [c.link[t] EXCEPT ![r] = "incoming"]]
  <2>3. /\ l \in [Torrent -> [Release -> Link]]
        /\ \A u \in Torrent, q \in Release : c.link[u][q] \in Idle => l[u][q] \in Idle
    BY <1>2, <2>2 DEF Link, Idle
  <2>4. d = [c EXCEPT !.link = l]
    BY <2>1
  <2> HIDE DEF l
  <2>5. d \in Catalogue /\ d.link = l /\ d.release = c.release /\ d.full = c.full
    BY <1>2, <2>3, <2>4 DEF Catalogue
  <2>6. Same(c, d)
    BY <1>2, <2>4 DEF Catalogue, Same
  <2>7. Calm(c, d, {})
    BY <2>3, <2>5 DEF Calm
  <2> QED  BY <1>2, <2>5, <2>6, <2>7, SoundStays DEF Good, Same
<1> QED  BY <1>1, <1>3, <1>4, <1>5

(* A disagreement turns attached links historical and nothing else that    *)
(* matters.                                                                *)
LEMMA DisagreeKeeps ==
  ASSUME NEW c, Good(c), NEW t \in Torrent, NEW present, NEW d, d = Disagree(c, t, present)
  PROVE  Good(d) /\ d.maps = c.maps /\ d.hand = c.hand /\ d.full = c.full
<1> DEFINE bare == {r \in Linked(c, t, {"attached"}) : There(c, MembersOf(c, r)) = {}}
           settled == Linked(c, t, {"historical"}) \cup bare
           standing == Linked(c, t, {"attached"}) \ bare
           link == [u \in Torrent |-> [r \in Release |->
                      IF u = t /\ r \in bare THEN "historical" ELSE c.link[u][r]]]
           removed == IF present THEN c.removed \ (settled \cup standing)
                      ELSE (c.removed \ settled) \cup standing
<1>1. d = [c EXCEPT !.link = link, !.removed = removed]
  BY DEF Disagree
<1>2. c \in Catalogue /\ Sound(c, {}, {}) /\ c.link \in [Torrent -> [Release -> Link]]
  BY DEF Good, Catalogue
<1>3. removed \in SUBSET Release
  BY <1>2 DEF Catalogue, Linked
<1> HIDE DEF bare, removed
<1>4. /\ link \in [Torrent -> [Release -> Link]]
      /\ \A u \in Torrent, q \in Release : c.link[u][q] \in Idle => link[u][q] \in Idle
  BY <1>2 DEF Link, Idle
<1> HIDE DEF link
<1>5. d \in Catalogue /\ d.link = link /\ d.release = c.release /\ d.full = c.full
  <2> DEFINE b == [c EXCEPT !.link = link]
  <2>1. b \in Catalogue /\ b.link = link /\ b.release = c.release /\ b.full = c.full
    BY <1>2, <1>4 DEF Catalogue
  <2>2. d = [b EXCEPT !.removed = removed]
    BY <1>1
  <2> HIDE DEF b
  <2> QED  BY <1>3, <2>1, <2>2 DEF Catalogue
<1>6. Same(c, d)
  BY <1>1, <1>2 DEF Catalogue, Same
<1>7. Calm(c, d, {})
  BY <1>4, <1>5 DEF Calm
<1> QED  BY <1>2, <1>5, <1>6, <1>7, SoundStays DEF Good, Same

(* What is given up with a download holds no media, and its torrent is not *)
(* attached to it.                                                         *)
LEMMA CancelKeeps ==
  ASSUME NEW c, Good(c), NEW t \in Torrent, NEW d, d = Cancel(c, t)
  PROVE  Good(d) /\ d.maps = c.maps /\ d.hand = c.hand /\ d.full = c.full
<1> DEFINE incoming == Linked(c, t, {"incoming"})
           link == [u \in Torrent |-> [r \in Release |->
                      IF u = t /\ r \in incoming THEN "historical" ELSE c.link[u][r]]]
           rel == [r \in Release |->
             IF r \in incoming /\ MembersOf(c, r) = {} THEN [c.release[r] EXCEPT !.state = "removed"]
             ELSE c.release[r]]
<1>1. d = [c EXCEPT !.link = link, !.release = rel]
  BY DEF Cancel
<1>2. /\ c \in Catalogue /\ Sound(c, {}, {}) /\ c.link \in [Torrent -> [Release -> Link]]
      /\ c.release \in [Release -> ReleaseOf]
  BY DEF Good, Catalogue, ReleaseOf
<1> HIDE DEF incoming
<1>3. /\ link \in [Torrent -> [Release -> Link]]
      /\ \A u \in Torrent, q \in Release : c.link[u][q] \in Idle => link[u][q] \in Idle
      /\ \A q \in incoming : q \in Release => link[t][q] \in Idle
  BY <1>2 DEF Link, Idle
<1>4. \A r \in Release :
        /\ rel[r] \in ReleaseOf
        /\ rel[r].state = "removed" =>
             c.release[r].state = "removed" \/ (r \in incoming /\ MembersOf(c, r) = {})
  BY <1>2 DEF ReleaseOf
<1>5. rel \in [Release -> ReleaseOf]
  BY <1>4
<1> HIDE DEF link, rel
<1>6. /\ d \in Catalogue /\ d.link = link /\ d.release = rel /\ d.full = c.full
      /\ d.maps = c.maps /\ d.hand = c.hand /\ d.row = c.row /\ d.file = c.file
      /\ d.duplicate = c.duplicate
  <2> DEFINE b == [c EXCEPT !.link = link]
  <2>1. /\ b \in Catalogue /\ b.link = link /\ b.full = c.full
        /\ b.maps = c.maps /\ b.hand = c.hand /\ b.row = c.row /\ b.file = c.file
        /\ b.duplicate = c.duplicate
    BY <1>2, <1>3 DEF Catalogue
  <2>2. d = [b EXCEPT !.release = rel]
    BY <1>1
  <2> HIDE DEF b
  <2> QED  BY <1>5, <2>1, <2>2 DEF Catalogue, ReleaseOf
<1>7. Present(d, {})
  BY <1>2, <1>6, Zenon DEF Sound, Present
<1>8. Copies(d, {})
  <2>1. \A e : Holders(d, e) = Holders(c, e)
    BY <1>6, SameHolders
  <2> QED  BY <1>2, <1>6, <2>1 DEF Sound, Copies
<1>9. Apart(d)
  BY <1>2, <1>6, Zenon DEF Sound, Apart
<1>10. Gone(d, {})
  <2> SUFFICES ASSUME ~c.full, NEW r \in Release, rel[r].state = "removed"
               PROVE  /\ \A f \in File, e \in Row : c.maps[f][e] # r
                      /\ \E u \in Torrent : link[u][r] \in Idle
    BY <1>6 DEF Gone
  <2>1. CASE c.release[r].state = "removed"
    BY <1>2, <1>3, <2>1 DEF Sound, Gone
  <2>2. CASE r \in incoming /\ MembersOf(c, r) = {}
    <3>1. \A f \in File, e \in Row : c.maps[f][e] # r
      BY <2>2, ReleaseIsNumber DEF MembersOf, Releases, Rows
    <3> QED  BY <1>3, <2>2, <3>1
  <2> QED  BY <1>4, <2>1, <2>2
<1> QED  BY <1>6, <1>7, <1>8, <1>9, <1>10 DEF Good, Sound

(* A finished download is a pass over its container, or a Problem about    *)
(* its path.                                                               *)
LEMMA FinalizeKeeps ==
  ASSUME NEW c, Good(c), NEW t \in Torrent, NEW d \in Finalize(c, t)
  PROVE  Good(d) /\ Kept(c, d)
<1> DEFINE x == Container[t]
           incoming == Linked(c, t, {"incoming"})
           files == disk \cap Inside(x)
           waits == [c EXCEPT !.lost = c.lost \cup {t}]
           passed(q) == Pass(c, x, files, t, q, TRUE)
           found(q) == [passed(q) EXCEPT !.lost = passed(q).lost \ {t}]
<1>1. /\ x \in Directory /\ files \in SUBSET File /\ incoming \subseteq Release
      /\ t \in Torrent \cup {None}
  BY PlaceAssumption DEF Inside, Linked
<1>2. d = waits \/ \E q \in Release \cup {None} : d = found(q)
  <2>1. d \in IF Members[t] \cap disk = {} THEN {waits}
              ELSE {found(q) : q \in IF incoming = {} THEN {None} ELSE incoming}
    BY Zenon DEF Finalize
  <2>2. \A q \in IF incoming = {} THEN {None} ELSE incoming : q \in Release \cup {None}
    BY <1>1
  <2> HIDE DEF waits, found, incoming
  <2> QED  BY <2>1, <2>2
<1>3. CASE d = waits
  <2>1. c \in Catalogue /\ c.lost \cup {t} \in SUBSET Torrent
    BY DEF Good, Catalogue
  <2>2. d \in Catalogue /\ Quiet(c, d)
    BY <1>3, <2>1 DEF Catalogue, Quiet, Same
  <2> QED  BY <2>2, QuietGood, SameKept
<1>4. CASE \E q \in Release \cup {None} : d = found(q)
  <2>1. PICK q \in Release \cup {None} : d = found(q)
    BY <1>4
  <2> DEFINE b == passed(q)
  <2>2. b = Pass(c, x, files, t, q, TRUE) /\ d = [b EXCEPT !.lost = b.lost \ {t}]
    BY <2>1
  <2> HIDE DEF b, x, files
  <2>3. Good(b) /\ Kept(c, b)
    BY <1>1, <2>2, PassKeeps
  <2>4. b \in Catalogue /\ b.lost \ {t} \in SUBSET Torrent
    BY <2>3 DEF Good, Catalogue
  <2>5. d \in Catalogue /\ Quiet(b, d)
    BY <2>2, <2>4 DEF Catalogue, Quiet, Same
  <2>6. Good(d) /\ Kept(b, d)
    BY <2>3, <2>5, QuietGood, SameKept
  <2> QED  BY <2>3, <2>6, KeptTrans
<1> QED  BY <1>2, <1>3, <1>4

(* A release that is referred to stays what it was; the others are blank.  *)
Tidy(c) ==
  [c EXCEPT !.release = [r \in Release |->
     IF r \in Referred(c) THEN c.release[r] ELSE Blank.release[r]]]

LEMMA CommitKeeps ==
  ASSUME NEW c, Good(c), NEW d, ~c.full, d = Tidy(c)
  PROVE  Good(d) /\ d.full = FALSE /\ d.maps = c.maps /\ d.hand = c.hand
<1> DEFINE rel == [r \in Release |->
             IF r \in Referred(c) THEN c.release[r] ELSE Blank.release[r]]
<1>1. c \in Catalogue /\ Sound(c, {}, {}) /\ c.release \in [Release -> ReleaseOf]
  BY DEF Good, Catalogue, ReleaseOf
<1>2. \A r \in Release : Blank.release[r] =
        [state |-> "unused", scope |-> "own", season |-> None, name |-> None]
  BY DEF Blank
<1>3. \A r \in Release : rel[r] = c.release[r]
                         \/ rel[r] = [state |-> "unused", scope |-> "own", season |-> None, name |-> None]
  BY <1>2
<1>4. /\ rel \in [Release -> ReleaseOf]
      /\ \A r \in Release : rel[r].state = "removed" => c.release[r].state = "removed"
  <2> DEFINE blank == [state |-> "unused", scope |-> "own", season |-> None, name |-> None]
  <2>1. blank \in ReleaseOf /\ blank.state # "removed"
    BY DEF ReleaseOf
  <2>2. rel = [r \in Release |-> rel[r]]
    OBVIOUS
  <2>3. \A r \in Release : rel[r] = c.release[r] \/ rel[r] = blank
    BY <1>3
  <2> HIDE DEF blank, rel
  <2>4. \A r \in Release : rel[r] \in ReleaseOf
    BY <1>1, <2>1, <2>3
  <2> QED  BY <2>1, <2>2, <2>3, <2>4
<1>5. d = [c EXCEPT !.release = rel]
  BY DEF Tidy
<1> HIDE DEF rel
<1>6. /\ d \in Catalogue /\ d.release = rel /\ d.link = c.link /\ d.full = c.full
      /\ d.maps = c.maps /\ d.hand = c.hand
  BY <1>1, <1>4, <1>5 DEF Catalogue, ReleaseOf
<1>7. Same(c, d)
  BY <1>1, <1>5 DEF Catalogue, Same
<1>8. Calm(c, d, {})
  BY <1>4, <1>6 DEF Calm
<1>9. Sound(d, {}, {})
  BY <1>1, <1>6, <1>7, <1>8, SoundStays
<1>10. d.full = FALSE
  BY <1>6, <1>1 DEF Catalogue
<1> QED  BY <1>6, <1>9, <1>10 DEF Good

(* The empty catalogue may be committed.                                   *)
LEMMA BlankGood == Good(Blank) /\ Blank.full = FALSE
<1> DEFINE row == [e \in Row |-> [number |-> Nowhere, parked |-> 0, season |-> None, present |-> FALSE]]
           file == [f \in File |-> [status |-> "unknown", missed |-> 0]]
           maps == [f \in File |-> [e \in Row |-> None]]
           rel == [r \in Release |-> [state |-> "unused", scope |-> "own", season |-> None, name |-> None]]
           directory == [d \in Directory |-> [exists |-> FALSE, missed |-> 0, release |-> None]]
           link == [t \in Torrent |-> [r \in Release |-> "none"]]
           expected == [s \in Season |-> 0]
<1>1. /\ row \in [Row -> RowOf] /\ file \in [File -> FileOf] /\ rel \in [Release -> ReleaseOf]
      /\ maps \in [File -> [Row -> Release \cup {None}]]
      /\ directory \in [Directory -> DirectoryOf] /\ link \in [Torrent -> [Release -> Link]]
      /\ expected \in [Season -> Nat] /\ Default \in Order
  BY PlaceAssumption DEF RowOf, FileOf, ReleaseOf, DirectoryOf, Link
<1>2. /\ \A e \in Row : row[e].present = FALSE /\ row[e].number = Nowhere
      /\ \A r \in Release : rel[r].state = "unused"
  OBVIOUS
<1>3. Blank = [row |-> row, expected |-> expected, order |-> Default, directory |-> directory,
               file |-> file, maps |-> maps, hand |-> {}, full |-> FALSE, release |-> rel,
               link |-> link, duplicate |-> {}, unmapped |-> {}, mismatch |-> {},
               unsure |-> {}, failed |-> {}, lost |-> {}, removed |-> {}, metadata |-> FALSE]
  BY Zenon DEF Blank
<1> HIDE DEF row, file, maps, rel, directory, link, expected
<1>4. Blank.row = row /\ Blank.release = rel /\ Blank.duplicate = {} /\ Blank.full = FALSE
  BY <1>3
<1>5. Blank \in Catalogue
  BY <1>1, <1>3 DEF Catalogue, RowOf, FileOf, ReleaseOf, DirectoryOf
<1>6. Sound(Blank, {}, {})
  BY <1>2, <1>4 DEF Sound, Present, Copies, Apart, Gone
<1> QED  BY <1>4, <1>5, <1>6 DEF Good

-----------------------------------------------------------------------------
(* The steps                                                               *)

(***************************************************************************)
(* The invariant: what is committed is sound, no row and no release is     *)
(* owed a refresh, and no transaction committed the bound being reached.   *)
(***************************************************************************)
Committed == Good(cat) /\ cat.full = FALSE
IInv == TypeOK /\ Committed

(* What a step does to the catalogue: the invariant stays, and of the      *)
(* files mapped by hand none but the one that is corrected is touched.     *)
Moves ==
  /\ Committed'
  /\ \A f \in cat.hand : ~CorrectFile(f) => f \in cat'.hand /\ cat'.maps[f] = cat.maps[f]

(* What keeps all that was mapped by hand moves the catalogue so.          *)
LEMMA KeptMoves ==
  ASSUME Good(cat'), cat'.full = FALSE, Kept(cat, cat')
  PROVE  Moves
BY DEF Moves, Committed, Kept

(* A transaction that commits a sound catalogue moves it so.               *)
LEMMA CommitMoves ==
  ASSUME NEW c, Good(c), Kept(cat, c), Commit(c)
  PROVE  Moves
<1>1. ~c.full /\ cat' = Tidy(c)
  BY Zenon DEF Commit, Tidy
<1>2. Good(cat') /\ cat'.full = FALSE /\ cat'.maps = c.maps /\ cat'.hand = c.hand
  BY <1>1, CommitKeeps
<1>3. Kept(cat, cat')
  BY <1>2, Zenon DEF Kept
<1> QED  BY <1>2, <1>3, KeptMoves

(* A change of the catalogue that the invariant does not see.              *)
LEMMA QuietMoves ==
  ASSUME Committed, cat' \in Catalogue, Quiet(cat, cat')
  PROVE  Moves
<1>1. Good(cat') /\ cat'.maps = cat.maps /\ cat'.hand = cat.hand /\ cat'.full = cat.full
  BY QuietGood DEF Committed
<1>2. Kept(cat, cat')
  BY <1>1, SameKept
<1> QED  BY <1>1, <1>2, KeptMoves DEF Committed

(* A refresh moves the catalogue so.                                       *)
LEMMA SyncedMoves ==
  ASSUME Committed, NEW c, Good(c), c.maps = cat.maps, c.hand = cat.hand, c.full = FALSE,
         NEW d \in Synced(c), NEW m \in BOOLEAN, cat' = [d EXCEPT !.metadata = m]
  PROVE  Moves
<1>1. Good(d) /\ d.maps = c.maps /\ d.hand = c.hand /\ d.full = c.full
  BY SyncedKeeps
<1>2. d \in Catalogue
  BY <1>1 DEF Good
<1>3. cat' \in Catalogue /\ Quiet(d, cat')
  BY <1>2 DEF Catalogue, Quiet, Same
<1>4. Good(cat') /\ cat'.maps = d.maps /\ cat'.hand = d.hand /\ cat'.full = d.full
  BY <1>1, <1>3, QuietGood
<1>5. Kept(cat, cat')
  BY <1>1, <1>4, SameKept
<1> QED  BY <1>1, <1>4, <1>5, KeptMoves

(* A pass of a scan, or of a confirmed identity, moves the catalogue so.   *)
LEMMA PassMoves ==
  ASSUME TypeOK, Committed, NEW d \in Directory, NEW F \in SUBSET File, NEW hinted,
         Commit(Pass(cat, d, F, None, None, hinted))
  PROVE  Moves
<1> DEFINE b == Pass(cat, d, F, None, None, hinted)
<1>1. Good(cat)
  BY DEF Committed
<1>2. Good(b) /\ Kept(cat, b)
  BY <1>1, PassKeeps
<1>3. Commit(b)
  OBVIOUS
<1> HIDE DEF b
<1> QED  BY <1>2, <1>3, CommitMoves

(* The listing of the root moves the catalogue so.                         *)
LEMMA ScanListMoves ==
  ASSUME Committed, ScanList
  PROVE  Moves
<1>1. cat' = MarkAbsent(cat, folders) /\ Good(cat) /\ cat.full = FALSE
  BY DEF ScanList, Committed
<1>2. Good(cat') /\ cat'.maps = cat.maps /\ cat'.hand = cat.hand /\ cat'.full = cat.full
  BY <1>1, MarkAbsentKeeps
<1> QED  BY <1>1, <1>2, SameKept, KeptMoves

(* A poll that finds the torrent associates, finalizes and compares it in  *)
(* one transaction.                                                        *)
LEMMA PollPresentMoves ==
  ASSUME Committed, NEW t \in Torrent, PollPresent(t)
  PROVE  Moves
<1> DEFINE complete == client[t] = "complete"
<1>1. PICK c \in Associate(cat, t, complete) :
        \E e \in IF complete THEN Finalize(c, t) ELSE {c} : Commit(Disagree(e, t, TRUE))
  BY Zenon DEF PollPresent
<1>2. PICK e \in IF complete THEN Finalize(c, t) ELSE {c} : Commit(Disagree(e, t, TRUE))
  BY <1>1
<1> HIDE DEF complete
<1>3. Good(c) /\ c.maps = cat.maps /\ c.hand = cat.hand
  BY <1>1, AssociateKeeps DEF Committed
<1>4. Kept(cat, c)
  BY <1>3, SameKept
<1>5. Good(e) /\ Kept(c, e)
  <2>1. CASE complete
    <3>1. e \in Finalize(c, t)
      BY <1>2, <2>1
    <3> QED  BY <1>3, <3>1, FinalizeKeeps
  <2>2. CASE ~complete
    <3>1. e = c
      BY <1>2, <2>2
    <3> QED  BY <1>3, <3>1, SameKept
  <2> QED  BY <2>1, <2>2
<1> DEFINE present == TRUE
           d == Disagree(e, t, present)
<1>6. Commit(d) /\ d = Disagree(e, t, present)
  BY <1>2
<1> HIDE DEF present, d
<1>7. Good(d) /\ d.maps = e.maps /\ d.hand = e.hand
  BY <1>5, <1>6, DisagreeKeeps
<1>8. Kept(e, d)
  BY <1>7, SameKept
<1>9. Kept(cat, e)
  BY <1>4, <1>5, KeptTrans
<1>10. Kept(cat, d)
  BY <1>8, <1>9, KeptTrans
<1> QED  BY <1>6, <1>7, <1>10, CommitMoves

(* A poll that misses the torrent cancels it and compares it in one        *)
(* transaction.                                                            *)
LEMMA PollAbsentMoves ==
  ASSUME TypeOK, Committed, NEW t \in Torrent, PollAbsent(t)
  PROVE  Moves
<1>1. CASE t \in tracked
  <2> DEFINE b == Cancel(cat, t)
             present == FALSE
  <2>1. cat' = Disagree(b, t, present)
    BY <1>1 DEF PollAbsent
  <2> HIDE DEF present
  <2>2. Good(b) /\ b.maps = cat.maps /\ b.hand = cat.hand /\ b.full = cat.full
    BY CancelKeeps DEF Committed
  <2> HIDE DEF b
  <2>3. Good(cat') /\ cat'.maps = b.maps /\ cat'.hand = b.hand /\ cat'.full = b.full
    BY <2>1, <2>2, DisagreeKeeps
  <2>4. Kept(cat, cat')
    BY <2>2, <2>3, SameKept
  <2> QED  BY <2>2, <2>3, <2>4, KeptMoves DEF Committed
<1>2. CASE t \notin tracked
  <2>1. cat' = cat
    BY <1>2 DEF PollAbsent
  <2> QED  BY <2>1, QuietMoves DEF TypeOK, Quiet, Same
<1> QED  BY <1>1, <1>2

(* A correction touches the one file that it is about.                     *)
LEMMA CorrectFileMoves ==
  ASSUME Committed, NEW f \in File, CorrectFile(f)
  PROVE  Moves
<1>1. PICK E \in SUBSET Row : CanCorrect(cat, f, E) /\ Commit(Correct(cat, f, E))
  BY Zenon DEF CorrectFile
<1> DEFINE c == Correct(cat, f, E)
<1>2. E # {}
  BY <1>1 DEF CanCorrect
<1>3. /\ Good(c) /\ c.hand = cat.hand \cup {f}
      /\ \A g \in File \ {f} : c.maps[g] = cat.maps[g]
  BY <1>2, CorrectKeeps DEF Committed
<1>4. Commit(c)
  BY <1>1
<1> HIDE DEF c
<1>5. ~c.full /\ cat' = Tidy(c)
  BY <1>4, Zenon DEF Commit, Tidy
<1>6. Good(cat') /\ cat'.full = FALSE /\ cat'.maps = c.maps /\ cat'.hand = c.hand
  BY <1>3, <1>5, CommitKeeps
<1>7. cat.hand \subseteq File
  BY DEF Committed, Good, Catalogue
<1>8. \A g \in cat.hand : g # f => g \in cat'.hand /\ cat'.maps[g] = cat.maps[g]
  BY <1>3, <1>6, <1>7
<1>9. \A g \in cat.hand : ~CorrectFile(g) => g # f
  OBVIOUS
<1> QED  BY <1>6, <1>8, <1>9 DEF Moves, Committed

(* The recheck of a duplicate Problem moves the catalogue so.              *)
LEMMA RecheckMoves ==
  ASSUME Committed, NEW e \in Row, Recheck(e)
  PROVE  Moves
<1> DEFINE E == {e}
<1>1. cat' = RefreshDuplicates(cat, E) /\ E \in SUBSET Row
  BY DEF Recheck
<1> HIDE DEF E
<1>2. cat \in Catalogue /\ Sound(cat, {}, {}) /\ cat.full = FALSE
  BY DEF Committed, Good
<1>3. Copies(cat, E)
  BY <1>2 DEF Sound, Copies
<1>4. /\ cat' \in Catalogue /\ Copies(cat', {})
      /\ cat'.row = cat.row /\ cat'.file = cat.file /\ cat'.maps = cat.maps
      /\ cat'.hand = cat.hand /\ cat'.full = cat.full /\ cat'.release = cat.release
      /\ cat'.link = cat.link
  BY <1>1, <1>2, <1>3, RefreshDuplicatesIs
<1>5. Present(cat', {}) /\ Apart(cat') /\ Gone(cat', {})
  <2>1. Present(cat', {})
    BY <1>2, <1>4, Zenon DEF Sound, Present
  <2>2. Apart(cat')
    BY <1>2, <1>4, Zenon DEF Sound, Apart
  <2>3. Gone(cat', {})
    BY <1>2, <1>4 DEF Sound, Gone
  <2> QED  BY <2>1, <2>2, <2>3
<1>6. Good(cat') /\ cat'.full = FALSE
  BY <1>2, <1>4, <1>5 DEF Good, Sound
<1> QED  BY <1>4, <1>6, SameKept, KeptMoves

(* Every step moves the catalogue so, *)
LEMMA NextMoves ==
  ASSUME IInv, [Next]_vars
  PROVE  Moves
<1>1. /\ Committed /\ TypeOK /\ Good(cat) /\ cat.full = FALSE /\ cat \in Catalogue
      /\ None \in Torrent \cup {None}
  BY DEF IInv, Committed, TypeOK
<1>2. CASE cat' = cat
  BY <1>1, <1>2, QuietMoves DEF Quiet, Same
<1>3. CASE World \/ ScanStops
  <2>1. cat' = cat
    BY <1>3 DEF World, ScanStops, FileChanges, DirectoryVanishes, ClientChanges
  <2> QED  BY <1>2, <2>1
<1>4. CASE ScanList
  BY <1>1, <1>4, ScanListMoves
<1>5. ASSUME NEW d \in Directory, ScanDirectory(d)
      PROVE  Moves
  <2> DEFINE F == scan.files \cap Inside(d)
             hinted == FALSE
  <2>1. F \in SUBSET File /\ Commit(Pass(cat, d, F, None, None, hinted))
    BY <1>1, <1>5 DEF ScanDirectory, TypeOK
  <2> HIDE DEF F, hinted
  <2> QED  BY <1>1, <2>1, PassMoves
<1>6. ASSUME NEW t \in Torrent, Poll(t)
      PROVE  Moves
  BY <1>1, <1>6, PollPresentMoves, PollAbsentMoves DEF Poll
<1>7. ASSUME NEW f \in File, CorrectFile(f)
      PROVE  Moves
  BY <1>1, <1>7, CorrectFileMoves
<1>8. ASSUME NEW e \in Row, Recheck(e)
      PROVE  Moves
  BY <1>1, <1>8, RecheckMoves
<1>9. ASSUME NEW d \in Synced(cat), cat' = [d EXCEPT !.metadata = FALSE]
      PROVE  Moves
  <2> DEFINE m == FALSE
  <2>1. m \in BOOLEAN /\ cat' = [d EXCEPT !.metadata = m]
    BY <1>9
  <2> HIDE DEF m
  <2> QED  BY <1>1, <1>9, <2>1, SyncedMoves
<1>10. CASE Refresh
  BY <1>9, <1>10 DEF Refresh
<1>11. ASSUME NEW o \in Order, ChooseOrder(o)
       PROVE  Moves
  <2> DEFINE c == [cat EXCEPT !.order = o]
  <2>1. PICK d \in Synced(c) : cat' = d
    BY <1>11 DEF ChooseOrder
  <2>2. c \in Catalogue /\ Quiet(cat, c)
    BY <1>1, <1>11 DEF Catalogue, Quiet, Same
  <2> HIDE DEF c
  <2>3. Good(c) /\ c.maps = cat.maps /\ c.hand = cat.hand /\ c.full = cat.full
    BY <1>1, <2>2, QuietGood
  <2>4. Good(d) /\ d.maps = c.maps /\ d.hand = c.hand /\ d.full = c.full
    BY <2>3, SyncedKeeps
  <2>5. Kept(cat, cat')
    BY <2>1, <2>3, <2>4, SameKept
  <2> QED  BY <1>1, <2>1, <2>3, <2>4, <2>5, KeptMoves
<1>12. ASSUME NEW d \in Directory, Confirm(d)
       PROVE  Moves
  <2>1. cat' = [cat EXCEPT !.unsure = cat.unsure \ {d}] /\ cat.unsure \ {d} \in SUBSET Directory
    BY <1>1, <1>12 DEF Confirm, Catalogue
  <2>2. cat' \in Catalogue /\ Quiet(cat, cat')
    BY <1>1, <2>1 DEF Catalogue, Quiet, Same
  <2> QED  BY <1>1, <2>2, QuietMoves
<1>13. ASSUME NEW d \in Directory, ConfirmSync(d)
       PROVE  Moves
  <2>1. CASE \E c \in Synced(cat) : cat' = [c EXCEPT !.metadata = FALSE]
    BY <1>9, <2>1
  <2>2. CASE cat' = [cat EXCEPT !.metadata = TRUE]
    <3>1. cat' \in Catalogue /\ Quiet(cat, cat')
      BY <1>1, <2>2 DEF Catalogue, Quiet, Same
    <3> QED  BY <1>1, <3>1, QuietMoves
  <2> QED  BY <1>13, <2>1, <2>2 DEF ConfirmSync
<1>14. ASSUME NEW d \in Directory, ConfirmPass(d)
       PROVE  Moves
  <2>1. CASE d \in folders
    <3> DEFINE F == disk \cap Inside(d)
               hinted == TRUE
    <3>1. F \in SUBSET File /\ Commit(Pass(cat, d, F, None, None, hinted))
      BY <1>1, <1>14, <2>1 DEF ConfirmPass, TypeOK
    <3> HIDE DEF F, hinted
    <3> QED  BY <1>1, <3>1, PassMoves
  <2>2. CASE d \notin folders
    <3>1. cat' = [cat EXCEPT !.failed = cat.failed \cup {d}]
          /\ cat.failed \cup {d} \in SUBSET Directory
      BY <1>1, <1>14, <2>2 DEF ConfirmPass, Catalogue
    <3>2. cat' \in Catalogue /\ Quiet(cat, cat')
      BY <1>1, <3>1 DEF Catalogue, Quiet, Same
    <3> QED  BY <1>1, <3>2, QuietMoves
  <2> QED  BY <2>1, <2>2
<1>15. CASE UNCHANGED vars
  BY <1>2, <1>15 DEF vars
<1> QED
  BY <1>3, <1>4, <1>5, <1>6, <1>7, <1>8, <1>10, <1>11, <1>12, <1>13, <1>14, <1>15 DEF Next

(* and all else stays of its type.                                         *)
LEMMA NextTyped ==
  ASSUME IInv, [Next]_vars
  PROVE  TypeOK'
<1>1. TypeOK /\ PlaceAssumption /\ BoundAssumption
  BY PlaceAssumption, BoundAssumption DEF IInv
<1>2. cat' \in Catalogue
  BY NextMoves DEF Moves, Committed, Good
<1> USE <1>1, <1>2 DEF TypeOK
<1>3. CASE UNCHANGED vars
  BY <1>3 DEF vars
<1>4. ASSUME Change
      PROVE  changes' \in 0..MaxChanges
  BY <1>4 DEF Change, BoundAssumption
<1>5. CASE FileChanges
  <2>1. PICK f \in File : disk' = (disk \ {f}) \cup ({f} \ disk) /\ folders' = folders \cup {In[f]}
    BY <1>5 DEF FileChanges
  <2>2. disk' \subseteq File /\ folders' \subseteq Directory
    BY <2>1 DEF PlaceAssumption
  <2> QED  BY <1>4, <1>5, <2>2 DEF FileChanges
<1>6. ASSUME NEW d \in Directory, DirectoryVanishes(d)
      PROVE  TypeOK'
  BY <1>4, <1>6 DEF DirectoryVanishes
<1>7. ASSUME NEW t \in Torrent, ClientChanges(t)
      PROVE  TypeOK'
  <2>1. Members[t] \subseteq File /\ Container[t] \in Directory
    BY DEF PlaceAssumption
  <2> QED  BY <1>4, <1>7, <2>1 DEF ClientChanges
<1>8. CASE ScanList
  BY <1>8 DEF ScanList
<1>9. ASSUME NEW d \in Directory, ScanDirectory(d)
      PROVE  TypeOK'
  BY <1>9 DEF ScanDirectory
<1>10. CASE ScanStops
  BY <1>4, <1>10 DEF ScanStops
<1>11. ASSUME NEW t \in Torrent, Poll(t)
       PROVE  TypeOK'
  <2>1. beat' \in [Torrent -> BOOLEAN]
    BY <1>11 DEF Poll, Beat
  <2> QED  BY <1>11, <2>1 DEF Poll, PollPresent, PollAbsent
<1>12. ASSUME NEW f \in File, CorrectFile(f)
       PROVE  TypeOK'
  BY <1>4, <1>12 DEF CorrectFile
<1>13. ASSUME NEW e \in Row, Recheck(e)
       PROVE  TypeOK'
  BY <1>13 DEF Recheck
<1>14. CASE Refresh
  BY <1>4, <1>14 DEF Refresh
<1>15. ASSUME NEW o \in Order, ChooseOrder(o)
       PROVE  TypeOK'
  BY <1>4, <1>15 DEF ChooseOrder
<1>16. ASSUME NEW d \in Directory, Confirm(d)
       PROVE  TypeOK'
  BY <1>16 DEF Confirm
<1>17. ASSUME NEW d \in Directory, ConfirmSync(d)
       PROVE  TypeOK'
  BY <1>4, <1>17 DEF ConfirmSync
<1>18. ASSUME NEW d \in Directory, ConfirmPass(d)
       PROVE  TypeOK'
  BY <1>18 DEF ConfirmPass
<1> QED
  BY <1>3, <1>5, <1>6, <1>7, <1>8, <1>9, <1>10, <1>11, <1>12, <1>13, <1>14, <1>15, <1>16,
     <1>17, <1>18 DEF Next, World

(* The invariant holds of a Show that was just added, with or without an   *)
(* answer from TMDB.                                                       *)
LEMMA InitIInv == Init => IInv
<1> SUFFICES ASSUME Init PROVE IInv
  OBVIOUS
<1>1. Committed
  <2>1. Blank \in Catalogue /\ Good(Blank) /\ Blank.full = FALSE
    BY BlankGood DEF Good
  <2> DEFINE b == Blank
  <2>2. cat \in Synced(b) \/ cat = [b EXCEPT !.metadata = TRUE]
    BY DEF Init
  <2>3. b \in Catalogue /\ Good(b) /\ b.full = FALSE
    BY <2>1
  <2> HIDE DEF b
  <2>4. CASE cat \in Synced(b)
    BY <2>3, <2>4, SyncedKeeps DEF Committed
  <2>5. CASE cat = [b EXCEPT !.metadata = TRUE]
    <3>1. cat \in Catalogue /\ Quiet(b, cat)
      BY <2>3, <2>5 DEF Catalogue, Quiet, Same
    <3> QED  BY <2>3, <3>1, QuietGood DEF Committed
  <2> QED  BY <2>2, <2>4, <2>5
<1>2. cat \in Catalogue
  BY <1>1 DEF Committed, Good
<1>3. disk \subseteq File
  <2>1. \A t \in Torrent : Members[t] \subseteq File
    BY PlaceAssumption
  <2> QED  BY <2>1 DEF Init
<1>4. folders \subseteq Directory
  BY <1>3, PlaceAssumption DEF Init
<1> QED  BY <1>1, <1>2, <1>3, <1>4, BoundAssumption DEF Init, IInv, TypeOK

(* The invariant holds in every state that scans, polls, refreshes,        *)
(* corrections and confirmed identities reach.                             *)
THEOREM IInvHolds == Spec => []IInv
<1>1. IInv /\ [Next]_vars => IInv'
  BY NextMoves, NextTyped DEF IInv, Moves
<1> QED  BY InitIInv, <1>1, PTL DEF Spec

(* Every variable, the committed catalogue among them, always has its      *)
(* type.                                                                   *)
THEOREM TypeCorrect == Spec => []TypeOK
<1>1. IInv => TypeOK
  BY DEF IInv
<1> QED  BY IInvHolds, <1>1, PTL

(* A row that is called present always has a file that is mapped to it and *)
(* not given up (_refresh_episode_presence ends every transaction that     *)
(* moves a file or a map).                                                 *)
THEOREM PresentRowsHaveFiles == Spec => []PresentHasFile
<1>1. IInv => PresentHasFile
  BY ThereIs DEF IInv, Committed, Good, Sound, Present, PresentHasFile
<1> QED  BY IInvHolds, <1>1, PTL

(* Two rows never stand at one number, though passes invent rows from file *)
(* names and refreshes park and renumber them                              *)
(* (_ensure_episode_for_mapping, sync_show_metadata).                      *)
THEOREM RowsStandApart == Spec => []OneRowPerNumber
<1>1. IInv => OneRowPerNumber
  <2> SUFFICES ASSUME IInv, NEW n \in Slot PROVE Cardinality(RowAt(cat, n)) <= 1
    BY DEF OneRowPerNumber
  <2> DEFINE S == RowAt(cat, n)
  <2>1. \A e, g \in S : e = g
    BY NumberAssumption DEF IInv, Committed, Good, Sound, Apart, RowAt
  <2> HIDE DEF S
  <2>2. CASE S = {}
    BY <2>2, FS_EmptySet DEF S
  <2>3. CASE S # {}
    <3>1. PICK e \in S : TRUE
      BY <2>3
    <3>2. S = {e}
      BY <2>1, <3>1
    <3> QED  BY <3>2, FS_Singleton DEF S
  <2> QED  BY <2>2, <2>3
<1> QED  BY IInvHolds, <1>1, PTL

(* An open duplicate Problem is always about a row that at least two files *)
(* are mapped to (_refresh_episode_duplicate_problem).                     *)
THEOREM DuplicatesHaveCopies == Spec => []DuplicateHasTwoFiles
<1>1. IInv => DuplicateHasTwoFiles
  BY DEF IInv, Committed, Good, Sound, Copies, DuplicateHasTwoFiles
<1> QED  BY IInvHolds, <1>1, PTL

(* A release given up with its download holds no media, and the torrent    *)
(* that gave it up is not attached to it (cancel_incoming_torrent), for    *)
(* any number of torrents.                                                 *)
THEOREM RemovedReleasesAreNowhere == Spec => []RemovedIsNowhere
<1>1. IInv => RemovedIsNowhere
  <2> SUFFICES ASSUME IInv, NEW r \in Release, cat.release[r].state = "removed"
               PROVE  /\ MembersOf(cat, r) = {}
                      /\ \E t \in Torrent : cat.link[t][r] \in {"incoming", "historical"}
    BY DEF RemovedIsNowhere
  <2>1. Gone(cat, {}) /\ ~cat.full
    BY DEF IInv, Committed, Good, Sound
  <2> QED  BY <2>1 DEF Gone, Idle, MembersOf, Releases, Rows
<1> QED  BY IInvHolds, <1>1, PTL

(* No step but another correction of the file changes what was mapped by   *)
(* hand: not a pass, a renumbering or a finished download                  *)
(* (reconcile_show_directory skips such files).                            *)
THEOREM ManualMappingsStand == Spec => HandMapsStand
<1>1. IInv /\ [Next]_vars =>
        [\A f \in cat.hand : ~CorrectFile(f) => f \in cat'.hand /\ cat'.maps[f] = cat.maps[f]]_vars
  BY NextMoves DEF Moves
<1> QED  BY IInvHolds, <1>1, PTL DEF Spec, HandMapsStand
==============================================================================

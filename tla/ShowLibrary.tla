----------------------------- MODULE ShowLibrary -----------------------------
(***************************************************************************)
(* The catalogue of one Show: its episode rows, the media files mapped to  *)
(* them, the releases the files came with, the torrents of those and the   *)
(* Problems about all of them.  Scans of the root, polls of the client,    *)
(* refreshes from TMDB, corrections by hand and confirmed identities write *)
(* it while disk, client and TMDB change on their own.                     *)
(*                                                                         *)
(* A catalogue is a record, and each service function an operator from a   *)
(* catalogue to the one it leaves.  A step is a committed transaction: one *)
(* directory of a scan, one torrent of a poll, one refresh.                *)
(***************************************************************************)
EXTENDS Naturals, FiniteSets, FiniteSetsExt

CONSTANTS
  Slot,        \* <<season, episode>> numbers in play
  Directory,   \* top-level directories of the root
  File, In,    \* In[f]: the directory of file f
  Bare,        \* files whose season comes from a folder, not from their name
  Torrent,
  Container,   \* Container[t]: the directory torrent t downloads to
  Members,     \* Members[t]: its files
  Says,        \* Says[x]: seasons and numbers read from the name of x
  Unresolved,  \* directories whose name TMDB cannot identify
  Title,       \* episodes by TMDB id
  Order,       \* episode orderings the administrator may choose
  Place,       \* Place[o][i]: the number of title i in ordering o, or Nowhere
  Default,     \* the ordering TMDB uses without an episode group
  MaxLocal,    \* bound: rows invented from file names
  MaxRelease,  \* bound: releases that something refers to
  Grace,       \* StorageRoot.missing_grace_checks
  MaxChanges   \* bound: changes from outside and interrupted scans

None == 0
Nowhere == <<0, 0>>  \* no number: the row does not exist, or the ordering lacks it
Season == {n[1] : n \in Slot}
Local == 1..MaxLocal
Row == Title \cup Local
Release == 1..MaxRelease
Name == File \cup Directory \cup Torrent

ASSUME NameAssumption ==
  /\ Says \in [Name -> [seasons : SUBSET Season, numbers : SUBSET Slot]]
  /\ \A x \in File \cup Directory :
       /\ Cardinality(Says[x].seasons) <= 1
       /\ \A n \in Says[x].numbers : n[1] \in Says[x].seasons
ASSUME PlaceAssumption ==
  /\ In \in [File -> Directory] /\ Container \in [Torrent -> Directory]
  /\ Members \in [Torrent -> SUBSET File]
  /\ \A t \in Torrent : \A f \in Members[t] : In[f] = Container[t]
  /\ Default \in Order
  /\ \A o \in Order : Place[o] \in [Title -> Slot \cup {Nowhere}]

(* "The mapping is injective" (sync_show_metadata): an ordering that told  *)
(* two episodes at one number would break uq_episodes_show_season_number,  *)
(* and the refresh that brings it is rolled back.                          *)
ASSUME NumberAssumption ==
  /\ Nowhere \notin Slot
  /\ \A o \in Order : \A i, j \in Title :
       Place[o][i] = Place[o][j] /\ Place[o][i] # Nowhere => i = j
ASSUME BoundAssumption ==
  /\ IsFiniteSet(File) /\ IsFiniteSet(Title)
  /\ MaxLocal \in Nat /\ MaxRelease \in Nat \ {0} /\ MaxChanges \in Nat

ClientState == {"absent", "downloading", "complete"}
Link == {"none", "incoming", "attached", "historical"}

(***************************************************************************)
(* A row that gave up its number keeps it in `number`, with the times it   *)
(* was parked in `parked`: only rows with parked = 0 stand.  missed = 0    *)
(* says that missing_since is null.  hand: files mapped by hand.  The      *)
(* fields from `duplicate` on are the subjects of OPEN Problems:           *)
(* DUPLICATE_EPISODE_RELEASE of rows, EPISODE_MAPPING_UNRESOLVED and       *)
(* EPISODE_CONTAINER_MISMATCH of files, TMDB_SHOW_IDENTITY_UNRESOLVED and  *)
(* SHOW_DIRECTORY_RECONCILIATION_FAILED of directories,                    *)
(* TORRENT_PATH_NOT_FOUND of torrents, TORRENT_REMOVED_EXTERNALLY of       *)
(* releases and TMDB_SHOW_METADATA_UNAVAILABLE of the Show.  full: a bound *)
(* is reached; no transaction commits that.                                *)
(***************************************************************************)
Catalogue ==
  [row       : [Row -> [number : Slot \cup {Nowhere}, parked : Nat,
                        season : Season \cup {None}, present : BOOLEAN]],
   expected  : [Season -> Nat],
   order     : Order,
   directory : [Directory -> [exists : BOOLEAN, missed : Nat,
                              release : Release \cup {None}]],
   file      : [File -> [status : {"unknown", "there", "gone"}, missed : Nat]],
   maps      : [File -> [Row -> Release \cup {None}]],
   hand      : SUBSET File,
   full      : BOOLEAN,
   release   : [Release -> [state : {"unused", "current", "missing", "removed"},
                            scope : {"pack", "own"}, season : Season \cup {None},
                            name : Name \cup {None}]],
   link      : [Torrent -> [Release -> Link]],
   duplicate : SUBSET Row,
   unmapped  : SUBSET File,
   mismatch  : SUBSET File,
   unsure    : SUBSET Directory,
   failed    : SUBSET Directory,
   lost      : SUBSET Torrent,
   removed   : SUBSET Release,
   metadata  : BOOLEAN]

VARIABLES
  disk,     \* media files that really exist
  folders,  \* directories that really exist
  client,   \* client[t]: what qBittorrent would report of t
  cat,      \* the committed catalogue
  scan,     \* what the scan saw, and the directories it has still to reconcile
  confirm,  \* confirm[d]: the Job that follows a confirmed identity of d
  tracked,  \* torrents whose client observation says is_present
  beat,     \* beat[t]: observer that turns at every poll of t
  changes

vars == <<disk, folders, client, cat, scan, confirm, tracked, beat, changes>>

TypeOK ==
  /\ disk \subseteq File
  /\ folders \subseteq Directory
  /\ client \in [Torrent -> ClientState]
  /\ cat \in Catalogue
  /\ scan \in [files : SUBSET File, todo : SUBSET Directory]
  /\ confirm \in [Directory -> {"no", "queued", "synced"}]
  /\ tracked \subseteq Torrent
  /\ beat \in [Torrent -> BOOLEAN]
  /\ changes \in 0..MaxChanges

-----------------------------------------------------------------------------
(* What a catalogue says                                                   *)

Rows(c, f) == {e \in Row : c.maps[f][e] # None}
Releases(c, f) == {c.maps[f][e] : e \in Rows(c, f)}
Holders(c, e) == {f \in File : c.maps[f][e] # None}
MembersOf(c, r) == {f \in File : r \in Releases(c, f)}
There(c, F) == {f \in F : c.file[f].status = "there"}
Known(c, d) == {f \in File : In[f] = d /\ c.file[f].status # "unknown"}
RowAt(c, n) == {e \in Row : c.row[e].number = n /\ c.row[e].parked = 0}
Linked(c, t, L) == {r \in Release : c.link[t][r] \in L}

(* The name alone: a bare file name tells neither season nor episode. *)
Identity(x) == IF x \in Bare THEN [seasons |-> {}, numbers |-> {}] ELSE Says[x]

(* _refresh_episode_duplicate_problem: copies that stand on the disk now. *)
Verified(c, e) ==
  {f \in There(c, Holders(c, e)) \cap disk :
     /\ c.file[f].missed = 0
     /\ c.directory[In[f]].exists /\ c.directory[In[f]].missed = 0}
RefreshFromThree(c, E) ==
  [c EXCEPT !.duplicate = (@ \ E) \cup {e \in E : Cardinality(Verified(c, e)) > 2}]

RefreshDuplicates(c, E) ==
  [c EXCEPT !.duplicate = (@ \ E) \cup {e \in E : Cardinality(Verified(c, e)) > 1}]

(* _refresh_episode_presence, which refreshes the duplicate Problem too *)
RefreshRows(c, E) ==
  RefreshDuplicates(
    [c EXCEPT !.row = [e \in Row |->
       IF e \in E THEN [@[e] EXCEPT !.present = There(c, Holders(c, e)) # {}]
       ELSE @[e]]], E)

RefreshReleases(c, R) ==
  [c EXCEPT !.release = [r \in Release |->
     IF r \in R
     THEN [@[r] EXCEPT !.state = IF There(c, MembersOf(c, r)) # {} THEN "current"
                                 ELSE "missing"]
     ELSE @[r]]]

(* _release_matches_member_identity *)
Matches(c, r, s, numbers) ==
  LET id == Identity(c.release[r].name)
  IN  /\ c.release[r].season = s
      /\ id.seasons \in {{}, {s}}
      /\ id.numbers \in {{}, numbers}

(* A release that no map, link or directory refers to is never read again: *)
(* its id stands for that of the next new one.                             *)
Referred(c) ==
  (UNION {Releases(c, f) : f \in File})
    \cup (UNION {Linked(c, t, Link \ {"none"}) : t \in Torrent})
    \cup {c.directory[d].release : d \in Directory}
Fresh(c) == Min((Release \cup {MaxRelease + 1}) \ Referred(c))

New(c, state, scope, s, name) ==
  IF Fresh(c) > MaxRelease THEN [c EXCEPT !.full = TRUE]
  ELSE [c EXCEPT !.release[Fresh(c)] =
          [state |-> state, scope |-> scope, season |-> s, name |-> name]]

(* _prepare_show_release: of an existing release, or of a new one *)
Prepared(c, r) == IF r = None THEN Min({Fresh(c), MaxRelease}) ELSE r

Prepare(c, r, scope, s, name) ==
  IF r = None THEN New(c, "current", scope, s, name)
  ELSE [c EXCEPT !.release[r] = [@ EXCEPT !.state = "current", !.scope = scope,
                                          !.season = s]]

Attach(c, t, r) ==
  [c EXCEPT !.link = [u \in Torrent |-> [q \in Release |->
     IF u = t /\ q = r THEN "attached" ELSE @[u][q]]]]

-----------------------------------------------------------------------------
(* reconcile_show_directory: directory d with the media files F, for the   *)
(* torrent t or None, whose incoming release is q or None                  *)

(* The name that says which season the files belong to. *)
Labels(d, t) ==
  IF t # None /\ Says[t].seasons # {} THEN {t} ELSE {x \in {d} : Says[x].seasons # {}}

Belongs(f, t) == t = None \/ f \in Members[t]

Mismatch(f, d, t) ==
  /\ Belongs(f, t)
  /\ Identity(f).seasons # {}
  /\ \E x \in Labels(d, t) :
       \/ Says[x].seasons \cap Says[f].seasons = {}
       \/ /\ Says[x].seasons = Says[f].seasons
          /\ Says[x].numbers # {}
          /\ ~(Says[f].numbers \subseteq Says[x].numbers)

(* The name of a season pack: of the torrent, or of a folder that holds at *)
(* least two episodes of its season.                                       *)
PackNames(d, t, F) ==
  LET NamesPack(x) == Cardinality(Says[x].seasons) = 1 /\ Says[x].numbers = {}
      Episodes(x) ==
        {f \in F : Identity(f).seasons = Says[x].seasons /\ Identity(f).numbers # {}}
  IN  IF t # None /\ NamesPack(t) THEN {t}
      ELSE {x \in {d} : NamesPack(x) /\ (t # None \/ Cardinality(Episodes(x)) >= 2)}

SeasonNamed(x) == CHOOSE s \in Says[x].seasons : TRUE

(* The catalogue with the pack prepared, bound and linked, and the pack. *)
WithPack(c, d, t, F, q) ==
  LET names == PackNames(d, t, F)
      s == SeasonNamed(CHOOSE x \in names : TRUE)
      Fits(r) == r # None /\ c.release[r].scope = "pack" /\ Matches(c, r, s, {})
      existing == IF Fits(q) THEN q
                  ELSE IF Fits(c.directory[d].release) THEN c.directory[d].release
                  ELSE None
      pack == Prepared(c, existing)
      prepared == Prepare(c, existing, "pack", s, IF t # None THEN t ELSE d)
      bound == IF Says[d] = [seasons |-> {s}, numbers |-> {}]
               THEN [prepared EXCEPT !.directory[d].release = pack] ELSE prepared
  IN  IF names = {} THEN [c |-> c, pack |-> None, season |-> None]
      ELSE [c |-> IF t = None THEN bound ELSE Attach(bound, t, pack),
            pack |-> pack, season |-> s]

(* Files that the directory no longer shows have the grace of the root. *)
CountMissing(c, d, F) ==
  LET lacking == {f \in There(c, Known(c, d)) : f \notin F}
      dropped == {f \in lacking : c.file[f].missed >= 1 /\ c.file[f].missed + 1 >= Grace}
      back == {f \in Known(c, d) \cap F : c.file[f].status = "gone"}
  IN  [c |-> [c EXCEPT
         !.file = [f \in File |->
           IF f \notin lacking THEN @[f]
           ELSE [status |-> IF f \in dropped THEN "gone" ELSE "there",
                 missed |-> @[f].missed + 1]],
         !.mismatch = @ \ (Known(c, d) \ F)],
       rows |-> UNION {Rows(c, f) : f \in dropped \cup back},
       releases |-> UNION {Releases(c, f) : f \in dropped}]

(* _ensure_episode_for_mapping for the numbers N of season s: a missing    *)
(* row is invented while the season is not known to be complete.           *)
Invent(c, s, N) ==
  LET missing == {n \in N : RowAt(c, n) = {}}
      rows == {e \in Row : c.row[e].number # Nowhere /\ c.row[e].season = s}
      Rank(n) == Cardinality({m \in missing : m[2] <= n[2]})
      invented == {n \in missing : \/ c.expected[s] = 0
                                   \/ Cardinality(rows) + Rank(n) <= c.expected[s]}
      Next(n) == Cardinality({i \in Local : c.row[i].number # Nowhere}) + Rank(n)
  IN  IF \E n \in invented : Next(n) > MaxLocal THEN [c EXCEPT !.full = TRUE]
      ELSE [c EXCEPT !.row = [e \in Row |->
        IF \E n \in invented : Next(n) = e
        THEN [number |-> CHOOSE n \in invented : Next(n) = e, parked |-> 0,
              season |-> s, present |-> FALSE]
        ELSE @[e]]]

(* The release of a file that its pack does not claim: the only one it has *)
(* if that fits its name, else the incoming one if that names it exactly.  *)
OwnRelease(c, f, s, q) ==
  LET old == {r \in Releases(c, f) :
                Releases(c, f) = {r} /\ Matches(c, r, s, Says[f].numbers)}
      incoming == {r \in {q} \ {None} :
                     Says[c.release[r].name] = [seasons |-> {s}, numbers |-> Says[f].numbers]}
  IN  CHOOSE r \in Release \cup {None} :
        IF old # {} THEN r \in old ELSE IF incoming # {} THEN r \in incoming ELSE r = None
MapRowsKeepsStale(a, e, f, release) ==
  LET at == UNION {RowAt(e, n) : n \in Says[f].numbers}
  IN  [c |-> [e EXCEPT !.maps = [@ EXCEPT ![f] = [r \in Row |-> IF r \in at THEN release ELSE e.maps[f][r]]]],
       rows |-> a.rows \cup at, releases |-> a.releases \cup {release}]

(* The maps of a file onto the rows at its numbers, in the catalogue e that *)
(* has them all, or some of them unresolved.                               *)
MapRows(a, e, f, release) ==
  LET at == UNION {RowAt(e, n) : n \in Says[f].numbers}
      complete == \A n \in Says[f].numbers : RowAt(e, n) # {}
      stale == {r \in Rows(a.c, f) \ at : complete}
  IN  [c |-> [e EXCEPT
         !.maps = [g \in File |-> [r \in Row |->
            IF g # f THEN @[g][r]
            ELSE IF r \in at THEN release ELSE IF r \in stale THEN None ELSE @[g][r]]],
         !.unmapped = IF complete THEN @ \ {f} ELSE @ \cup {f}],
       rows |-> a.rows \cup at \cup stale,
       releases |-> a.releases \cup {release} \cup {a.c.maps[f][r] : r \in stale}]

(* The release of a file whose own one is `own`: its pack, if it claims it. *)
MapInto(a, f, t, pack, q, s, claimed, own) ==
  LET kept == claimed \/ (own # None /\ a.c.release[own].scope = "pack")
      release == IF claimed THEN pack ELSE Prepared(a.c, own)
      prepared == IF kept THEN a.c ELSE Prepare(a.c, own, "own", s, f)
  IN  MapRows(a, Invent(IF t # None /\ ~claimed /\ release = q THEN Attach(prepared, t, q)
                        ELSE prepared, s, Says[f].numbers), f, release)

(* A parsed file: its release, its rows, and its maps onto them.           *)
MapFile(a, f, d, t, pack, q) ==
  LET s == (CHOOSE n \in Says[f].numbers : TRUE)[1]
  IN  MapInto(a, f, t, pack.pack, q, s,
              pack.pack # None /\ s = pack.season /\ ~Mismatch(f, d, t) /\ Belongs(f, t),
              OwnRelease(a.c, f, s, q))

PassRemaps(a, f, d, t, pack, q) ==
  IF Says[f].numbers = {} THEN [a EXCEPT !.c.unmapped = @ \cup {f}]
  ELSE MapFile([a EXCEPT !.c.file[f] = [status |-> "there", missed |-> 0]], f, d, t, pack, q)

(* One file that was seen; a map made by hand is left alone.               *)
PassFile(a, f, d, t, pack, q) ==
  LET c == [a.c EXCEPT
        !.file[f] = [status |-> "there", missed |-> 0],
        !.mismatch = IF Mismatch(f, d, t) THEN @ \cup {f} ELSE @ \ {f}]
  IN  IF f \in c.hand
      THEN [c |-> [c EXCEPT !.unmapped = @ \ {f}],
            rows |-> a.rows \cup Rows(c, f), releases |-> a.releases \cup Releases(c, f)]
      ELSE IF Says[f].numbers = {} THEN [a EXCEPT !.c = [c EXCEPT !.unmapped = @ \cup {f}]]
      ELSE MapFile([a EXCEPT !.c = c], f, d, t, pack, q)

(* The Show is known from the torrent, the confirmation or earlier maps,   *)
(* else from the name of the directory.                                    *)
Identified(c, d, hinted) ==
  hinted \/ d \notin Unresolved \/ \E f \in Known(c, d) : Rows(c, f) # {}

(* After the files of d: the rows and releases they touched. *)
Settled(a, d) ==
  [RefreshRows(RefreshReleases(a.c, a.releases), a.rows) EXCEPT !.failed = @ \ {d}]

PassFiles(pack, d, F, t, q) ==
  FoldSet(LAMBDA f, b : PassFile(b, f, d, t, pack, q), CountMissing(pack.c, d, F), F)

Pass(c, d, F, t, q, hinted) ==
  LET here == [c EXCEPT !.directory[d].exists = TRUE, !.directory[d].missed = 0]
  IN  IF ~Identified(c, d, hinted) THEN [here EXCEPT !.unsure = @ \cup {d}]
      ELSE Settled(PassFiles(WithPack([here EXCEPT !.unsure = @ \ {d}], d, t, F, q), d, F, t, q), d)

Inside(d) == {f \in File : In[f] = d}

-----------------------------------------------------------------------------
(* mark_absent_show_directories: the grace of whole directories            *)
MarkAbsentKeepsRows(c, seen) ==
  LET dropped == {d \in Directory \ seen : c.directory[d].missed >= 1
                                           /\ c.directory[d].missed + 1 >= Grace}
  IN  [c EXCEPT
        !.directory = [d \in Directory |->
           IF d \in Directory \ seen /\ @[d].exists
           THEN [@[d] EXCEPT !.exists = d \notin dropped, !.missed = @ + 1] ELSE @[d]],
        !.file = [f \in File |-> IF In[f] \in dropped THEN [@[f] EXCEPT !.status = "gone"]
                                 ELSE @[f]]]

MarkAbsent(c, seen) ==
  LET lacking == {d \in Directory \ seen : c.directory[d].exists}
      dropped == {d \in lacking : c.directory[d].missed >= 1 /\ c.directory[d].missed + 1 >= Grace}
      lost == {f \in File : In[f] \in dropped /\ c.file[f].status # "unknown"}
      rows == UNION {Rows(c, f) : f \in lost}
      releases == UNION {Releases(c, f) : f \in lost}
  IN  [c EXCEPT
        !.directory = [d \in Directory |->
           IF d \in lacking
           THEN [@[d] EXCEPT !.exists = d \notin dropped,
                             !.missed = c.directory[d].missed + 1]
           ELSE IF d \in seen /\ @[d].missed > 0
           THEN [@[d] EXCEPT !.exists = TRUE, !.missed = 0]
           ELSE @[d]],
        !.file = [f \in File |-> IF f \in lost THEN [@[f] EXCEPT !.status = "gone"]
                                 ELSE @[f]],
        !.mismatch = {f \in @ : In[f] \in seen},
        !.row = [e \in Row |-> IF e \in rows THEN [@[e] EXCEPT !.present = FALSE] ELSE @[e]],
        !.release = [r \in Release |-> IF r \in releases THEN [@[r] EXCEPT !.state = "missing"]
                                       ELSE @[r]]]

-----------------------------------------------------------------------------
(* set_media_file_episode_mappings: file f is the rows E, by hand          *)

CanCorrect(c, f, E) ==
  /\ c.file[f].status # "unknown"
  /\ E # {}
  /\ \A e \in E : c.row[e].number # Nowhere
  /\ \A e, g \in E : /\ c.row[e].parked = c.row[g].parked
                     /\ c.row[e].number[1] = c.row[g].number[1]
CorrectForgetsOld(c, f, E) ==
  LET prepared == Prepare(c, None, "own", c.row[CHOOSE e \in E : TRUE].season, f)
      mapped == [prepared EXCEPT
        !.maps[f] = [e \in Row |-> IF e \in E THEN Prepared(c, None) ELSE None],
        !.hand = @ \cup {f}, !.unmapped = @ \ {f}]
  IN  RefreshRows(mapped, E)

Correct(c, f, E) ==
  LET old == Releases(c, f)
      kept == IF Cardinality(old) = 1 THEN CHOOSE r \in old : TRUE ELSE None
      release == Prepared(c, kept)
      prepared == IF kept # None THEN c
                  ELSE Prepare(c, None, "own", c.row[CHOOSE e \in E : TRUE].season, f)
      mapped == [prepared EXCEPT
        !.maps[f] = [e \in Row |-> IF e \in E THEN release ELSE None],
        !.hand = @ \cup {f},
        !.unmapped = @ \ {f}]
  IN  RefreshRows(mapped, Rows(c, f) \cup E)

-----------------------------------------------------------------------------
(* sync_show_metadata: every row is parked, then each title that TMDB      *)
(* tells takes its number.  `order` is the plan followed and U the seasons *)
(* whose episodes could not be fetched.                                    *)

Planned(order) == {Place[order][i][1] : i \in {j \in Title : Place[order][j] # Nowhere}}
Titles(order, s) == {i \in Title : Place[order][i] # Nowhere /\ Place[order][i][1] = s}
SyncParksTitles(c, order, U) ==
  LET told == UNION {Titles(order, s) : s \in Planned(order) \ U}
  IN  [c EXCEPT !.row = [e \in Row |->
        IF e \in told THEN [@[e] EXCEPT !.number = Place[order][e], !.parked = 0,
                                        !.season = Place[order][e][1]]
        ELSE IF e \in Local \/ @[e].number = Nowhere THEN @[e]
        ELSE [@[e] EXCEPT !.parked = @ + 1]]]

Sync(c, order, U) ==
  LET told == UNION {Titles(order, s) : s \in Planned(order) \ U}
      rows == [e \in Row |->
        IF e \in told
        THEN [c.row[e] EXCEPT !.number = Place[order][e], !.parked = 0,
                              !.season = Place[order][e][1]]
        ELSE IF c.row[e].number = Nowhere THEN c.row[e]
        ELSE [c.row[e] EXCEPT !.parked = @ + 1]]
      dropped == {s \in Season \ Planned(order) :
                    \A e \in Row : rows[e].number # Nowhere => rows[e].season # s}
  IN  [c EXCEPT !.row = rows,
                !.expected = [s \in Season |->
                  IF s \in Planned(order) THEN Cardinality(Titles(order, s))
                  ELSE IF s \in dropped THEN 0 ELSE @[s]]]

(* Rows are parked one UPDATE at a time, in the order of their ids: one    *)
(* that is parked where another still lies breaks the unique constraint.   *)
Clash(c) ==
  \E e, g \in Row : /\ c.row[e].number = c.row[g].number /\ c.row[e].number # Nowhere
                    /\ c.row[g].parked = c.row[e].parked + 1

(* What a sync may leave: an unreachable group falls back on the default,  *)
(* and only the seasons of the default are fetched one by one.             *)
Synced(c) ==
  {Sync(c, c.order, {})} \cup {Sync(c, Default, U) : U \in SUBSET Planned(Default)}

-----------------------------------------------------------------------------
(* The torrents of the Show                                                *)

(* associate_incoming_torrent: one season, else its files must wait for a  *)
(* scan; of several links the query returns any.                           *)
Associate(c, t, complete) ==
  LET links == Linked(c, t, Link \ {"none"})
      new == Prepared(c, None)
      scope == IF Says[t].numbers = {} THEN "pack" ELSE "own"
  IN  IF Cardinality(Says[t].seasons) # 1 THEN {c}
      ELSE IF links = {}
      THEN {[New(c, "missing", scope, SeasonNamed(t), t) EXCEPT
        !.link = [u \in Torrent |-> [r \in Release |->
          IF u = t /\ r = new THEN "incoming" ELSE @[u][r]]]]}
      ELSE {IF c.link[t][r] = "attached" \/ complete THEN c
            ELSE [c EXCEPT !.link[t][r] = "incoming"] : r \in links}

(* _finalize_completed_show_torrent: a pass over the container, for the    *)
(* newest incoming release (ids do not tell which one that is).            *)
Finalize(c, t) ==
  LET d == Container[t]
      incoming == Linked(c, t, {"incoming"})
  IN  IF Members[t] \cap disk = {} THEN {[c EXCEPT !.lost = @ \cup {t}]}
      ELSE {[Pass(c, d, disk \cap Inside(d), t, q, TRUE) EXCEPT !.lost = @ \ {t}] :
              q \in IF incoming = {} THEN {None} ELSE incoming}

(* reconcile_torrent_disagreements, its part on Shows *)
Disagree(c, t, present) ==
  LET bare == {r \in Linked(c, t, {"attached"}) : There(c, MembersOf(c, r)) = {}}
      settled == Linked(c, t, {"historical"}) \cup bare
      standing == Linked(c, t, {"attached"}) \ bare
  IN  [c EXCEPT
        !.link = [u \in Torrent |-> [r \in Release |->
           IF u = t /\ r \in bare THEN "historical" ELSE @[u][r]]],
        !.removed = IF present THEN @ \ (settled \cup standing)
                    ELSE (@ \ settled) \cup standing]
CancelSaysCancelled(c, t) ==
  [c EXCEPT !.release = [r \in Release |->
     IF c.link[t][r] = "incoming" /\ MembersOf(c, r) = {} THEN [@[r] EXCEPT !.state = "cancelled"]
     ELSE @[r]]]

CancelRemovesAny(c, t) ==
  LET incoming == Linked(c, t, {"incoming"})
  IN  [c EXCEPT
        !.link[t] = [r \in Release |-> IF r \in incoming THEN "historical" ELSE @[r]],
        !.release = [r \in Release |->
           IF r \in incoming THEN [@[r] EXCEPT !.state = "removed"] ELSE @[r]]]

(* cancel_incoming_torrent, its part on Shows *)
Cancel(c, t) ==
  LET incoming == Linked(c, t, {"incoming"})
  IN  [c EXCEPT
        !.link = [u \in Torrent |-> [r \in Release |->
           IF u = t /\ r \in incoming THEN "historical" ELSE @[u][r]]],
        !.release = [r \in Release |->
           IF r \in incoming /\ MembersOf(c, r) = {} THEN [@[r] EXCEPT !.state = "removed"]
           ELSE @[r]]]

-----------------------------------------------------------------------------
(* A Show added from TMDB, or discovered while TMDB had no answer, beside  *)
(* a client that is already at work                                        *)

Blank ==
  [row |-> [e \in Row |-> [number |-> Nowhere, parked |-> 0, season |-> None, present |-> FALSE]],
   expected |-> [s \in Season |-> 0],
   order |-> Default,
   directory |-> [d \in Directory |-> [exists |-> FALSE, missed |-> 0, release |-> None]],
   file |-> [f \in File |-> [status |-> "unknown", missed |-> 0]],
   maps |-> [f \in File |-> [e \in Row |-> None]],
   hand |-> {}, full |-> FALSE,
   release |-> [r \in Release |-> [state |-> "unused", scope |-> "own",
                                   season |-> None, name |-> None]],
   link |-> [t \in Torrent |-> [r \in Release |-> "none"]],
   duplicate |-> {}, unmapped |-> {}, mismatch |-> {}, unsure |-> {}, failed |-> {},
   lost |-> {}, removed |-> {}, metadata |-> FALSE]

Init ==
  /\ client \in [Torrent -> ClientState]
  /\ disk = UNION {Members[t] : t \in {u \in Torrent : client[u] = "complete"}}
  /\ folders = {In[f] : f \in disk}
  /\ cat \in Synced(Blank) \cup {[Blank EXCEPT !.metadata = TRUE]}
  /\ scan = [files |-> {}, todo |-> {}]
  /\ confirm = [d \in Directory |-> "no"]
  /\ tracked = {}
  /\ beat = [t \in Torrent |-> FALSE]
  /\ changes = 0

Change ==
  /\ changes < MaxChanges
  /\ changes' = changes + 1

(* Bound: a transaction that would need more rows or releases than there   *)
(* are is not taken.                                                       *)
Commit(c) ==
  /\ ~c.full
  /\ cat' = [c EXCEPT !.release = [r \in Release |->
               IF r \in Referred(c) THEN @[r] ELSE Blank.release[r]]]

FileChanges ==
  /\ Change
  /\ \E f \in File :
       /\ disk' = (disk \ {f}) \cup ({f} \ disk)
       /\ folders' = folders \cup {In[f]}
  /\ UNCHANGED <<client, cat, scan, confirm, tracked, beat>>

DirectoryVanishes(d) ==
  /\ Change
  /\ d \in folders
  /\ folders' = folders \ {d}
  /\ disk' = disk \ Inside(d)
  /\ UNCHANGED <<client, cat, scan, confirm, tracked, beat>>

(* A download that completes has brought its files. *)
ClientChanges(t) ==
  /\ Change
  /\ \E s \in ClientState \ {client[t]} :
       /\ client' = [client EXCEPT ![t] = s]
       /\ disk' = IF s = "complete" THEN disk \cup Members[t] ELSE disk
       /\ folders' = IF s = "complete" THEN folders \cup {Container[t]} ELSE folders
  /\ UNCHANGED <<cat, scan, confirm, tracked, beat>>

(* The scan lists the root and commits what is absent, *)
ScanList ==
  /\ scan.todo = {}
  /\ cat' = MarkAbsent(cat, folders)
  /\ scan' = [files |-> disk, todo |-> folders]
  /\ UNCHANGED <<disk, folders, client, confirm, tracked, beat, changes>>

(* then reconciles each directory as it was when it was listed. *)
ScanDirectory(d) ==
  /\ d \in scan.todo
  /\ Commit(Pass(cat, d, scan.files \cap Inside(d), None, None, FALSE))
  /\ scan' = [scan EXCEPT !.todo = @ \ {d},
                         !.files = IF scan.todo = {d} THEN {} ELSE @ \ Inside(d)]
  /\ UNCHANGED <<disk, folders, client, confirm, tracked, beat, changes>>

ScanStops ==
  /\ Change
  /\ scan.todo # {}
  /\ scan' = [files |-> {}, todo |-> {}]
  /\ UNCHANGED <<disk, folders, client, cat, confirm, tracked, beat>>

PollPresent(t) ==
  /\ client[t] # "absent"
  /\ \E c \in Associate(cat, t, client[t] = "complete") :
       \E e \in IF client[t] = "complete" THEN Finalize(c, t) ELSE {c} :
         Commit(Disagree(e, t, TRUE))
  /\ tracked' = tracked \cup {t}
  /\ UNCHANGED <<disk, folders, client, scan, confirm, changes>>

PollAbsent(t) ==
  /\ client[t] = "absent"
  /\ cat' = IF t \in tracked THEN Disagree(Cancel(cat, t), t, FALSE) ELSE cat
  /\ tracked' = tracked \ {t}
  /\ UNCHANGED <<disk, folders, client, scan, confirm, changes>>

Beat(t) == beat' = [beat EXCEPT ![t] = ~@]

Poll(t) == (PollPresent(t) \/ PollAbsent(t)) /\ Beat(t)

CorrectFile(f) ==
  /\ Change
  /\ \E E \in SUBSET Row : CanCorrect(cat, f, E) /\ Commit(Correct(cat, f, E))
  /\ UNCHANGED <<disk, folders, client, scan, confirm, tracked, beat>>

(* recheck_episode_duplicate_problem *)
Recheck(e) ==
  /\ e \in cat.duplicate
  /\ cat' = RefreshDuplicates(cat, {e})
  /\ UNCHANGED <<disk, folders, client, scan, confirm, tracked, beat, changes>>

(* run_show_metadata_refresh; its failure is the Job's and leaves no trace. *)
Refresh ==
  /\ Change
  /\ \E c \in Synced(cat) : cat' = [c EXCEPT !.metadata = FALSE]
  /\ UNCHANGED <<disk, folders, client, scan, confirm, tracked, beat>>

(* update_show: choice and renumbering in one transaction *)
ChooseOrder(o) ==
  /\ Change
  /\ o # cat.order
  /\ cat' \in Synced([cat EXCEPT !.order = o])
  /\ UNCHANGED <<disk, folders, client, scan, confirm, tracked, beat>>

(* _confirm_show_match, and the Job it starts *)
Confirm(d) ==
  /\ d \in cat.unsure
  /\ confirm[d] = "no"
  /\ cat' = [cat EXCEPT !.unsure = @ \ {d}]
  /\ confirm' = [confirm EXCEPT ![d] = "queued"]
  /\ UNCHANGED <<disk, folders, client, scan, tracked, beat, changes>>

ConfirmSync(d) ==
  /\ Change
  /\ confirm[d] = "queued"
  /\ \/ /\ \E c \in Synced(cat) : cat' = [c EXCEPT !.metadata = FALSE]
        /\ confirm' = [confirm EXCEPT ![d] = "synced"]
     \/ /\ cat' = [cat EXCEPT !.metadata = TRUE]
        /\ confirm' = [confirm EXCEPT ![d] = "no"]
  /\ UNCHANGED <<disk, folders, client, scan, tracked, beat>>

ConfirmPass(d) ==
  /\ confirm[d] = "synced"
  /\ IF d \in folders THEN Commit(Pass(cat, d, disk \cap Inside(d), None, None, TRUE))
     ELSE cat' = [cat EXCEPT !.failed = @ \cup {d}]
  /\ confirm' = [confirm EXCEPT ![d] = "no"]
  /\ UNCHANGED <<disk, folders, client, scan, tracked, beat, changes>>

World == FileChanges \/ (\E d \in Directory : DirectoryVanishes(d))
           \/ (\E t \in Torrent : ClientChanges(t))

Next ==
  \/ World
  \/ ScanList \/ (\E d \in Directory : ScanDirectory(d)) \/ ScanStops
  \/ \E t \in Torrent : Poll(t)
  \/ \E f \in File : CorrectFile(f)
  \/ \E e \in Row : Recheck(e)
  \/ Refresh \/ \E o \in Order : ChooseOrder(o)
  \/ \E d \in Directory : Confirm(d) \/ ConfirmSync(d) \/ ConfirmPass(d)

Spec == Init /\ [][Next]_vars

(* _qbit_poll_loop polls every torrent for ever, and polls alone turn its  *)
(* beat; nothing else is promised: scans start when somebody asks.         *)
FairSpec == Spec /\ \A t \in Torrent : WF_beat(Beat(t))

-----------------------------------------------------------------------------
(* Properties                                                              *)

(* "Shared releases remain Current while any mapped member still exists",  *)
(* read for episodes and the other way round: a row that is called present *)
(* has a file that is mapped to it and not given up, whatever pass,        *)
(* absence, correction or renumbering came last.                           *)
PresentHasFile ==
  \A e \in Row : cat.row[e].present => There(cat, Holders(cat, e)) # {}

(* uq_episodes_show_season_number: rows that passes invent from file names *)
(* and rows that TMDB tells never stand at one number, however orderings   *)
(* are switched and seasons fail in between.                               *)
OneRowPerNumber == \A n \in Slot : Cardinality(RowAt(cat, n)) <= 1

(* A duplicate Problem is about an episode that several files are mapped   *)
(* to: no remapping leaves it behind on a row that lost them.              *)
DuplicateHasTwoFiles ==
  \A e \in cat.duplicate : Cardinality(Holders(cat, e)) >= 2

(* A release that was given up with its download holds no media, and the   *)
(* torrent that gave it up is not attached to it, also when the download   *)
(* starts again (its link is then incoming once more) or a folder is bound *)
(* to the release.                                                         *)
RemovedIsNowhere ==
  \A r \in Release : cat.release[r].state = "removed" =>
    /\ MembersOf(cat, r) = {}
    /\ \E t \in Torrent : cat.link[t][r] \in {"incoming", "historical"}

(* "A manual mapping is authoritative for the entire file" (a pass over    *)
(* its directory): only another correction of the file changes it, or even *)
(* the release it counts for.                                              *)
HandMapsStand ==
  [][\A f \in cat.hand : ~CorrectFile(f) => f \in cat'.hand /\ cat'.maps[f] = cat.maps[f]]_vars

(* What the poll looks into for ever: the files beside a completed torrent *)
(* whose content is where the client says.                                 *)
Watched(f) ==
  \E t \in Torrent : /\ f \in disk \cap Inside(Container[t]) /\ client[t] = "complete"
                     /\ Members[t] \cap disk # {}
Parsed(f) == Says[f].numbers # {} /\ f \notin cat.hand

(* Once the world rests (the bound on changes makes it), every such file   *)
(* ends mapped to the rows at exactly its numbers, or its mapping Problem  *)
(* stays open: renumberings and stale observations of a scan do not strand *)
(* it.                                                                     *)
WatchedIsMapped ==
  <>[](\A f \in File : Watched(f) /\ Parsed(f) =>
         \/ f \in cat.unmapped
         \/ Rows(cat, f) = UNION {RowAt(cat, n) : n \in Says[f].numbers})

(* Then two such files of one number end under the duplicate Problem of    *)
(* its row.                                                                *)
CopiesAreReported ==
  <>[](\A f, g \in File : \A n \in Says[f].numbers \cap Says[g].numbers :
         f # g /\ {f, g} \cap cat.unmapped = {}
               /\ Watched(f) /\ Watched(g) /\ Parsed(f) /\ Parsed(g) =>
         RowAt(cat, n) # {} /\ RowAt(cat, n) \subseteq cat.duplicate)

(* "the mapping is injective, so the parked values cannot collide either"  *)
(* (sync_show_metadata): no row is about to be parked onto another.  The   *)
(* code does not ensure it: a row stays parked when its season could not be*)
(* fetched, or was invented, and the next refresh parks its successor.     *)
ParkingNeverCollides == ~Clash(cat)
=============================================================================

-------------------------- MODULE MovieLibraryProofs --------------------------
(***************************************************************************)
(* What scans and polls keep of the catalogue of a movie, for any number   *)
(* of directories, torrents and releases and any interleaving of the disk, *)
(* the mount, the client, the scan and the poll.                           *)
(***************************************************************************)
EXTENDS MovieLibrary, TLAPS

(* A release has one directory at most. *)
OneDirectory(c) ==
  \A p, q \in Path :
    c.directory[p].release # None /\ c.directory[p].release = c.directory[q].release
      => p = q

(* The torrents of a release are kept in one directory, its own. *)
OnePlace(c) ==
  \A r \in Release, t \in Torrent :
    c.link[r][t] # "none" =>
      /\ \A u \in Torrent : c.link[r][u] # "none" => Content[u] = Content[t]
      /\ \A p \in Path : c.directory[p].release = r => p = Content[t]

Unborn(c) ==
  \A r \in InState(c, {"absent"}), t \in Torrent : c.link[r][t] = "none"

Fitting(c) ==
  \A r \in Release :
    /\ r \in InState(c, Active) => HasDirectory(c, r)
    /\ r \in InState(c, {"missing"}) => ~Present(c, r)
    /\ r \in InState(c, {"removed", "absent"}) => ~HasDirectory(c, r)

Backed(c) ==
  \A r \in InState(c, {"missing"}) :
    HasDirectory(c, r) \/ \E t \in Torrent : c.link[r][t] = "incoming"

Sound(c) ==
  /\ c \in Catalogue
  /\ OneDirectory(c) /\ OnePlace(c) /\ Unborn(c) /\ Fitting(c) /\ Backed(c)

Rivalry(c) ==
  LET duplicates == InState(c, {"duplicate"})
  IN  /\ c.duplicate <=> duplicates # {}
      /\ \A r \in duplicates :
           /\ Present(c, r)
           /\ InSlot(c, duplicates, c.release[r].edition) # {r}

(* Presence of the directories in c and d is the same. *)
SamePlaces(c, d) ==
  \A p \in Path :
    /\ d.directory[p].known = c.directory[p].known
    /\ d.directory[p].exists = c.directory[p].exists
    /\ d.directory[p].checks = c.directory[p].checks

USE PathAssumption, BoundAssumption

-----------------------------------------------------------------------------
(* Types                                                                   *)

LEMMA Fields ==
  ASSUME NEW c \in Catalogue
  PROVE  /\ \A p \in Path :
              /\ c.directory[p].known \in BOOLEAN
              /\ c.directory[p].exists \in BOOLEAN
              /\ c.directory[p].checks \in Nat
              /\ c.directory[p].release \in Release \cup {None}
              /\ c.directory[p] \in [known : BOOLEAN, exists : BOOLEAN, checks : Nat,
                                     release : Release \cup {None}]
         /\ \A r \in Release :
              /\ c.release[r].state \in State
              /\ c.release[r].edition \in Slot
              /\ c.release[r].replaces \in Release \cup {None}
              /\ c.release[r] \in [state : State, edition : Slot,
                                   replaces : Release \cup {None}]
              /\ c.link[r] \in [Torrent -> Association]
              /\ \A t \in Torrent : c.link[r][t] \in Association
         /\ c.directory \in [Path -> [known : BOOLEAN, exists : BOOLEAN, checks : Nat,
                                      release : Release \cup {None}]]
         /\ c.release \in [Release -> [state : State, edition : Slot,
                                       replaces : Release \cup {None}]]
         /\ c.link \in [Release -> [Torrent -> Association]]
         /\ c.duplicate \in BOOLEAN
         /\ None \notin Release
BY DEF Catalogue, None, Release

(* New states for the releases, and nothing else of them. *)
LEMMA Relabelled ==
  ASSUME NEW c \in Catalogue, NEW f \in [Release -> State]
  PROVE  LET states == [r \in Release |-> [c.release[r] EXCEPT !.state = f[r]]]
         IN  /\ states \in [Release -> [state : State, edition : Slot,
                                        replaces : Release \cup {None}]]
             /\ \A r \in Release : /\ states[r].state = f[r]
                                   /\ states[r].edition = c.release[r].edition
                                   /\ states[r].replaces = c.release[r].replaces
<1>1. ASSUME NEW r \in Release
      PROVE  /\ [c.release[r] EXCEPT !.state = f[r]]
                  \in [state : State, edition : Slot, replaces : Release \cup {None}]
             /\ [c.release[r] EXCEPT !.state = f[r]].state = f[r]
             /\ [c.release[r] EXCEPT !.state = f[r]].edition = c.release[r].edition
             /\ [c.release[r] EXCEPT !.state = f[r]].replaces = c.release[r].replaces
  <2>1. /\ f[r] \in State
        /\ c.release[r] \in [state : State, edition : Slot, replaces : Release \cup {None}]
    BY Fields
  <2>2. QED
    BY <2>1
<1>2. QED
  BY <1>1

LEMMA RelabelledOne ==
  ASSUME NEW c \in Catalogue, NEW r \in Release, NEW label \in State
  PROVE  LET states == [c.release EXCEPT ![r].state = label]
         IN  /\ states \in [Release -> [state : State, edition : Slot,
                                        replaces : Release \cup {None}]]
             /\ states[r].state = label
             /\ \A s \in Release \ {r} : states[s] = c.release[s]
<1> DEFINE one == [c.release[r] EXCEPT !.state = label]
<1>1. one \in [state : State, edition : Slot, replaces : Release \cup {None}]
      /\ one.state = label
  BY Fields
<1>2. [c.release EXCEPT ![r].state = label] = [c.release EXCEPT ![r] = one]
  BY Zenon
<1>3. c.release \in [Release -> [state : State, edition : Slot,
                                 replaces : Release \cup {None}]]
  BY Fields
<1> HIDE DEF one
<1>4. QED
  BY <1>1, <1>2, <1>3

(* RefreshDuplicates changes states and the duplicate Problem only: it     *)
(* labels present twins, and what it takes the label from is current or    *)
(* missing by its directory.                                               *)
LEMMA RefreshEffect ==
  ASSUME NEW c \in Catalogue
  PROVE  LET d == RefreshDuplicates(c)
         IN  /\ d \in Catalogue
             /\ d.directory = c.directory /\ d.link = c.link
             /\ \A r \in Release :
                  /\ d.release[r].edition = c.release[r].edition
                  /\ d.release[r].state \notin {"current", "duplicate", "missing"} =>
                       d.release[r].state = c.release[r].state
                  /\ c.release[r].state \notin Active =>
                       d.release[r].state = c.release[r].state
                  /\ c.release[r].state \in Active =>
                       \/ d.release[r].state \in Active
                       \/ d.release[r].state = "missing" /\ ~Present(c, r)
<1> DEFINE d == RefreshDuplicates(c)
           present == {r \in InState(c, Active) : Present(c, r)}
           twins == {r \in present : InSlot(c, present, c.release[r].edition) # {r}}
           Relabel(r, s) ==
             IF r \in twins THEN "duplicate"
             ELSE IF s # "duplicate" THEN s
             ELSE IF r \in present THEN "current" ELSE "missing"
           states == [r \in Release |->
                        [c.release[r] EXCEPT !.state = Relabel(r, c.release[r].state)]]
<1>1. d = [c EXCEPT !.release = states, !.duplicate = twins # {}]
  BY DEF RefreshDuplicates
<1>2. /\ twins \subseteq Release
      /\ \A r \in twins : c.release[r].state \in Active /\ Present(c, r)
      /\ \A r \in Release : r \in present <=> c.release[r].state \in Active /\ Present(c, r)
  BY DEF InState
<1> HIDE DEF twins, present
<1>3. \A r \in Release : Relabel(r, c.release[r].state) \in State
  BY Fields DEF State
<1>4. /\ states \in [Release -> [state : State, edition : Slot,
                                 replaces : Release \cup {None}]]
      /\ \A r \in Release : /\ states[r].state = Relabel(r, c.release[r].state)
                            /\ states[r].edition = c.release[r].edition
  BY <1>3, Fields
<1> HIDE DEF states, d
<1>5. /\ d \in Catalogue
      /\ d.directory = c.directory /\ d.link = c.link /\ d.release = states
  BY <1>1, <1>4 DEF Catalogue
<1>6. QED
  BY <1>2, <1>4, <1>5 DEF Active, d, Relabel

LEMMA RefreshRivalry ==
  ASSUME NEW c \in Catalogue
  PROVE  Rivalry(RefreshDuplicates(c))
<1> DEFINE d == RefreshDuplicates(c)
           present == {r \in InState(c, Active) : Present(c, r)}
           twins == {r \in present : InSlot(c, present, c.release[r].edition) # {r}}
           Relabel(r, s) ==
             IF r \in twins THEN "duplicate"
             ELSE IF s # "duplicate" THEN s
             ELSE IF r \in present THEN "current" ELSE "missing"
           states == [r \in Release |->
                        [c.release[r] EXCEPT !.state = Relabel(r, c.release[r].state)]]
<1>1. d = [c EXCEPT !.release = states, !.duplicate = twins # {}]
  BY DEF RefreshDuplicates
<1>2. \A r \in Release : states[r].state = Relabel(r, c.release[r].state)
  BY Fields
<1>3. d.release = states /\ d.duplicate = (twins # {}) /\ d.directory = c.directory
  <2> HIDE DEF d, states, twins
  <2> QED  BY <1>1 DEF Catalogue
<1>4. InState(d, {"duplicate"}) = twins
  BY <1>2, <1>3 DEF InState
<1>5. \A r \in Release : d.release[r].edition = c.release[r].edition
  BY RefreshEffect
<1>6. ASSUME NEW r \in twins
      PROVE  Present(d, r) /\ InSlot(d, twins, d.release[r].edition) # {r}
  <2>1. PICK s \in present : s # r /\ c.release[s].edition = c.release[r].edition
    BY DEF InSlot
  <2>2. r \in present /\ r \in Release /\ s \in Release
    BY DEF InState
  <2>3. s \in twins
    BY <2>1, <2>2 DEF InSlot
  <2>4. s \in InSlot(d, twins, d.release[r].edition)
    BY <1>5, <2>1, <2>2, <2>3 DEF InSlot
  <2>5. Present(d, r)
    BY <1>3, <2>2 DEF Present
  <2> HIDE DEF d, twins
  <2> QED  BY <2>1, <2>4, <2>5
<1> HIDE DEF d, twins
<1>7. QED
  BY <1>3, <1>4, <1>6 DEF Rivalry, d

LEMMA RefreshSound ==
  ASSUME NEW c, Sound(c)
  PROVE  Sound(RefreshDuplicates(c))
<1> DEFINE d == RefreshDuplicates(c)
<1>1. c \in Catalogue /\ d \in Catalogue /\ d.directory = c.directory /\ d.link = c.link
  BY RefreshEffect DEF Sound
<1>2. \A r \in Release :
        /\ HasDirectory(d, r) <=> HasDirectory(c, r)
        /\ Present(d, r) <=> Present(c, r)
  BY <1>1 DEF HasDirectory, Present
<1>3. \A r \in Release :
        /\ d.release[r].state \notin {"current", "duplicate", "missing"} =>
             d.release[r].state = c.release[r].state
        /\ c.release[r].state \notin Active => d.release[r].state = c.release[r].state
        /\ c.release[r].state \in Active =>
             \/ d.release[r].state \in Active
             \/ d.release[r].state = "missing" /\ ~Present(c, r)
  BY <1>1, RefreshEffect
<1> HIDE DEF d
<1>4. OneDirectory(d) /\ OnePlace(d)
  BY <1>1 DEF Sound, OneDirectory, OnePlace
<1>5. Unborn(d)
  BY <1>1, <1>3 DEF Sound, Unborn, InState
<1>6. Fitting(d)
  BY <1>2, <1>3 DEF Sound, Fitting, InState, Active
<1>7. Backed(d)
  BY <1>1, <1>2, <1>3 DEF Sound, Backed, Fitting, InState, Active
<1>8. QED
  BY <1>1, <1>4, <1>5, <1>6, <1>7 DEF Sound, d

-----------------------------------------------------------------------------
(* mark_absent_known_directories                                           *)

DirectoryRecord ==
  [known : BOOLEAN, exists : BOOLEAN, checks : Nat, release : Release \cup {None}]

LEMMA SightedEffect ==
  ASSUME NEW e \in DirectoryRecord
  PROVE  /\ Sighted(e) \in DirectoryRecord
         /\ Sighted(e).known /\ Sighted(e).exists
         /\ Sighted(e).checks = 0 /\ Sighted(e).release = e.release
BY DEF Sighted, DirectoryRecord

LEMMA MissedEffect ==
  ASSUME NEW e \in DirectoryRecord
  PROVE  /\ Missed(e) \in DirectoryRecord
         /\ Missed(e).known = e.known /\ Missed(e).release = e.release
         /\ Missed(e).checks = e.checks + 1
         /\ Missed(e).exists <=> e.checks = 0 \/ e.checks + 1 < Grace
<1>1. PICK n \in Nat : n = e.checks + 1
  BY DEF DirectoryRecord
<1>2. PICK stays \in BOOLEAN : stays = (e.checks = 0 \/ e.checks + 1 < Grace)
  OBVIOUS
<1>3. Missed(e) = [[e EXCEPT !.checks = n] EXCEPT !.exists = stays]
  BY <1>1, <1>2, Zenon DEF Missed
<1>4. [e EXCEPT !.checks = n] \in DirectoryRecord
  BY <1>1 DEF DirectoryRecord
<1>5. Missed(e) \in DirectoryRecord
  BY <1>2, <1>3, <1>4 DEF DirectoryRecord
<1>6. /\ Missed(e).known = e.known /\ Missed(e).release = e.release
      /\ Missed(e).checks = e.checks + 1
  BY DEF Missed, DirectoryRecord
<1>7. Missed(e).exists <=> e.checks = 0 \/ e.checks + 1 < Grace
  BY DEF Missed, DirectoryRecord
<1>8. QED
  BY <1>5, <1>6, <1>7

LEMMA CheckedEffect ==
  ASSUME NEW c \in Catalogue, NEW seen \in SUBSET Path
  PROVE  LET d == Checked(c, seen)
         IN  /\ d \in Catalogue
             /\ d.release = c.release /\ d.link = c.link
             /\ \A p \in Path :
                  /\ d.directory[p].release = c.directory[p].release
                  /\ d.directory[p].known = c.directory[p].known
                  /\ ~c.directory[p].known =>
                       d.directory[p].exists = c.directory[p].exists
                  /\ c.directory[p].known /\ p \in seen =>
                       d.directory[p].exists /\ d.directory[p].checks = 0
                  /\ c.directory[p].known /\ p \notin seen /\ ~c.directory[p].exists =>
                       ~d.directory[p].exists
                  /\ c.directory[p].known /\ p \notin seen /\ c.directory[p].exists =>
                       /\ d.directory[p].checks = c.directory[p].checks + 1
                       /\ d.directory[p].exists <=>
                            c.directory[p].checks = 0 \/ c.directory[p].checks + 1 < Grace
<1> DEFINE d == Checked(c, seen)
           Next1(p) == IF ~c.directory[p].known THEN c.directory[p]
                       ELSE IF p \in seen THEN Sighted(c.directory[p])
                       ELSE IF c.directory[p].exists THEN Missed(c.directory[p])
                       ELSE c.directory[p]
           directories == [p \in Path |-> Next1(p)]
<1>1. d = [c EXCEPT !.directory = directories]
  BY DEF Checked
<1>2. ASSUME NEW p \in Path
      PROVE  /\ Next1(p) \in DirectoryRecord
             /\ Next1(p).release = c.directory[p].release
             /\ Next1(p).known = c.directory[p].known
             /\ ~c.directory[p].known => Next1(p).exists = c.directory[p].exists
             /\ c.directory[p].known /\ p \in seen =>
                  Next1(p).exists /\ Next1(p).checks = 0
             /\ c.directory[p].known /\ p \notin seen /\ ~c.directory[p].exists =>
                  ~Next1(p).exists
             /\ c.directory[p].known /\ p \notin seen /\ c.directory[p].exists =>
                  /\ Next1(p).checks = c.directory[p].checks + 1
                  /\ Next1(p).exists <=>
                       c.directory[p].checks = 0 \/ c.directory[p].checks + 1 < Grace
  <2> DEFINE e == c.directory[p]
  <2>1. e \in DirectoryRecord
    BY Fields DEF DirectoryRecord
  <2> HIDE DEF e
  <2>2. QED
    BY <2>1, SightedEffect, MissedEffect DEF e
<1> HIDE DEF Next1
<1>3. directories \in [Path -> DirectoryRecord]
  BY <1>2
<1>4. \A p \in Path : directories[p] = Next1(p)
  OBVIOUS
<1> HIDE DEF directories, d
<1>5. /\ d \in Catalogue
      /\ d.release = c.release /\ d.link = c.link /\ d.directory = directories
  BY <1>1, <1>3 DEF Catalogue, DirectoryRecord
<1>6. QED
  BY <1>2, <1>4, <1>5 DEF d

LEMMA MarkAbsentSound ==
  ASSUME NEW c, Sound(c), NEW seen \in SUBSET Path
  PROVE  /\ Sound(MarkAbsent(c, seen)) /\ Rivalry(MarkAbsent(c, seen))
         /\ MarkAbsent(c, seen).directory = Checked(c, seen).directory
<1> DEFINE d == Checked(c, seen)
           Turned(r, to) == \E p \in Path : /\ c.directory[p].release = r
                                            /\ c.directory[p].exists = ~to
                                            /\ d.directory[p].exists = to
           Restate(r, s) ==
             IF s = "missing" /\ Turned(r, TRUE) THEN "current"
             ELSE IF s \in Active /\ Turned(r, FALSE) THEN "missing" ELSE s
           after == [r \in Release |-> Restate(r, c.release[r].state)]
           states == [r \in Release |-> [c.release[r] EXCEPT !.state = after[r]]]
           e == [d EXCEPT !.release = states]
<1>1. MarkAbsent(c, seen) = RefreshDuplicates(e)
  BY Zenon DEF MarkAbsent
<1>2. /\ c \in Catalogue /\ d \in Catalogue
      /\ d.release = c.release /\ d.link = c.link
      /\ \A p \in Path : /\ d.directory[p].release = c.directory[p].release
                         /\ d.directory[p].exists \in BOOLEAN
                         /\ c.directory[p].exists \in BOOLEAN
  BY CheckedEffect, Fields DEF Sound
<1> HIDE DEF d
<1>3. /\ states \in [Release -> [state : State, edition : Slot,
                                 replaces : Release \cup {None}]]
      /\ \A r \in Release : states[r].state = Restate(r, c.release[r].state)
  <2>1. \A r \in Release : Restate(r, c.release[r].state) \in State
    <3> HIDE DEF Turned
    <3> QED  BY <1>2, Fields DEF State
  <2> HIDE DEF Restate
  <2>2. after \in [Release -> State]
    BY <2>1
  <2>3. \A r \in Release : after[r] = Restate(r, c.release[r].state)
    OBVIOUS
  <2> HIDE DEF after
  <2>4. QED
    BY <1>2, <2>2, <2>3, Relabelled
<1> HIDE DEF states
<1>4. /\ e \in Catalogue /\ e.release = states
      /\ e.link = c.link /\ e.directory = d.directory
  BY <1>2, <1>3 DEF Catalogue
<1> HIDE DEF e
<1>5. \A r \in Release : HasDirectory(e, r) <=> HasDirectory(c, r)
  BY <1>2, <1>4 DEF HasDirectory
<1>6. ASSUME NEW r \in Release
      PROVE  /\ Turned(r, TRUE) => HasDirectory(c, r)
             /\ Turned(r, FALSE) => HasDirectory(c, r) /\ ~Present(e, r)
             /\ ~Present(c, r) /\ ~Turned(r, TRUE) => ~Present(e, r)
  <2>1. Turned(r, TRUE) => HasDirectory(c, r)
    BY DEF HasDirectory
  <2>2. ASSUME Turned(r, FALSE)
        PROVE  HasDirectory(c, r) /\ ~Present(e, r)
    <3>1. PICK p \in Path : c.directory[p].release = r /\ d.directory[p].exists = FALSE
      BY <2>2
    <3>2. \A q \in Path : e.directory[q].release = r => q = p
      BY <1>2, <1>4, <3>1, Fields DEF Sound, OneDirectory
    <3>3. QED
      BY <1>4, <3>1, <3>2 DEF HasDirectory, Present
  <2>3. ASSUME ~Present(c, r), Present(e, r)
        PROVE  Turned(r, TRUE)
    <3>1. PICK p \in Path : e.directory[p].release = r /\ e.directory[p].exists
      BY <2>3 DEF Present
    <3>2. c.directory[p].release = r /\ ~c.directory[p].exists
      BY <1>2, <1>4, <2>3, <3>1 DEF Present
    <3>3. c.directory[p].exists = ~TRUE /\ d.directory[p].exists = TRUE
      BY <1>2, <1>4, <3>1, <3>2
    <3>4. QED
      BY <3>2, <3>3
  <2>4. QED
    BY <2>1, <2>2, <2>3
<1> HIDE DEF Turned
<1>7. ASSUME NEW r \in Release
      PROVE  /\ e.release[r].state \in Active => HasDirectory(e, r)
             /\ e.release[r].state = "missing" =>
                  /\ ~Present(e, r)
                  /\ c.release[r].state = "missing" \/ HasDirectory(e, r)
             /\ e.release[r].state \in {"removed", "absent"} =>
                  c.release[r].state = e.release[r].state
  BY <1>3, <1>4, <1>5, <1>6 DEF Sound, Fitting, InState, Active
<1>8. OneDirectory(e) /\ OnePlace(e)
  BY <1>2, <1>4 DEF Sound, OneDirectory, OnePlace
<1>9. Unborn(e)
  BY <1>4, <1>7 DEF Sound, Unborn, InState
<1>10. Fitting(e)
  BY <1>5, <1>7 DEF Sound, Fitting, InState
<1>11. Backed(e)
  BY <1>4, <1>5, <1>7 DEF Sound, Backed, InState
<1>12. Sound(e)
  BY <1>4, <1>8, <1>9, <1>10, <1>11 DEF Sound
<1>13. QED
  BY <1>1, <1>4, <1>12, RefreshSound, RefreshRivalry, RefreshEffect DEF d

-----------------------------------------------------------------------------
(* reconcile_movie_directory                                               *)

(* In d the directory p was just seen, and of the others nothing changed. *)
Seen(c, d, p) ==
  /\ d.directory[p].known /\ d.directory[p].exists /\ d.directory[p].checks = 0
  /\ \A q \in Path \ {p} :
       /\ d.directory[q].known = c.directory[q].known
       /\ d.directory[q].exists = c.directory[q].exists
       /\ d.directory[q].checks = c.directory[q].checks

SeenAt(c, p) == [c EXCEPT !.directory[p] = Sighted(c.directory[p])]

LEMMA SightEffect ==
  ASSUME NEW c \in Catalogue, NEW p \in Path, NEW d, d = SeenAt(c, p)
  PROVE  /\ d \in Catalogue /\ Seen(c, d, p)
         /\ d.release = c.release /\ d.link = c.link /\ d.duplicate = c.duplicate
         /\ \A q \in Path : d.directory[q].release = c.directory[q].release
         /\ \A q \in Path \ {p} : d.directory[q] = c.directory[q]
<1> DEFINE places == [c.directory EXCEPT ![p] = Sighted(c.directory[p])]
<1>1. d = [c EXCEPT !.directory = places]
  BY Zenon DEF SeenAt
<1>2. Sighted(c.directory[p]) \in DirectoryRecord
  BY Fields, SightedEffect DEF DirectoryRecord
<1>3. /\ places \in [Path -> DirectoryRecord]
      /\ places[p] = Sighted(c.directory[p])
      /\ \A q \in Path \ {p} : places[q] = c.directory[q]
  BY <1>2, Fields DEF DirectoryRecord
<1> HIDE DEF places
<1>4. /\ d \in Catalogue /\ d.directory = places
      /\ d.release = c.release /\ d.link = c.link /\ d.duplicate = c.duplicate
  BY <1>1, <1>3 DEF Catalogue, DirectoryRecord
<1>5. /\ places[p].known /\ places[p].exists /\ places[p].checks = 0
      /\ places[p].release = c.directory[p].release
  BY <1>3, SightedEffect, Fields DEF DirectoryRecord
<1>6. QED
  BY <1>3, <1>4, <1>5 DEF Seen

LEMMA RecogniseSound ==
  ASSUME NEW c, Sound(c), Rivalry(c), NEW p \in Path, c.directory[p].release # None,
         NEW T \in SUBSET Torrent, \A t \in T : Content[t] = p,
         NEW inc \in Release \cup {None}
  PROVE  LET d == Recognise(c, p, T, inc)
         IN  Sound(d) /\ Rivalry(d) /\ Seen(c, d, p)
<1> DEFINE own == c.directory[p].release
           stray == IF T = {} THEN {} ELSE {inc} \ {None, own}
           Restate(r, s) ==
             IF r = own /\ s = "missing" THEN "current"
             ELSE IF r \in stray /\ ~HasDirectory(c, r) THEN "removed" ELSE s
           Relink(r, t) ==
             IF t \in T /\ r = own THEN "attached"
             ELSE IF t \in T /\ r \in stray /\ c.link[r][t] = "incoming" THEN "historical"
             ELSE c.link[r][t]
           after == [r \in Release |-> Restate(r, c.release[r].state)]
           states == [r \in Release |-> [c.release[r] EXCEPT !.state = after[r]]]
           links == [r \in Release |-> [t \in Torrent |-> Relink(r, t)]]
           b == SeenAt(c, p)
           d == Recognise(c, p, T, inc)
<1> USE DEF Sound
<1>1. d = [b EXCEPT !.release = states, !.link = links]
  BY Zenon DEF Recognise, SeenAt
<1>2. /\ b \in Catalogue /\ Seen(c, b, p) /\ b.duplicate = c.duplicate
      /\ \A q \in Path : b.directory[q].release = c.directory[q].release
      /\ \A q \in Path \ {p} : b.directory[q] = c.directory[q]
      /\ b.directory[p].exists
  <2>1. c \in Catalogue
    OBVIOUS
  <2>2. b = SeenAt(c, p)
    OBVIOUS
  <2> HIDE DEF b, d, after, states, links, stray, own, Sound
  <2>3. /\ b \in Catalogue /\ Seen(c, b, p) /\ b.duplicate = c.duplicate
        /\ \A q \in Path : b.directory[q].release = c.directory[q].release
        /\ \A q \in Path \ {p} : b.directory[q] = c.directory[q]
    BY <2>1, <2>2, SightEffect
  <2>4. QED
    BY <2>3 DEF Seen
<1> HIDE DEF b
<1>3. /\ own \in Release /\ HasDirectory(c, own) /\ own \notin stray
      /\ stray \subseteq Release
  BY Fields DEF HasDirectory
<1>4. /\ states \in [Release -> [state : State, edition : Slot,
                                 replaces : Release \cup {None}]]
      /\ \A r \in Release : /\ states[r].state = Restate(r, c.release[r].state)
                            /\ states[r].edition = c.release[r].edition
  <2>1. \A r \in Release : Restate(r, c.release[r].state) \in State
    BY Fields DEF State
  <2> HIDE DEF Restate
  <2>2. after \in [Release -> State]
    BY <2>1
  <2>3. \A r \in Release : after[r] = Restate(r, c.release[r].state)
    OBVIOUS
  <2> HIDE DEF after
  <2>4. QED
    BY <2>2, <2>3, Relabelled
<1>5. /\ links \in [Release -> [Torrent -> Association]]
      /\ \A r \in Release, t \in Torrent : links[r][t] = Relink(r, t)
  <2>1. \A r \in Release, t \in Torrent : Relink(r, t) \in Association
    BY Fields DEF Association
  <2> HIDE DEF Relink
  <2>2. QED
    BY <2>1
<1> HIDE DEF states, links, d, own, stray, after
<1>6. /\ d \in Catalogue /\ d.directory = b.directory /\ d.duplicate = b.duplicate
      /\ d.release = states /\ d.link = links
  BY <1>1, <1>2, <1>4, <1>5 DEF Catalogue
<1>7. \A r \in Release : HasDirectory(d, r) <=> HasDirectory(c, r)
  BY <1>2, <1>6 DEF HasDirectory
<1>8. \A r \in Release : /\ r # own => (Present(d, r) <=> Present(c, r))
                         /\ r = own => Present(d, r)
  BY <1>2, <1>6 DEF Present, own
<1>9. \A r \in Release, t \in Torrent :
        /\ d.link[r][t] # "none" => c.link[r][t] # "none" \/ (r = own /\ t \in T)
        /\ c.link[r][t] = "incoming" /\ d.link[r][t] # "incoming" =>
             r = own \/ r \in stray
  BY <1>5, <1>6
<1>10. c.directory[p].release = own
  BY DEF own
<1>11. OneDirectory(d)
  BY <1>2, <1>6 DEF OneDirectory
<1>12. OnePlace(d)
  BY <1>2, <1>3, <1>6, <1>9, <1>10 DEF OnePlace, OneDirectory
<1>13. \A r \in Release :
         /\ d.release[r].state \in Active =>
              c.release[r].state \in Active \/ r = own
         /\ d.release[r].state = "duplicate" <=> c.release[r].state = "duplicate"
         /\ d.release[r].state = "missing" =>
              /\ c.release[r].state = "missing" /\ r # own
              /\ r \in stray => HasDirectory(c, r)
         /\ d.release[r].state \in {"removed", "absent"} =>
              \/ c.release[r].state = d.release[r].state
              \/ ~HasDirectory(c, r)
         /\ d.release[r].state = "absent" => c.release[r].state = "absent"
  <2>1. \A r \in Release : r \in stray /\ ~HasDirectory(c, r) =>
                             c.release[r].state \notin Active
    BY DEF Fitting, InState
  <2>2. QED
    BY <1>4, <1>6, <2>1 DEF Active
<1>14. Unborn(d)
  BY <1>3, <1>6, <1>9, <1>13 DEF Unborn, InState, Fitting
<1>15. Fitting(d)
  BY <1>3, <1>7, <1>8, <1>13 DEF Fitting, InState
<1>16. Backed(d)
  BY <1>7, <1>9, <1>13 DEF Backed, InState
<1>17. Rivalry(d)
  <2>1. InState(d, {"duplicate"}) = InState(c, {"duplicate"})
    BY <1>13 DEF InState
  <2>2. \A r \in Release : d.release[r].edition = c.release[r].edition
    BY <1>4, <1>6
  <2>3. \A e : \A R \in SUBSET Release : InSlot(d, R, e) = InSlot(c, R, e)
    BY <2>2 DEF InSlot
  <2>4. InState(c, {"duplicate"}) \subseteq Release
    BY DEF InState
  <2>5. QED
    BY <1>2, <1>6, <1>8, <2>1, <2>2, <2>3, <2>4 DEF Rivalry
<1>18. Seen(c, d, p)
  BY <1>2, <1>6 DEF Seen
<1>19. QED
  BY <1>6, <1>11, <1>12, <1>14, <1>15, <1>16, <1>17, <1>18 DEF d

(* A release whose links, if any, all lead to p, and without a directory. *)
Homeless(c, r, p) ==
  /\ ~HasDirectory(c, r)
  /\ \A t \in Torrent : c.link[r][t] # "none" => Content[t] = p

LEMMA FreshIsHomeless ==
  ASSUME NEW c, Sound(c), NEW p \in Path, NEW r \in Fresh(c)
  PROVE  r \in Release /\ c.release[r].state = "absent" /\ Homeless(c, r, p)
BY DEF Sound, Fresh, InState, Fitting, Unborn, Homeless

Given(c, p, r, T, label) ==
  [c EXCEPT !.directory[p].release = r,
            !.release[r].state = label,
            !.release[r].edition = Edition[p],
            !.link[r] = [t \in Torrent |-> IF t \in T THEN "attached" ELSE c.link[r][t]],
            !.review = {}]

(* b is c once the release r was given the path p and the torrents T. *)
HasBeenGiven(c, b, p, r, T, label) ==
  /\ SamePlaces(c, b)
  /\ b.directory[p].release = r
  /\ \A q \in Path \ {p} : b.directory[q].release = c.directory[q].release
  /\ b.release[r].state = label
  /\ \A s \in Release \ {r} : /\ b.release[s].state = c.release[s].state
                              /\ b.link[s] = c.link[s]
  /\ \A t \in T : b.link[r][t] = "attached"
  /\ \A t \in Torrent \ T : b.link[r][t] = c.link[r][t]

LEMMA GivenEffect ==
  ASSUME NEW c \in Catalogue, NEW p \in Path, NEW r \in Release,
         NEW T \in SUBSET Torrent, NEW label \in State,
         NEW b, b = Given(c, p, r, T, label)
  PROVE  b \in Catalogue /\ HasBeenGiven(c, b, p, r, T, label)
<1> DEFINE places == [c.directory EXCEPT ![p].release = r]
           mid == [c.release EXCEPT ![r].state = label]
           states == [mid EXCEPT ![r].edition = Edition[p]]
           own == [t \in Torrent |-> IF t \in T THEN "attached" ELSE c.link[r][t]]
           links == [c.link EXCEPT ![r] = own]
<1>1. b = [c EXCEPT !.directory = places, !.release = states, !.link = links,
                    !.review = {}]
  BY DEF Given, Catalogue
<1>2. /\ places \in [Path -> DirectoryRecord]
      /\ places[p].release = r
      /\ \A q \in Path : /\ places[q].known = c.directory[q].known
                         /\ places[q].exists = c.directory[q].exists
                         /\ places[q].checks = c.directory[q].checks
      /\ \A q \in Path \ {p} : places[q].release = c.directory[q].release
  BY Fields DEF DirectoryRecord
<1>3. /\ states \in [Release -> [state : State, edition : Slot,
                                 replaces : Release \cup {None}]]
      /\ states[r].state = label
      /\ \A s \in Release \ {r} : states[s].state = c.release[s].state
  <2>1. Edition[p] \in Slot
    BY DEF Slot
  <2>2. /\ mid \in [Release -> [state : State, edition : Slot,
                                replaces : Release \cup {None}]]
        /\ mid[r].state = label
        /\ \A s \in Release \ {r} : mid[s].state = c.release[s].state
    BY Fields
  <2> HIDE DEF mid
  <2>3. QED
    BY <2>1, <2>2
<1>4. own \in [Torrent -> Association]
  BY Fields DEF Association
<1>5. /\ links \in [Release -> [Torrent -> Association]]
      /\ links[r] = own /\ \A s \in Release \ {r} : links[s] = c.link[s]
  BY <1>4, Fields
<1> HIDE DEF places, mid, states, own, links
<1>6. /\ b \in Catalogue /\ b.directory = places /\ b.release = states /\ b.link = links
  BY <1>1, <1>2, <1>3, <1>5 DEF Catalogue, DirectoryRecord
<1>7. /\ \A t \in T : b.link[r][t] = "attached"
      /\ \A t \in Torrent \ T : b.link[r][t] = c.link[r][t]
  BY <1>5, <1>6 DEF own
<1>8. QED
  BY <1>2, <1>3, <1>5, <1>6, <1>7 DEF SamePlaces, HasBeenGiven

LEMMA AttachSound ==
  ASSUME NEW c, Sound(c), NEW p \in Path, c.directory[p].release = None,
         NEW T \in SUBSET Torrent, \A t \in T : Content[t] = p,
         NEW inc \in Release \cup {None}, inc # None => Homeless(c, inc, p),
         NEW label \in Active, NEW d \in Attach(c, p, T, inc, label)
  PROVE  Sound(d) /\ Rivalry(d) /\ SamePlaces(c, d)
<1>1. PICK r \in IF inc = None THEN Fresh(c) ELSE {inc} :
        d = RefreshDuplicates(Given(c, p, r, T, label))
  BY Zenon DEF Attach, Given
<1> DEFINE b == Given(c, p, r, T, label)
<1>2. r \in Release /\ Homeless(c, r, p)
  BY <1>1, FreshIsHomeless
<1>3. c \in Catalogue /\ label \in State
  BY DEF Sound, Active, State
<1>4. /\ b \in Catalogue
      /\ SamePlaces(c, b)
      /\ b.directory[p].release = r
      /\ \A q \in Path \ {p} : b.directory[q].release = c.directory[q].release
      /\ b.release[r].state = label
      /\ \A s \in Release \ {r} : /\ b.release[s].state = c.release[s].state
                                  /\ b.link[s] = c.link[s]
      /\ \A t \in T : b.link[r][t] = "attached"
      /\ \A t \in Torrent \ T : b.link[r][t] = c.link[r][t]
  <2>1. b = Given(c, p, r, T, label)
    OBVIOUS
  <2> HIDE DEF b
  <2>2. b \in Catalogue /\ HasBeenGiven(c, b, p, r, T, label)
    BY <1>2, <1>3, <2>1, GivenEffect
  <2>3. QED
    BY <2>2 DEF HasBeenGiven
<1> HIDE DEF b
<1>5. \A q \in Path : c.directory[q].release # r
  BY <1>2 DEF Homeless, HasDirectory
<1>6. \A s \in Release \ {r} : /\ HasDirectory(b, s) <=> HasDirectory(c, s)
                               /\ Present(b, s) <=> Present(c, s)
  <2>1. None \notin Release
    BY DEF None, Release
  <2>2. QED
    BY <1>4, <2>1 DEF HasDirectory, Present, SamePlaces
<1>7. HasDirectory(b, r)
  BY <1>4 DEF HasDirectory
<1>8. OneDirectory(b)
  BY <1>4, <1>5 DEF Sound, OneDirectory
<1>9. OnePlace(b)
  <2>1. ASSUME NEW s \in Release, NEW t \in Torrent, b.link[s][t] # "none"
        PROVE  /\ \A u \in Torrent : b.link[s][u] # "none" => Content[u] = Content[t]
               /\ \A q \in Path : b.directory[q].release = s => q = Content[t]
    <3>1. CASE s = r
      <4>1. \A u \in Torrent : b.link[r][u] # "none" => Content[u] = p
        BY <1>2, <1>4 DEF Homeless
      <4>2. \A q \in Path : b.directory[q].release = r => q = p
        BY <1>4, <1>5
      <4>3. QED
        BY <2>1, <3>1, <4>1, <4>2
    <3>2. CASE s # r
      BY <1>4, <2>1, <3>2 DEF Sound, OnePlace
    <3>3. QED
      BY <3>1, <3>2
  <2>2. QED
    BY <2>1 DEF OnePlace
<1>10. Unborn(b)
  BY <1>4 DEF Sound, Unborn, InState, Active
<1>11. Fitting(b)
  BY <1>4, <1>6, <1>7 DEF Sound, Fitting, InState, Active
<1>12. Backed(b)
  BY <1>4, <1>6, <1>7 DEF Sound, Backed, InState, Active
<1>13. Sound(b)
  BY <1>4, <1>8, <1>9, <1>10, <1>11, <1>12 DEF Sound
<1>14. d.directory = b.directory /\ d = RefreshDuplicates(b)
  BY <1>1, <1>4, RefreshEffect DEF b
<1>15. QED
  BY <1>4, <1>13, <1>14, RefreshSound, RefreshRivalry DEF SamePlaces

(* What only files Problems keeps everything else.                         *)
Framed(c, d) ==
  /\ d \in Catalogue
  /\ d.directory = c.directory /\ d.release = c.release
  /\ d.link = c.link /\ d.duplicate = c.duplicate

LEMMA FramedSound ==
  ASSUME NEW c, NEW d, Sound(c), Framed(c, d)
  PROVE  Sound(d) /\ (Rivalry(c) => Rivalry(d)) /\ SamePlaces(c, d)
<1>1. \A r \in Release : /\ HasDirectory(d, r) <=> HasDirectory(c, r)
                         /\ Present(d, r) <=> Present(c, r)
  BY DEF Framed, HasDirectory, Present
<1>2. \A S : InState(d, S) = InState(c, S)
  BY DEF Framed, InState
<1>3. OneDirectory(d) /\ OnePlace(d) /\ Unborn(d)
  BY <1>2 DEF Sound, Framed, OneDirectory, OnePlace, Unborn
<1>4. Fitting(d)
  BY <1>1, <1>2 DEF Sound, Fitting
<1>5. Backed(d)
  BY <1>1, <1>2 DEF Sound, Framed, Backed, InState
<1>6. Rivalry(c) => Rivalry(d)
  <2>1. \A R, e : InSlot(d, R, e) = InSlot(c, R, e)
    BY DEF Framed, InSlot
  <2>2. QED
    BY <1>1, <1>2, <2>1 DEF Framed, Rivalry, InState
<1>7. QED
  BY <1>3, <1>4, <1>5, <1>6 DEF Sound, Framed, SamePlaces

(* The old release gives way to a newcomer.                                *)
Demoted(c, old, label) == [c EXCEPT !.release[old].state = label]

LEMMA DemotedSound ==
  ASSUME NEW c, Sound(c), NEW old \in Release, NEW label,
         \/ label = "duplicate" /\ c.release[old].state \in Active
         \/ label = "replaced" /\ c.release[old].state \in {"current", "missing"},
         NEW d, d = Demoted(c, old, label)
  PROVE  Sound(d) /\ d.directory = c.directory /\ d.link = c.link
<1> DEFINE states == [c.release EXCEPT ![old].state = label]
<1>1. d = [c EXCEPT !.release = states]
  BY Zenon DEF Demoted
<1>2. c \in Catalogue /\ label \in State
  BY DEF Sound, State
<1>3. /\ states \in [Release -> [state : State, edition : Slot,
                                 replaces : Release \cup {None}]]
      /\ states[old].state = label
      /\ \A s \in Release \ {old} : states[s] = c.release[s]
  BY <1>2, RelabelledOne
<1> HIDE DEF states
<1>4. /\ d \in Catalogue /\ d.directory = c.directory /\ d.link = c.link
      /\ d.release = states
  BY <1>1, <1>2, <1>3 DEF Catalogue
<1>5. \A r \in Release : /\ HasDirectory(d, r) <=> HasDirectory(c, r)
                         /\ Present(d, r) <=> Present(c, r)
  BY <1>4 DEF HasDirectory, Present
<1>6. \A r \in Release :
        \/ d.release[r].state = c.release[r].state
        \/ d.release[r].state = "duplicate" /\ c.release[r].state \in Active
        \/ d.release[r].state = "replaced"
  BY <1>3, <1>4
<1>7. OneDirectory(d) /\ OnePlace(d)
  BY <1>4 DEF Sound, OneDirectory, OnePlace
<1>8. Unborn(d)
  BY <1>4, <1>6 DEF Sound, Unborn, InState
<1>9. Fitting(d)
  BY <1>5, <1>6 DEF Sound, Fitting, InState, Active
<1>10. Backed(d)
  BY <1>4, <1>5, <1>6 DEF Sound, Backed, InState
<1>11. QED
  BY <1>4, <1>7, <1>8, <1>9, <1>10 DEF Sound

LEMMA DecideSound ==
  ASSUME NEW c, Sound(c), Rivalry(c), NEW p \in Path, c.directory[p].release = None,
         NEW T \in SUBSET Torrent, \A t \in T : Content[t] = p,
         NEW inc \in Release \cup {None}, inc # None => Homeless(c, inc, p),
         NEW d \in Decide(c, p, T, inc)
  PROVE  Sound(d) /\ Rivalry(d) /\ SamePlaces(c, d)
<1> DEFINE others  == (Release \ InState(c, {"absent"})) \ {inc}
           active  == {r \in others \cap InState(c, Active) : Present(c, r)}
           rivals  == InSlot(c, active, Edition[p])
           missing == MissingAmong(c, others)
           target  == Target(c, missing, Edition[p],
                             IF inc = None THEN None ELSE c.release[inc].replaces)
<1>1. \/ \E old \in rivals :
           d \in Attach(Demoted(c, old, "duplicate"), p, T, None, "duplicate")
      \/ \E old \in target :
           d \in Attach(Demoted(c, old, "replaced"), p, T, inc, "current")
      \/ d = [c EXCEPT !.review = {"ambiguous"}]
      \/ d = [c EXCEPT !.review = {"limit"}]
      \/ d \in Attach(c, p, T, inc, "current")
  <2> HIDE DEF rivals, target, missing, active
  <2>1. d \in CASE rivals # {} ->
                     UNION {Attach(Demoted(c, old, "duplicate"), p, T, None, "duplicate") :
                              old \in rivals}
                [] rivals = {} /\ target # {} ->
                     UNION {Attach(Demoted(c, old, "replaced"), p, T, inc, "current") :
                              old \in target}
                [] rivals = {} /\ missing # {} /\ target = {} ->
                     {[c EXCEPT !.review = {"ambiguous"}]}
                [] rivals = {} /\ missing = {} /\ Cardinality(active) >= MaxActive ->
                     {[c EXCEPT !.review = {"limit"}]}
                [] OTHER -> Attach(c, p, T, inc, "current")
    BY Zenon DEF Decide, Demoted, rivals, target, missing, active
  <2>2. QED
    BY <2>1
<1>2. ASSUME NEW old \in rivals,
             d \in Attach(Demoted(c, old, "duplicate"), p, T, None, "duplicate")
      PROVE  Sound(d) /\ Rivalry(d) /\ SamePlaces(c, d)
  <2> DEFINE b == Demoted(c, old, "duplicate")
  <2>1. old \in Release /\ c.release[old].state \in Active
    BY DEF InSlot, InState
  <2>2. Sound(b) /\ b.directory = c.directory /\ b.link = c.link
    BY <2>1, DemotedSound
  <2> HIDE DEF b
  <2>3. d \in Attach(b, p, T, None, "duplicate")
    BY <1>2 DEF b
  <2>4. "duplicate" \in Active /\ None \in Release \cup {None}
    BY DEF Active
  <2>5. b.directory[p].release = None
    BY <2>2
  <2>6. Sound(d) /\ Rivalry(d) /\ SamePlaces(b, d)
    BY <2>2, <2>3, <2>4, <2>5, AttachSound
  <2>7. QED
    BY <2>2, <2>6 DEF SamePlaces
<1>3. ASSUME NEW old \in target,
             d \in Attach(Demoted(c, old, "replaced"), p, T, inc, "current")
      PROVE  Sound(d) /\ Rivalry(d) /\ SamePlaces(c, d)
  <2> DEFINE b == Demoted(c, old, "replaced")
  <2>1. old \in missing
    BY DEF Target, InSlot
  <2>2. old \in Release /\ c.release[old].state \in {"current", "missing"}
    BY <2>1 DEF MissingAmong, InState
  <2>3. Sound(b) /\ b.directory = c.directory /\ b.link = c.link
    BY <2>2, DemotedSound
  <2> HIDE DEF b
  <2>4. d \in Attach(b, p, T, inc, "current")
    BY <1>3 DEF b
  <2>5. "current" \in Active
    BY DEF Active
  <2>6. inc # None => Homeless(b, inc, p)
    BY <2>3 DEF Homeless, HasDirectory
  <2>7. b.directory[p].release = None
    BY <2>3
  <2>8. Sound(d) /\ Rivalry(d) /\ SamePlaces(b, d)
    BY <2>3, <2>4, <2>5, <2>6, <2>7, AttachSound
  <2>9. QED
    BY <2>3, <2>8 DEF SamePlaces
<1>4. ASSUME d = [c EXCEPT !.review = {"ambiguous"}] \/ d = [c EXCEPT !.review = {"limit"}]
      PROVE  Sound(d) /\ Rivalry(d) /\ SamePlaces(c, d)
  <2>1. PICK verdict \in SUBSET {"ambiguous", "limit"} : d = [c EXCEPT !.review = verdict]
    BY <1>4
  <2>2. c \in Catalogue
    BY DEF Sound
  <2>3. Framed(c, d)
    BY <2>1, <2>2 DEF Framed, Catalogue
  <2>4. QED
    BY <2>3, FramedSound
<1>5. ASSUME d \in Attach(c, p, T, inc, "current")
      PROVE  Sound(d) /\ Rivalry(d) /\ SamePlaces(c, d)
  <2>1. "current" \in Active
    BY DEF Active
  <2>2. QED
    BY <1>5, <2>1, AttachSound
<1>6. QED
  BY <1>1, <1>2, <1>3, <1>4, <1>5

LEMMA ReconcileSound ==
  ASSUME NEW c, Sound(c), Rivalry(c), NEW p \in Path,
         NEW T \in SUBSET Torrent, \A t \in T : Content[t] = p,
         NEW inc \in Release \cup {None},
         inc # None => \E t \in T : c.link[inc][t] # "none",
         NEW d \in Reconcile(c, p, T, inc)
  PROVE  Sound(d) /\ Rivalry(d) /\ Seen(c, d, p)
<1>1. CASE c.directory[p].release # None
  <2>1. d = Recognise(c, p, T, inc)
    BY <1>1 DEF Reconcile
  <2>2. QED
    BY <1>1, <2>1, RecogniseSound
<1>2. CASE c.directory[p].release = None
  <2> DEFINE a == SeenAt(c, p)
  <2>1. c \in Catalogue
    BY DEF Sound
  <2>2. a = SeenAt(c, p)
    OBVIOUS
  <2> HIDE DEF a
  <2>3. /\ a \in Catalogue /\ Seen(c, a, p)
        /\ a.release = c.release /\ a.link = c.link /\ a.duplicate = c.duplicate
        /\ \A q \in Path : a.directory[q].release = c.directory[q].release
        /\ \A q \in Path \ {p} : a.directory[q] = c.directory[q]
    BY <2>1, <2>2, SightEffect
  <2>4. \A r \in Release : /\ HasDirectory(a, r) <=> HasDirectory(c, r)
                           /\ Present(a, r) <=> Present(c, r)
    <3>1. None \notin Release
      BY DEF None, Release
    <3>2. QED
      BY <1>2, <2>3, <3>1 DEF HasDirectory, Present
  <2>5. Sound(a)
    <3>1. OneDirectory(a) /\ OnePlace(a) /\ Unborn(a)
      BY <2>3 DEF Sound, OneDirectory, OnePlace, Unborn, InState
    <3>2. Fitting(a) /\ Backed(a)
      BY <2>3, <2>4 DEF Sound, Fitting, Backed, InState
    <3>3. QED
      BY <2>3, <3>1, <3>2 DEF Sound
  <2>6. Rivalry(a)
    <3>1. InState(a, {"duplicate"}) = InState(c, {"duplicate"})
      BY <2>3 DEF InState
    <3>2. \A R, e : InSlot(a, R, e) = InSlot(c, R, e)
      BY <2>3 DEF InSlot
    <3>3. InState(c, {"duplicate"}) \subseteq Release
      BY DEF InState
    <3>4. QED
      BY <2>3, <2>4, <3>1, <3>2, <3>3 DEF Rivalry
  <2>7. \/ p \in Unparsed /\ d = [a EXCEPT !.unsure = a.unsure \cup {p}]
        \/ d \in Decide([a EXCEPT !.unsure = a.unsure \ {p}], p, T, inc)
    BY <1>2, Zenon DEF Reconcile, SeenAt, a
  <2>8. CASE p \in Unparsed /\ d = [a EXCEPT !.unsure = a.unsure \cup {p}]
    <3>1. Framed(a, d)
      BY <2>3, <2>8 DEF Framed, Catalogue
    <3>2. QED
      BY <2>3, <2>5, <2>6, <3>1, FramedSound DEF SamePlaces, Seen
  <2>9. CASE d \in Decide([a EXCEPT !.unsure = a.unsure \ {p}], p, T, inc)
    <3> DEFINE b == [a EXCEPT !.unsure = a.unsure \ {p}]
    <3>1. Framed(a, b)
      BY <2>3 DEF Framed, Catalogue
    <3> HIDE DEF b
    <3>2. Sound(b) /\ Rivalry(b) /\ SamePlaces(a, b)
      BY <2>5, <2>6, <3>1, FramedSound
    <3>3. b.directory[p].release = None
      BY <1>2, <2>3, <3>1 DEF Framed
    <3>4. inc # None => Homeless(b, inc, p)
      <4>1. ASSUME inc # None
            PROVE  Homeless(c, inc, p)
        <5>1. PICK t \in T : c.link[inc][t] # "none"
          BY <4>1
        <5>2. inc \in Release /\ t \in Torrent /\ Content[t] = p
          BY <4>1
        <5>3. \A u \in Torrent : c.link[inc][u] # "none" => Content[u] = p
          BY <5>1, <5>2 DEF Sound, OnePlace
        <5>4. ~HasDirectory(c, inc)
          BY <1>2, <4>1, <5>1, <5>2 DEF Sound, OnePlace, HasDirectory
        <5>5. QED
          BY <5>3, <5>4 DEF Homeless
      <4>2. QED
        BY <2>3, <2>4, <3>1, <4>1 DEF Homeless, HasDirectory, Framed
    <3>5. d \in Decide(b, p, T, inc)
      BY <2>9 DEF b
    <3>6. Sound(d) /\ Rivalry(d) /\ SamePlaces(b, d)
      BY <3>2, <3>3, <3>4, <3>5, DecideSound
    <3>7. QED
      BY <2>3, <3>2, <3>6 DEF SamePlaces, Seen
  <2>10. QED
    BY <2>7, <2>8, <2>9
<1>3. QED
  BY <1>1, <1>2

-----------------------------------------------------------------------------
(* The torrent side                                                        *)

(* Only associations of links that there are were changed, and none of an  *)
(* incoming one.                                                           *)
Relinked(c, d) ==
  /\ d \in Catalogue
  /\ d.directory = c.directory /\ d.release = c.release /\ d.duplicate = c.duplicate
  /\ \A r \in Release, t \in Torrent :
       /\ d.link[r][t] = "none" <=> c.link[r][t] = "none"
       /\ c.link[r][t] = "incoming" => d.link[r][t] = "incoming"

LEMMA RelinkedSound ==
  ASSUME NEW c, NEW d, Sound(c), Relinked(c, d)
  PROVE  Sound(d) /\ (Rivalry(c) => Rivalry(d)) /\ SamePlaces(c, d)
<1>1. \A r \in Release : /\ HasDirectory(d, r) <=> HasDirectory(c, r)
                         /\ Present(d, r) <=> Present(c, r)
  BY DEF Relinked, HasDirectory, Present
<1>2. \A S : InState(d, S) = InState(c, S)
  BY DEF Relinked, InState
<1>3. OneDirectory(d) /\ OnePlace(d) /\ Unborn(d)
  BY <1>2 DEF Sound, Relinked, OneDirectory, OnePlace, Unborn, InState
<1>4. Fitting(d)
  BY <1>1, <1>2 DEF Sound, Fitting
<1>5. Backed(d)
  BY <1>1, <1>2 DEF Sound, Relinked, Backed, InState
<1>6. Rivalry(c) => Rivalry(d)
  <2>1. \A R, e : InSlot(d, R, e) = InSlot(c, R, e)
    BY DEF Relinked, InSlot
  <2>2. QED
    BY <1>1, <1>2, <2>1 DEF Relinked, Rivalry, InState
<1>7. QED
  BY <1>3, <1>4, <1>5, <1>6 DEF Sound, Relinked, SamePlaces

Incoming(c, r, t) == [c EXCEPT !.link[r][t] = "incoming"]

MadeIncoming(c, d, r, t) ==
  /\ d.directory = c.directory /\ d.release = c.release /\ d.duplicate = c.duplicate
  /\ d.link[r][t] = "incoming"
  /\ \A s \in Release, u \in Torrent : s # r \/ u # t => d.link[s][u] = c.link[s][u]

LEMMA IncomingEffect ==
  ASSUME NEW c \in Catalogue, NEW r \in Release, NEW t \in Torrent,
         NEW d, d = Incoming(c, r, t)
  PROVE  d \in Catalogue /\ MadeIncoming(c, d, r, t)
<1> DEFINE own == [c.link[r] EXCEPT ![t] = "incoming"]
           links == [c.link EXCEPT ![r] = own]
<1>1. d = [c EXCEPT !.link = links]
  BY Zenon DEF Incoming
<1>2. /\ own \in [Torrent -> Association] /\ own[t] = "incoming"
      /\ \A u \in Torrent \ {t} : own[u] = c.link[r][u]
  BY Fields DEF Association
<1> HIDE DEF own
<1>3. /\ links \in [Release -> [Torrent -> Association]] /\ links[r] = own
      /\ \A s \in Release \ {r} : links[s] = c.link[s]
  BY <1>2, Fields
<1> HIDE DEF links
<1>4. /\ d \in Catalogue /\ d.link = links /\ d.directory = c.directory
      /\ d.release = c.release /\ d.duplicate = c.duplicate
  BY <1>1, <1>3 DEF Catalogue
<1>5. QED
  BY <1>2, <1>3, <1>4 DEF MadeIncoming

Provisional(c, r, t, old) ==
  [c EXCEPT !.release[r] = [state |-> "missing", edition |-> Edition[Content[t]],
                            replaces |-> old],
            !.link[r][t] = "incoming"]

LEMMA ProvisionalSound ==
  ASSUME NEW c, Sound(c), NEW t \in Torrent, NEW r \in Fresh(c),
         NEW old \in Release \cup {None}, NEW d, d = Provisional(c, r, t, old)
  PROVE  Sound(d) /\ (Rivalry(c) => Rivalry(d)) /\ SamePlaces(c, d)
<1> DEFINE new == [state |-> "missing", edition |-> Edition[Content[t]], replaces |-> old]
           states == [c.release EXCEPT ![r] = new]
           b == [c EXCEPT !.release = states]
<1>1. d = Incoming(b, r, t)
  BY Zenon DEF Provisional, Incoming
<1>2. /\ r \in Release /\ c.release[r].state = "absent" /\ ~HasDirectory(c, r)
      /\ \A u \in Torrent : c.link[r][u] = "none"
      /\ c \in Catalogue
  BY DEF Sound, Fresh, InState, Fitting, Unborn
<1>3. new \in [state : State, edition : Slot, replaces : Release \cup {None}]
      /\ new.state = "missing"
  BY DEF State, Slot
<1> HIDE DEF new
<1>4. /\ states \in [Release -> [state : State, edition : Slot,
                                 replaces : Release \cup {None}]]
      /\ states[r].state = "missing" /\ \A s \in Release \ {r} : states[s] = c.release[s]
  BY <1>2, <1>3, Fields
<1> HIDE DEF states
<1>5. /\ b \in Catalogue /\ b.release = states /\ b.directory = c.directory
      /\ b.link = c.link /\ b.duplicate = c.duplicate
  BY <1>2, <1>4 DEF Catalogue
<1> HIDE DEF b
<1>6. /\ d \in Catalogue /\ d.directory = c.directory /\ d.release = states
      /\ d.duplicate = c.duplicate
      /\ d.link[r][t] = "incoming"
      /\ \A s \in Release, u \in Torrent :
           s # r \/ u # t => d.link[s][u] = c.link[s][u]
  <2>1. d \in Catalogue /\ MadeIncoming(b, d, r, t)
    BY <1>1, <1>2, <1>5, IncomingEffect
  <2>2. QED
    BY <1>5, <2>1 DEF MadeIncoming
<1>7. \A s \in Release : /\ HasDirectory(d, s) <=> HasDirectory(c, s)
                         /\ Present(d, s) <=> Present(c, s)
  BY <1>6 DEF HasDirectory, Present
<1>8. ~HasDirectory(d, r) /\ ~Present(d, r)
  BY <1>2, <1>7 DEF HasDirectory, Present
<1>9. OneDirectory(d)
  BY <1>6 DEF Sound, OneDirectory
<1>10. OnePlace(d)
  <2>1. ASSUME NEW s \in Release, NEW v \in Torrent, d.link[s][v] # "none"
        PROVE  /\ \A u \in Torrent : d.link[s][u] # "none" => Content[u] = Content[v]
               /\ \A q \in Path : d.directory[q].release = s => q = Content[v]
    <3>1. CASE s = r
      BY <1>2, <1>6, <1>8, <2>1, <3>1 DEF HasDirectory
    <3>2. CASE s # r
      BY <1>6, <2>1, <3>2 DEF Sound, OnePlace
    <3>3. QED
      BY <3>1, <3>2
  <2>2. QED
    BY <2>1 DEF OnePlace
<1>11. Unborn(d)
  BY <1>4, <1>6 DEF Sound, Unborn, InState
<1>12. Fitting(d)
  BY <1>4, <1>6, <1>7, <1>8 DEF Sound, Fitting, InState, Active
<1>13. Backed(d)
  <2>1. ASSUME NEW s \in Release, d.release[s].state = "missing"
        PROVE  HasDirectory(d, s) \/ \E u \in Torrent : d.link[s][u] = "incoming"
    BY <1>4, <1>6, <1>7, <2>1 DEF Sound, Backed, InState
  <2>2. QED
    BY <2>1 DEF Backed, InState
<1>14. Rivalry(c) => Rivalry(d)
  <2>1. InState(d, {"duplicate"}) = InState(c, {"duplicate"})
    BY <1>2, <1>4, <1>6 DEF InState
  <2>2. \A s \in InState(c, {"duplicate"}) :
          s \in Release /\ d.release[s].edition = c.release[s].edition
    BY <1>2, <1>4, <1>6 DEF InState
  <2>3. \A e : InSlot(d, InState(c, {"duplicate"}), e) = InSlot(c, InState(c, {"duplicate"}), e)
    BY <2>2 DEF InSlot
  <2>4. QED
    BY <1>6, <1>7, <2>1, <2>2, <2>3 DEF Rivalry
<1>15. QED
  BY <1>6, <1>9, <1>10, <1>11, <1>12, <1>13, <1>14 DEF Sound, SamePlaces

LEMMA AssociateSound ==
  ASSUME NEW c, Sound(c), Rivalry(c), NEW t \in Torrent, NEW complete,
         NEW d \in Associate(c, t, complete)
  PROVE  Sound(d) /\ Rivalry(d) /\ SamePlaces(c, d)
<1> DEFINE missing == MissingAmong(c, Release)
           target == Target(c, missing, Edition[Content[t]], None)
           old == IF target = {} THEN None ELSE CHOOSE s \in target : TRUE
<1>1. old \in Release \cup {None}
  BY DEF Target, InSlot, MissingAmong
<1>2. \/ d = c
      \/ \E r \in Fresh(c) : d = Provisional(c, r, t, old)
      \/ \E r \in Release : c.link[r][t] # "none" /\ d = Incoming(c, r, t)
  BY Zenon DEF Associate, Provisional, Incoming
<1> HIDE DEF old
<1>3. CASE d = c
  BY <1>3 DEF SamePlaces
<1>4. CASE \E r \in Fresh(c) : d = Provisional(c, r, t, old)
  BY <1>1, <1>4, ProvisionalSound
<1>5. CASE \E r \in Release : c.link[r][t] # "none" /\ d = Incoming(c, r, t)
  <2>1. PICK r \in Release : c.link[r][t] # "none" /\ d = Incoming(c, r, t)
    BY <1>5
  <2>2. c \in Catalogue
    BY DEF Sound
  <2>3. d \in Catalogue /\ MadeIncoming(c, d, r, t)
    BY <2>1, <2>2, IncomingEffect
  <2>4. Relinked(c, d)
    BY <2>1, <2>3 DEF Relinked, MadeIncoming
  <2>5. QED
    BY <2>4, RelinkedSound
<1>6. QED
  BY <1>2, <1>3, <1>4, <1>5

(* A poll looks under the path of a completed torrent, or not at all.      *)
Looked(c, d, t) == IF Inspected(t) THEN Seen(c, d, Content[t]) ELSE SamePlaces(c, d)

LEMMA FinalizeSound ==
  ASSUME NEW c, Sound(c), Rivalry(c), NEW t \in Torrent, NEW d \in Finalize(c, t)
  PROVE  Sound(d) /\ Rivalry(d) /\ Looked(c, d, t)
<1> DEFINE found == [c EXCEPT !.lost = c.lost \ {t}, !.doubtful = c.doubtful \ {t}]
<1>1. c \in Catalogue
  BY DEF Sound
<1>2. Framed(c, found)
  BY <1>1 DEF Framed, Catalogue
<1>3. \/ d = c /\ ~Inspected(t)
      \/ d = [found EXCEPT !.lost = found.lost \cup {t}] /\ ~Inspected(t)
      \/ d = [found EXCEPT !.doubtful = found.doubtful \cup {t}] /\ ~Inspected(t)
      \/ /\ Inspected(t)
         /\ \E inc \in IF Linked(c, t, "incoming") = {} THEN {None}
                       ELSE Linked(c, t, "incoming") :
              d \in Reconcile(found, Content[t], {t}, inc)
  BY Zenon DEF Finalize, Inspected
<1> HIDE DEF found
<1>4. Sound(found) /\ Rivalry(found) /\ SamePlaces(c, found)
  BY <1>2, FramedSound
<1>5. CASE d = c /\ ~Inspected(t)
  BY <1>5 DEF Looked, SamePlaces
<1>6. ASSUME ~Inspected(t), Framed(found, d)
      PROVE  Sound(d) /\ Rivalry(d) /\ Looked(c, d, t)
  <2>1. Sound(d) /\ Rivalry(d) /\ SamePlaces(found, d)
    BY <1>4, <1>6, FramedSound
  <2>2. QED
    BY <1>4, <1>6, <2>1 DEF Looked, SamePlaces
<1>7. CASE d = [found EXCEPT !.lost = found.lost \cup {t}] /\ ~Inspected(t)
  <2>1. found \in Catalogue
    BY <1>4 DEF Sound
  <2>2. Framed(found, d)
    BY <1>7, <2>1 DEF Framed, Catalogue
  <2>3. QED
    BY <1>6, <1>7, <2>2
<1>8. CASE d = [found EXCEPT !.doubtful = found.doubtful \cup {t}] /\ ~Inspected(t)
  <2>1. found \in Catalogue
    BY <1>4 DEF Sound
  <2>2. Framed(found, d)
    BY <1>8, <2>1 DEF Framed, Catalogue
  <2>3. QED
    BY <1>6, <1>8, <2>2
<1>9. ASSUME Inspected(t),
             NEW inc \in IF Linked(c, t, "incoming") = {} THEN {None}
                         ELSE Linked(c, t, "incoming"),
             d \in Reconcile(found, Content[t], {t}, inc)
      PROVE  Sound(d) /\ Rivalry(d) /\ Looked(c, d, t)
  <2>1. inc \in Release \cup {None} /\ (inc # None => c.link[inc][t] # "none")
    BY DEF Linked
  <2>2. inc # None => \E u \in {t} : found.link[inc][u] # "none"
    BY <1>2, <2>1 DEF Framed
  <2>3. Content[t] \in Path /\ {t} \in SUBSET Torrent /\ \A u \in {t} : Content[u] = Content[t]
    OBVIOUS
  <2>4. Sound(d) /\ Rivalry(d) /\ Seen(found, d, Content[t])
    BY <1>4, <1>9, <2>1, <2>2, <2>3, ReconcileSound
  <2>5. QED
    BY <1>4, <1>9, <2>3, <2>4 DEF Looked, Seen, SamePlaces
<1>10. QED
  BY <1>3, <1>5, <1>7, <1>8, <1>9

LEMMA DisagreeSound ==
  ASSUME NEW c, Sound(c), Rivalry(c), NEW t \in Torrent, NEW present
  PROVE  LET d == Disagree(c, t, present)
         IN  Sound(d) /\ Rivalry(d) /\ SamePlaces(c, d)
<1> DEFINE attached == Linked(c, t, "attached")
           orphaned == {r \in attached : ~Present(c, r)}
           cleared == Linked(c, t, "historical") \cup orphaned
           kept == attached \ orphaned
           Relink(r) == IF r \in orphaned THEN [c.link[r] EXCEPT ![t] = "historical"]
                        ELSE c.link[r]
           links == [r \in Release |-> Relink(r)]
           doubts == IF present THEN c.removed \ (cleared \cup kept)
                     ELSE (c.removed \ cleared) \cup kept
           d == Disagree(c, t, present)
<1>1. d = [c EXCEPT !.link = links, !.removed = doubts]
  BY DEF Disagree
<1>2. c \in Catalogue
  BY DEF Sound
<1>3. doubts \in SUBSET Release
  BY <1>2 DEF Catalogue, Linked
<1>4. ASSUME NEW r \in Release
      PROVE  /\ Relink(r) \in [Torrent -> Association]
             /\ \A u \in Torrent :
                  /\ Relink(r)[u] = "none" <=> c.link[r][u] = "none"
                  /\ c.link[r][u] = "incoming" => Relink(r)[u] = "incoming"
  <2>1. r \in orphaned => c.link[r][t] = "attached"
    BY DEF Linked
  <2> HIDE DEF orphaned
  <2>2. QED
    BY <1>2, <2>1, Fields DEF Association
<1> HIDE DEF Relink
<1>5. /\ links \in [Release -> [Torrent -> Association]]
      /\ \A r \in Release : links[r] = Relink(r)
  BY <1>4
<1> HIDE DEF links, doubts, d
<1>6. /\ d \in Catalogue /\ d.link = links /\ d.directory = c.directory
      /\ d.release = c.release /\ d.duplicate = c.duplicate
  BY <1>1, <1>2, <1>3, <1>5 DEF Catalogue
<1>7. Relinked(c, d)
  BY <1>4, <1>5, <1>6 DEF Relinked
<1>8. QED
  BY <1>7, RelinkedSound DEF d

LEMMA CancelSound ==
  ASSUME NEW c, Sound(c), Rivalry(c), NEW t \in Torrent
  PROVE  LET d == CancelIncoming(c, t)
         IN  Sound(d) /\ Rivalry(d) /\ SamePlaces(c, d)
<1> DEFINE incoming == Linked(c, t, "incoming")
           ghosts == {r \in incoming : ~HasDirectory(c, r)}
           Relink(r) == IF c.link[r][t] = "incoming"
                        THEN [c.link[r] EXCEPT ![t] = "historical"] ELSE c.link[r]
           links == [r \in Release |-> Relink(r)]
           b == CancelLinkOnly(c, t)
           after == [r \in Release |-> IF r \in ghosts THEN "removed"
                                       ELSE c.release[r].state]
           states == [r \in Release |-> [c.release[r] EXCEPT !.state = after[r]]]
           d == CancelIncoming(c, t)
<1>1. c \in Catalogue
  BY DEF Sound
<1>2. ASSUME NEW r \in Release
      PROVE  /\ Relink(r) \in [Torrent -> Association]
             /\ \A u \in Torrent :
                  /\ Relink(r)[u] = "none" <=> c.link[r][u] = "none"
                  /\ c.link[r][u] = "incoming" =>
                       Relink(r)[u] = "incoming" \/ (u = t /\ r \in incoming)
  BY <1>1, Fields DEF Association, Linked
<1> HIDE DEF Relink
<1>3. b = [c EXCEPT !.link = links]
  BY DEF CancelLinkOnly, Relink
<1>4. /\ links \in [Release -> [Torrent -> Association]]
      /\ \A r \in Release : links[r] = Relink(r)
  BY <1>2
<1>5. \A r \in Release : r \in ghosts <=>
        r \in Linked(c, t, "incoming") /\ ~HasDirectory(c, r)
  OBVIOUS
<1> HIDE DEF ghosts
<1>6. /\ states \in [Release -> [state : State, edition : Slot,
                                 replaces : Release \cup {None}]]
      /\ \A r \in Release : /\ states[r].state = IF r \in ghosts THEN "removed"
                                                 ELSE c.release[r].state
                            /\ states[r].edition = c.release[r].edition
  <2>1. after \in [Release -> State]
    BY <1>1, Fields DEF State
  <2>2. \A r \in Release : after[r] = IF r \in ghosts THEN "removed"
                                      ELSE c.release[r].state
    OBVIOUS
  <2> HIDE DEF after
  <2>3. QED
    BY <1>1, <2>1, <2>2, Relabelled
<1>7. d = [b EXCEPT !.release = states]
  <2>1. \A r \in Release :
          states[r] = IF r \in Linked(c, t, "incoming") /\ ~HasDirectory(c, r)
                      THEN [c.release[r] EXCEPT !.state = "removed"] ELSE c.release[r]
    BY <1>1, <1>5, Fields
  <2>2. states = [r \in Release |->
                    IF r \in Linked(c, t, "incoming") /\ ~HasDirectory(c, r)
                    THEN [c.release[r] EXCEPT !.state = "removed"] ELSE c.release[r]]
    BY <2>1
  <2>3. QED
    BY <2>2, Zenon DEF CancelIncoming
<1> HIDE DEF states, links, b, d
<1>8. /\ d \in Catalogue /\ d.link = links /\ d.directory = c.directory
      /\ d.release = states /\ d.duplicate = c.duplicate
  BY <1>1, <1>3, <1>4, <1>6, <1>7 DEF Catalogue
<1>9. \A r \in Release : /\ HasDirectory(d, r) <=> HasDirectory(c, r)
                         /\ Present(d, r) <=> Present(c, r)
  BY <1>8 DEF HasDirectory, Present
<1>10. OneDirectory(d)
  BY <1>8 DEF Sound, OneDirectory
<1>11. \A r \in Release, u \in Torrent : d.link[r][u] = "none" <=> c.link[r][u] = "none"
  BY <1>2, <1>4, <1>8
<1>12. OnePlace(d)
  BY <1>8, <1>11 DEF Sound, OnePlace
<1>13. Unborn(d)
  BY <1>6, <1>8, <1>11 DEF Sound, Unborn, InState
<1>14. Fitting(d)
  BY <1>5, <1>6, <1>8, <1>9 DEF Sound, Fitting, InState, Active
<1>15. Backed(d)
  BY <1>2, <1>4, <1>5, <1>6, <1>8, <1>9 DEF Sound, Backed, InState
<1>16. Rivalry(d)
  <2>1. InState(d, {"duplicate"}) = InState(c, {"duplicate"})
    BY <1>5, <1>6, <1>8 DEF Sound, Fitting, InState, Active
  <2>2. \A e : \A R \in SUBSET Release : InSlot(d, R, e) = InSlot(c, R, e)
    BY <1>6, <1>8 DEF InSlot
  <2>3. InState(c, {"duplicate"}) \subseteq Release
    BY DEF InState
  <2>4. \A r \in Release : d.release[r].edition = c.release[r].edition
    BY <1>6, <1>8
  <2>5. QED
    BY <1>8, <1>9, <2>1, <2>2, <2>3, <2>4 DEF Rivalry
<1>17. QED
  BY <1>8, <1>10, <1>12, <1>13, <1>14, <1>15, <1>16 DEF Sound, SamePlaces, d

-----------------------------------------------------------------------------
(* The invariant                                                           *)

(* The checks of a directory are its listings without it, until it is gone.*)
Counted(c, g) ==
  \A p \in Path :
    c.directory[p].known =>
      \/ /\ c.directory[p].exists
         /\ c.directory[p].checks = g[p] /\ g[p] < Grace
      \/ ~c.directory[p].exists /\ g[p] >= Grace

ScanIsCurrent ==
  /\ scan.pc = "listed" => scan.seen = truth
  /\ scan.pc = "reconciling" => \A p \in scan.todo : gone[p] = 0

IndInv ==
  /\ TypeOK
  /\ Sound(cat) /\ Rivalry(cat)
  /\ ScanIsCurrent
  /\ Grace > 1 => Counted(cat, gone)

LEMMA CountedSame ==
  ASSUME NEW c, NEW d, NEW g, Counted(c, g), SamePlaces(c, d)
  PROVE  Counted(d, g)
BY DEF Counted, SamePlaces

LEMMA CountedSeen ==
  ASSUME NEW c, NEW d, NEW g, NEW h, NEW p \in Path, Counted(c, g), Seen(c, d, p),
         h[p] = 0, \A q \in Path \ {p} : h[q] = g[q]
  PROVE  Counted(d, h)
BY DEF Counted, Seen

LEMMA InitInv == Init => IndInv
<1> SUFFICES ASSUME Init PROVE IndInv
  OBVIOUS
<1> USE DEF Init
<1>1. TypeOK
  <2>1. \A e \in {CHOOSE e \in Slot : TRUE} : e \in Slot
    BY DEF Slot
  <2>2. cat \in Catalogue
    BY <2>1 DEF Catalogue, State, Association, None
  <2>3. QED
    BY <2>2 DEF TypeOK, ClientState, Idle
<1>2. \A p \in Path : cat.directory[p].release = None /\ ~cat.directory[p].known
  OBVIOUS
<1>3. \A r \in Release : /\ cat.release[r].state = "absent"
                         /\ \A t \in Torrent : cat.link[r][t] = "none"
  OBVIOUS
<1>4. \A r \in Release : ~HasDirectory(cat, r)
  BY <1>2 DEF HasDirectory, None, Release
<1>5. cat.duplicate = FALSE
  OBVIOUS
<1> HIDE DEF Init
<1>6. Sound(cat)
  <2>1. OneDirectory(cat) /\ OnePlace(cat) /\ Unborn(cat)
    BY <1>2, <1>3 DEF OneDirectory, OnePlace, Unborn, InState
  <2>2. Fitting(cat) /\ Backed(cat)
    BY <1>3, <1>4 DEF Fitting, Backed, InState, Active
  <2>3. QED
    BY <1>1, <2>1, <2>2 DEF Sound, TypeOK
<1>7. Rivalry(cat)
  BY <1>3, <1>5 DEF Rivalry, InState
<1>8. ScanIsCurrent
  BY DEF Init, Idle, ScanIsCurrent
<1>9. Counted(cat, gone)
  BY <1>2 DEF Counted
<1>10. QED
  BY <1>1, <1>6, <1>7, <1>8, <1>9 DEF IndInv

LEMMA AbsentStep == IndInv /\ ScanAbsent => IndInv'
<1> SUFFICES ASSUME IndInv, ScanAbsent PROVE IndInv'
  OBVIOUS
<1> DEFINE m == MarkAbsent(cat, scan.seen)
<1>1. /\ TypeOK /\ Sound(cat) /\ Rivalry(cat)
      /\ scan.seen = truth /\ scan.seen \in SUBSET Path
  BY DEF IndInv, TypeOK, ScanAbsent, ScanIsCurrent
<1>2. Sound(m) /\ Rivalry(m) /\ m.directory = Checked(cat, scan.seen).directory
  BY <1>1, MarkAbsentSound
<1>3. cat' = [m EXCEPT !.outage = FALSE]
  BY DEF ScanAbsent
<1> HIDE DEF m
<1>4. m \in Catalogue
  BY <1>2 DEF Sound
<1>5. Framed(m, cat')
  BY <1>3, <1>4 DEF Framed, Catalogue
<1>6. Sound(cat') /\ Rivalry(cat')
  BY <1>2, <1>5, FramedSound
<1>7. /\ scan' = [scan EXCEPT !.pc = "reconciling", !.todo = scan.seen]
      /\ gone' = [p \in Path |-> IF p \in truth THEN 0
                                 ELSE IF gone[p] > Grace THEN gone[p] ELSE gone[p] + 1]
      /\ UNCHANGED <<disk, rootUp, client, report, pending, tracked, truth, changes>>
  BY DEF ScanAbsent
<1>8. TypeOK'
  <2>1. gone' \in [Path -> Nat]
    BY <1>1, <1>7 DEF TypeOK
  <2>2. scan' \in [pc : {"idle", "listed", "reconciling"},
                   seen : SUBSET Path, todo : SUBSET Path]
    BY <1>1, <1>7 DEF TypeOK
  <2>3. QED
    BY <1>1, <1>6, <1>7, <2>1, <2>2 DEF TypeOK, Sound
<1>9. ScanIsCurrent'
  BY <1>1, <1>7 DEF TypeOK, ScanIsCurrent
<1>10. ASSUME Grace > 1
       PROVE  Counted(cat', gone')
  <2>1. Counted(cat, gone) /\ cat \in Catalogue
    BY <1>1, <1>10 DEF IndInv, Sound
  <2>2. ASSUME NEW p \in Path, cat'.directory[p].known
        PROVE  \/ /\ cat'.directory[p].exists
                  /\ cat'.directory[p].checks = gone'[p] /\ gone'[p] < Grace
               \/ ~cat'.directory[p].exists /\ gone'[p] >= Grace
    <3> DEFINE e == Checked(cat, scan.seen).directory[p]
    <3>1. cat'.directory[p] = e
      BY <1>2, <1>5 DEF Framed
    <3>2. /\ e.known = cat.directory[p].known
          /\ cat.directory[p].known /\ p \in scan.seen => e.exists /\ e.checks = 0
          /\ cat.directory[p].known /\ p \notin scan.seen /\ ~cat.directory[p].exists =>
               ~e.exists
          /\ cat.directory[p].known /\ p \notin scan.seen /\ cat.directory[p].exists =>
               /\ e.checks = cat.directory[p].checks + 1
               /\ e.exists <=>
                    cat.directory[p].checks = 0 \/ cat.directory[p].checks + 1 < Grace
      BY <1>1, <2>1, CheckedEffect
    <3> HIDE DEF e
    <3>3. cat.directory[p].known
      BY <2>2, <3>1, <3>2
    <3>4. gone[p] \in Nat
      BY <1>1 DEF TypeOK
    <3>5. CASE p \in scan.seen
      BY <1>1, <1>7, <1>10, <3>1, <3>2, <3>3, <3>5
    <3>6. CASE p \notin scan.seen /\ ~cat.directory[p].exists
      <4>1. gone[p] >= Grace
        BY <2>1, <3>3, <3>6 DEF Counted
      <4>2. QED
        BY <1>1, <1>7, <3>1, <3>2, <3>3, <3>4, <3>6, <4>1
    <3>7. CASE p \notin scan.seen /\ cat.directory[p].exists
      <4>1. cat.directory[p].checks = gone[p] /\ gone[p] < Grace
        BY <2>1, <3>3, <3>7 DEF Counted
      <4>2. gone'[p] = gone[p] + 1
        BY <1>1, <1>7, <3>4, <3>7, <4>1
      <4>3. e.checks = gone[p] + 1 /\ (e.exists <=> gone[p] + 1 < Grace)
        BY <1>10, <3>2, <3>3, <3>4, <3>7, <4>1
      <4>4. QED
        BY <3>1, <3>4, <4>2, <4>3
    <3>8. QED
      BY <3>5, <3>6, <3>7
  <2>3. QED
    BY <2>2 DEF Counted
<1>11. QED
  BY <1>6, <1>8, <1>9, <1>10 DEF IndInv

LEMMA DirectoryStep == ASSUME NEW p \in Path PROVE IndInv /\ ScanDirectory(p) => IndInv'
<1> SUFFICES ASSUME IndInv, ScanDirectory(p) PROVE IndInv'
  OBVIOUS
<1>1. TypeOK /\ Sound(cat) /\ Rivalry(cat) /\ ScanIsCurrent
  BY DEF IndInv
<1>2. /\ scan.pc = "reconciling" /\ p \in scan.todo
      /\ cat' \in Reconcile(cat, p, {}, None)
      /\ scan' = [scan EXCEPT !.todo = scan.todo \ {p}]
      /\ UNCHANGED <<disk, rootUp, client, report, pending, tracked, truth, gone, changes>>
  BY DEF ScanDirectory
<1>3. Sound(cat') /\ Rivalry(cat') /\ Seen(cat, cat', p)
  <2>1. {} \in SUBSET Torrent /\ None \in Release \cup {None}
    OBVIOUS
  <2>2. \A t \in {} : Content[t] = p
    OBVIOUS
  <2>3. QED
    BY <1>1, <1>2, <2>1, <2>2, ReconcileSound
<1>4. TypeOK'
  <2>1. scan' \in [pc : {"idle", "listed", "reconciling"},
                   seen : SUBSET Path, todo : SUBSET Path]
    BY <1>1, <1>2 DEF TypeOK
  <2>2. QED
    BY <1>1, <1>2, <1>3, <2>1 DEF TypeOK, Sound
<1>5. ScanIsCurrent'
  BY <1>1, <1>2 DEF ScanIsCurrent, TypeOK
<1>6. Grace > 1 => Counted(cat', gone')
  <2>1. gone[p] = 0
    BY <1>1, <1>2 DEF ScanIsCurrent
  <2>2. QED
    BY <1>2, <1>3, <2>1, CountedSeen DEF IndInv
<1>7. QED
  BY <1>3, <1>4, <1>5, <1>6 DEF IndInv

LEMMA PresentStep == ASSUME NEW t \in Torrent PROVE IndInv /\ PollPresent(t) => IndInv'
<1> SUFFICES ASSUME IndInv, PollPresent(t) PROVE IndInv'
  OBVIOUS
<1> DEFINE found == report[t] = "complete" /\ Inspected(t)
<1>1. TypeOK /\ Sound(cat) /\ Rivalry(cat) /\ ScanIsCurrent
  BY DEF IndInv
<1>2. PICK c \in Associate(cat, t, report[t] = "complete") :
        \E d \in IF report[t] = "complete" THEN Finalize(c, t) ELSE {c} :
          cat' = Disagree(d, t, TRUE)
  BY DEF PollPresent
<1>3. Sound(c) /\ Rivalry(c) /\ SamePlaces(cat, c)
  BY <1>1, <1>2, AssociateSound
<1>4. PICK d \in IF report[t] = "complete" THEN Finalize(c, t) ELSE {c} :
        cat' = Disagree(d, t, TRUE)
  BY <1>2
<1>5. /\ Sound(d) /\ Rivalry(d)
      /\ found => Seen(c, d, Content[t])
      /\ ~found => SamePlaces(c, d)
  <2>1. CASE report[t] = "complete"
    <3>1. Sound(d) /\ Rivalry(d) /\ Looked(c, d, t)
      BY <1>3, <1>4, <2>1, FinalizeSound
    <3>2. QED
      BY <2>1, <3>1 DEF Looked
  <2>2. CASE report[t] # "complete"
    BY <1>3, <1>4, <2>2 DEF SamePlaces
  <2>3. QED
    BY <2>1, <2>2
<1>6. Sound(cat') /\ Rivalry(cat') /\ SamePlaces(d, cat')
  BY <1>4, <1>5, DisagreeSound
<1>7. /\ gone' = IF found THEN [gone EXCEPT ![Content[t]] = 0] ELSE gone
      /\ pending' = pending \ {t} /\ tracked' = tracked \cup {t}
      /\ UNCHANGED <<disk, rootUp, client, scan, report, truth, changes>>
  BY DEF PollPresent
<1> HIDE DEF found
<1>8. /\ gone' \in [Path -> Nat]
      /\ \A p \in Path : gone'[p] = gone[p] \/ gone'[p] = 0
      /\ ~found => gone' = gone
      /\ found => /\ gone'[Content[t]] = 0
                  /\ \A q \in Path \ {Content[t]} : gone'[q] = gone[q]
  BY <1>1, <1>7 DEF TypeOK
<1>9. TypeOK'
  BY <1>1, <1>6, <1>7, <1>8 DEF TypeOK, Sound
<1>10. ScanIsCurrent'
  BY <1>1, <1>7, <1>8 DEF ScanIsCurrent, TypeOK
<1>11. ASSUME Grace > 1
       PROVE  Counted(cat', gone')
  <2>1. Counted(c, gone)
    BY <1>3, <1>11, CountedSame DEF IndInv
  <2>2. CASE found
    <3>1. Counted(d, gone')
      BY <1>5, <1>8, <2>1, <2>2, CountedSeen
    <3>2. QED
      BY <1>6, <3>1, CountedSame
  <2>3. CASE ~found
    BY <1>5, <1>6, <1>8, <2>1, <2>3, CountedSame
  <2>4. QED
    BY <2>2, <2>3
<1>12. QED
  BY <1>6, <1>9, <1>10, <1>11 DEF IndInv

LEMMA AbsentTorrentStep ==
  ASSUME NEW t \in Torrent PROVE IndInv /\ PollAbsent(t) => IndInv'
<1> SUFFICES ASSUME IndInv, PollAbsent(t) PROVE IndInv'
  OBVIOUS
<1>1. TypeOK /\ Sound(cat) /\ Rivalry(cat) /\ ScanIsCurrent
  BY DEF IndInv
<1>2. /\ cat' = IF t \in tracked THEN Disagree(CancelIncoming(cat, t), t, FALSE) ELSE cat
      /\ pending' = pending \ {t} /\ tracked' = tracked \ {t}
      /\ UNCHANGED <<disk, rootUp, client, scan, report, truth, gone, changes>>
  BY DEF PollAbsent
<1>3. Sound(cat') /\ Rivalry(cat') /\ SamePlaces(cat, cat')
  <2>1. CASE t \in tracked
    <3> DEFINE b == CancelIncoming(cat, t)
    <3>1. Sound(b) /\ Rivalry(b) /\ SamePlaces(cat, b)
      BY <1>1, CancelSound
    <3>2. cat' = Disagree(b, t, FALSE)
      BY <1>2, <2>1
    <3> HIDE DEF b
    <3>3. Sound(cat') /\ Rivalry(cat') /\ SamePlaces(b, cat')
      BY <3>1, <3>2, DisagreeSound
    <3>4. QED
      BY <3>1, <3>3 DEF SamePlaces
  <2>2. CASE t \notin tracked
    BY <1>1, <1>2, <2>2 DEF SamePlaces
  <2>3. QED
    BY <2>1, <2>2
<1>4. TypeOK'
  BY <1>1, <1>2, <1>3 DEF TypeOK, Sound
<1>5. ScanIsCurrent'
  BY <1>1, <1>2 DEF ScanIsCurrent
<1>6. Grace > 1 => Counted(cat', gone')
  BY <1>2, <1>3, CountedSame DEF IndInv
<1>7. QED
  BY <1>3, <1>4, <1>5, <1>6 DEF IndInv

LEMMA NextInv == IndInv /\ [Next]_vars => IndInv'
<1> SUFFICES ASSUME IndInv, [Next]_vars PROVE IndInv'
  OBVIOUS
<1> USE DEF IndInv
<1>1. ASSUME cat' = cat, gone' = gone, TypeOK', ScanIsCurrent'
      PROVE  IndInv'
  BY <1>1
<1>2. CASE DiskChanges \/ MountChanges \/ ClientChanges \/ PollList \/ PollStops
  <2>1. TypeOK'
    <3>1. CASE DiskChanges
      BY <3>1 DEF TypeOK, DiskChanges, Change
    <3>2. CASE MountChanges
      BY <3>2 DEF TypeOK, MountChanges, Change
    <3>3. CASE ClientChanges
      BY <3>3 DEF TypeOK, ClientChanges, Change
    <3>4. CASE PollList
      BY <3>4 DEF TypeOK, PollList
    <3>5. CASE PollStops
      BY <3>5 DEF TypeOK, PollStops, Change
    <3>6. QED
      BY <1>2, <3>1, <3>2, <3>3, <3>4, <3>5
  <2>2. ScanIsCurrent' /\ cat' = cat /\ gone' = gone
    BY <1>2 DEF ScanIsCurrent, DiskChanges, MountChanges, ClientChanges, PollList, PollStops
  <2>3. QED
    BY <1>1, <2>1, <2>2
<1>3. CASE ScanOutage
  <2>1. cat \in Catalogue /\ cat' = [cat EXCEPT !.outage = TRUE]
        /\ UNCHANGED <<disk, rootUp, client, scan, report, pending, tracked, truth, gone, changes>>
    BY <1>3 DEF ScanOutage, TypeOK
  <2>2. Framed(cat, cat')
    BY <2>1 DEF Framed, Catalogue
  <2>3. Sound(cat') /\ Rivalry(cat') /\ SamePlaces(cat, cat')
    BY <2>2, FramedSound
  <2>4. TypeOK' /\ ScanIsCurrent'
    BY <2>1, <2>3 DEF TypeOK, ScanIsCurrent, Sound
  <2>5. QED
    BY <2>1, <2>3, <2>4, CountedSame
<1>4. CASE ScanList
  <2>1. TypeOK'
    BY <1>4 DEF TypeOK, ScanList
  <2>2. ScanIsCurrent' /\ cat' = cat /\ gone' = gone
    BY <1>4 DEF ScanIsCurrent, ScanList
  <2>3. QED
    BY <1>1, <2>1, <2>2
<1>5. CASE ScanEnd \/ ScanStops
  <2>1. TypeOK'
    BY <1>5 DEF TypeOK, ScanEnd, ScanStops, Change, Idle
  <2>2. ScanIsCurrent' /\ cat' = cat /\ gone' = gone
    BY <1>5 DEF ScanIsCurrent, ScanEnd, ScanStops, Idle
  <2>3. QED
    BY <1>1, <2>1, <2>2
<1>6. ASSUME NEW t \in Torrent, PollChecking(t)
      PROVE  IndInv'
  <2>1. TypeOK'
    BY <1>6 DEF TypeOK, PollChecking
  <2>2. ScanIsCurrent' /\ cat' = cat /\ gone' = gone
    BY <1>6 DEF ScanIsCurrent, PollChecking
  <2>3. QED
    BY <1>1, <2>1, <2>2
<1>7. CASE UNCHANGED vars
  <2>1. TypeOK' /\ ScanIsCurrent' /\ cat' = cat /\ gone' = gone
    BY <1>7 DEF TypeOK, ScanIsCurrent, vars
  <2>2. QED
    BY <1>1, <2>1
<1> HIDE DEF IndInv
<1>8. CASE Scan
  BY <1>3, <1>4, <1>5, <1>8, AbsentStep, DirectoryStep DEF Scan
<1>9. CASE Poll
  BY <1>2, <1>6, <1>9, PresentStep, AbsentTorrentStep DEF Poll
<1>10. QED
  BY <1>2, <1>5, <1>7, <1>8, <1>9 DEF Next

-----------------------------------------------------------------------------
(* Theorems                                                                *)

THEOREM Invariance == Spec => []IndInv
BY InitInv, NextInv, PTL DEF Spec

(* The variables have their types, releases and links included.            *)
THEOREM Typed == Spec => []TypeOK
<1>1. IndInv => TypeOK
  BY DEF IndInv
<1>2. QED
  BY <1>1, Invariance, PTL

(* Whichever of scan, poll and restart came last, the state of a release   *)
(* and the presence of its directory agree.                                *)
THEOREM StatesFit == Spec => []StatesFitDirectories
<1>1. IndInv => StatesFitDirectories
  BY DEF IndInv, Sound, Fitting, StatesFitDirectories
<1>2. QED
  BY <1>1, Invariance, PTL

(* The duplicate label and the duplicate Problem come and go together, and *)
(* only with two present releases of one edition.                          *)
THEOREM DuplicatesPaired == Spec => []DuplicatesHaveRivals
<1>1. IndInv => DuplicatesHaveRivals
  BY DEF IndInv, Rivalry, DuplicatesHaveRivals
<1>2. QED
  BY <1>1, Invariance, PTL

(* No provisional release outlives the download it stands for.             *)
THEOREM GhostFree == Spec => []NoGhosts
<1>1. IndInv => NoGhosts
  BY DEF IndInv, Sound, Backed, NoGhosts
<1>2. QED
  BY <1>1, Invariance, PTL

(* mark_absent_known_directories calls a directory gone after exactly the  *)
(* grace of its root, when that is more than one check: its first miss     *)
(* only starts the period.                                                 *)
THEOREM AbsenceIsPatient ==
  ASSUME Grace > 1
  PROVE  Spec => []AbsenceTakesGrace
<1>1. IndInv => AbsenceTakesGrace
  <2>1. ASSUME IndInv, NEW p \in Path, cat.directory[p].known
        PROVE  ~cat.directory[p].exists <=> gone[p] >= Grace
    <3>1. gone[p] \in Nat
      BY <2>1 DEF IndInv, TypeOK
    <3>2. QED
      BY <2>1, <3>1 DEF IndInv, Counted
  <2>2. QED
    BY <2>1 DEF AbsenceTakesGrace
<1>2. QED
  BY <1>1, Invariance, PTL

=============================================================================

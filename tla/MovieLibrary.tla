---------------------------- MODULE MovieLibrary ----------------------------
(***************************************************************************)
(* The catalogue of one Movie: directories found under its storage root,   *)
(* releases they hold, torrents linked to them and the Problems about them,*)
(* kept by root scans and by the qBittorrent poll from a disk, a mount and *)
(* a client that change on their own.                                      *)
(*                                                                         *)
(* A catalogue is a record, and each service function an operator from a   *)
(* catalogue to the one, or to the set of those, it may leave.  A step is  *)
(* a committed transaction of a scan, or one torrent of a poll.            *)
(***************************************************************************)
EXTENDS Naturals, FiniteSets

CONSTANTS
  Path,        \* directories of this movie that may be under the root
  Edition,     \* Edition[p]: the edition its folder name parses to
  Unparsed,    \* paths with no usable title and year
  FolderOnly,  \* paths identified by the folder name alone, not the files
  Torrent,
  Content,     \* Content[t]: where the client keeps torrent t
  Grace,       \* StorageRoot.missing_grace_checks
  MaxRelease,  \* bound: releases ever created
  MaxChanges   \* bound: changes of the world and interrupted runs

Slot == {Edition[p] : p \in Path}

ASSUME PathAssumption ==
  /\ Path # {} /\ Unparsed \subseteq Path /\ FolderOnly \subseteq Path
  /\ Content \in [Torrent -> Path]
ASSUME BoundAssumption ==
  Grace \in Nat \ {0} /\ MaxRelease \in Nat /\ MaxChanges \in Nat

Release == 1..MaxRelease
None == 0

State == {"absent", "current", "missing", "replaced", "removed", "duplicate"}
Association == {"none", "incoming", "attached", "historical"}
Active == {"current", "duplicate"}

(***************************************************************************)
(* directory: checks = 0 says that missing_since is null.  release: the    *)
(* release a provisional one replaces, or None.  The other fields are the  *)
(* subjects of OPEN Problems: duplicate and review of the movie, unsure of *)
(* a directory, lost and doubtful of a torrent, removed of a release,      *)
(* outage of the root.                                                     *)
(***************************************************************************)
Catalogue ==
  [directory : [Path -> [known : BOOLEAN, exists : BOOLEAN,
                         checks : Nat, release : Release \cup {None}]],
   release   : [Release -> [state : State, edition : Slot,
                            replaces : Release \cup {None}]],
   link      : [Release -> [Torrent -> Association]],
   duplicate : BOOLEAN,
   review    : SUBSET {"ambiguous", "limit"},
   unsure    : SUBSET Path,
   lost      : SUBSET Torrent,
   doubtful  : SUBSET Torrent,
   removed   : SUBSET Release,
   outage    : BOOLEAN]

ClientState == {"absent", "downloading", "checking", "complete"}

VARIABLES
  disk,     \* paths that really hold media
  rootUp,   \* the root is mounted
  client,   \* client[t]: what qBittorrent would report of t
  cat,      \* the committed catalogue
  scan,     \* the root scan: phase, paths it saw, paths left to reconcile
  report,   \* the poll's answer of the client
  pending,  \* torrents of it still to process
  tracked,  \* torrents whose client observation says is_present
  truth,    \* observer: the disk when the scan listed the root
  gone,     \* observer: gone[p]: listings in a row without p
  changes

world == <<disk, rootUp, client>>
vars == <<disk, rootUp, client, cat, scan, report, pending, tracked, truth, gone, changes>>

TypeOK ==
  /\ disk \subseteq Path
  /\ rootUp \in BOOLEAN
  /\ client \in [Torrent -> ClientState]
  /\ cat \in Catalogue
  /\ scan \in [pc : {"idle", "listed", "reconciling"},
               seen : SUBSET Path, todo : SUBSET Path]
  /\ report \in [Torrent -> ClientState]
  /\ pending \subseteq Torrent
  /\ tracked \subseteq Torrent
  /\ truth \subseteq Path
  /\ gone \in [Path -> Nat]
  /\ changes \in 0..MaxChanges

Idle == [pc |-> "idle", seen |-> {}, todo |-> {}]

(* A root whose first scan found it empty, and a client with no torrent. *)
Init ==
  /\ disk = {}
  /\ rootUp = TRUE
  /\ client = [t \in Torrent |-> "absent"]
  /\ cat = [directory |-> [p \in Path |-> [known |-> FALSE, exists |-> FALSE,
                                           checks |-> 0, release |-> None]],
            release |-> [r \in Release |-> [state |-> "absent",
                                            edition |-> CHOOSE e \in Slot : TRUE,
                                            replaces |-> None]],
            link |-> [r \in Release |-> [t \in Torrent |-> "none"]],
            duplicate |-> FALSE, review |-> {}, unsure |-> {}, lost |-> {},
            doubtful |-> {}, removed |-> {}, outage |-> FALSE]
  /\ scan = Idle
  /\ report = client
  /\ pending = {}
  /\ tracked = {}
  /\ truth = {}
  /\ gone = [p \in Path |-> 0]
  /\ changes = 0

-----------------------------------------------------------------------------
(* What a catalogue says                                                   *)

InState(c, S) == {r \in Release : c.release[r].state \in S}
HasDirectory(c, r) == \E p \in Path : c.directory[p].release = r
Present(c, r) ==
  \E p \in Path : c.directory[p].release = r /\ c.directory[p].exists
InSlot(c, R, e) == {r \in R : c.release[r].edition = e}
Linked(c, t, association) == {r \in Release : c.link[r][t] = association}

(* The id a new release gets. *)
Fresh(c) ==
  {r \in InState(c, {"absent"}) : \A s \in InState(c, {"absent"}) : r <= s}

-----------------------------------------------------------------------------
(* _refresh_movie_duplicate_problem and mark_absent_known_directories      *)

RefreshKeepsLabels(c) ==
  LET present == {r \in InState(c, Active) : Present(c, r)}
      twins == {r \in present : InSlot(c, present, c.release[r].edition) # {r}}
  IN  [c EXCEPT !.release = [r \in Release |->
                  IF r \in twins THEN [@[r] EXCEPT !.state = "duplicate"] ELSE @[r]],
                !.duplicate = twins # {}]

RefreshDuplicates(c) ==
  LET present == {r \in InState(c, Active) : Present(c, r)}
      twins == {r \in present : InSlot(c, present, c.release[r].edition) # {r}}
      Relabel(r, s) ==
        IF r \in twins THEN "duplicate"
        ELSE IF s # "duplicate" THEN s
        ELSE IF r \in present THEN "current" ELSE "missing"
  IN  [c EXCEPT !.release = [r \in Release |->
                  [c.release[r] EXCEPT !.state = Relabel(r, c.release[r].state)]],
                !.duplicate = twins # {}]

Sighted(d) == [d EXCEPT !.known = TRUE, !.exists = TRUE, !.checks = 0]

(* The first miss only starts the grace period. *)
MissedOnceMore(d) ==
  [d EXCEPT !.checks = @ + 1, !.exists = d.checks + 1 <= Grace]

Missed(d) ==
  [d EXCEPT !.checks = @ + 1,
            !.exists = d.checks = 0 \/ d.checks + 1 < Grace]

Checked(c, seen) ==
  [c EXCEPT !.directory = [p \in Path |->
     IF ~c.directory[p].known THEN c.directory[p]
     ELSE IF p \in seen THEN Sighted(c.directory[p])
     ELSE IF c.directory[p].exists THEN Missed(c.directory[p]) ELSE c.directory[p]]]

MarkAbsent(c, seen) ==
  LET d == Checked(c, seen)
      Turned(r, to) == \E p \in Path : /\ c.directory[p].release = r
                                       /\ c.directory[p].exists = ~to
                                       /\ d.directory[p].exists = to
      Restate(r, s) ==
        IF s = "missing" /\ Turned(r, TRUE) THEN "current"
        ELSE IF s \in Active /\ Turned(r, FALSE) THEN "missing" ELSE s
  IN  RefreshDuplicates([d EXCEPT !.release = [r \in Release |->
                           [c.release[r] EXCEPT !.state = Restate(r, c.release[r].state)]]])

-----------------------------------------------------------------------------
(* reconcile_movie_directory, for the torrents T (none or one) that led to *)
(* the path and the provisional release inc of that torrent, or None.      *)

(* The path already has a release: only its presence and links are news.   *)
RecogniseUnlinked(c, p, T, inc) ==
  LET own == c.directory[p].release
  IN  [c EXCEPT !.directory[p] = Sighted(c.directory[p]),
                !.release[own].state = IF @ = "missing" THEN "current" ELSE @]

Recognise(c, p, T, inc) ==
  LET own == c.directory[p].release
      stray == IF T = {} THEN {} ELSE {inc} \ {None, own}
      Restate(r, s) ==
        IF r = own /\ s = "missing" THEN "current"
        ELSE IF r \in stray /\ ~HasDirectory(c, r) THEN "removed" ELSE s
      Relink(r, t) ==
        IF t \in T /\ r = own THEN "attached"
        ELSE IF t \in T /\ r \in stray /\ c.link[r][t] = "incoming" THEN "historical"
        ELSE c.link[r][t]
  IN  [c EXCEPT !.directory[p] = Sighted(c.directory[p]),
                !.release = [r \in Release |->
                  [c.release[r] EXCEPT !.state = Restate(r, c.release[r].state)]],
                !.link = [r \in Release |-> [t \in Torrent |-> Relink(r, t)]]]

(* The release goes to inc, or to a new one, with the path's edition. *)
Attach(c, p, T, inc, state) ==
  {RefreshDuplicates(
     [c EXCEPT !.directory[p].release = r,
               !.release[r].state = state,
               !.release[r].edition = Edition[p],
               !.link[r] = [t \in Torrent |-> IF t \in T THEN "attached" ELSE c.link[r][t]],
               !.review = {}]) :
   r \in IF inc = None THEN Fresh(c) ELSE {inc}}

MissingAmong(c, R) ==
  {r \in R \cap InState(c, {"current", "missing"}) : ~Present(c, r)}

(* The release a newcomer replaces: the preferred one, else the only one   *)
(* of its edition, else the only one; none when that leaves a choice.      *)
Target(c, missing, e, preferred) ==
  IF preferred \in missing THEN {preferred}
  ELSE IF Cardinality(InSlot(c, missing, e)) = 1 THEN InSlot(c, missing, e)
  ELSE IF Cardinality(missing) = 1 THEN missing
  ELSE {}

MaxActive == 3

(* ReconciliationEngine.reconcile_candidate for an identified, complete    *)
(* directory at a path no release has, and what is done about each verdict.*)
Decide(c, p, T, inc) ==
  LET others  == (Release \ InState(c, {"absent"})) \ {inc}
      active  == {r \in others \cap InState(c, Active) : Present(c, r)}
      rivals  == InSlot(c, active, Edition[p])
      missing == MissingAmong(c, others)
      target  == Target(c, missing, Edition[p],
                        IF inc = None THEN None ELSE c.release[inc].replaces)
  IN  CASE rivals # {} ->
             UNION {Attach([c EXCEPT !.release[old].state = "duplicate"],
                           p, T, None, "duplicate") : old \in rivals}
        [] rivals = {} /\ target # {} ->
             UNION {Attach([c EXCEPT !.release[old].state = "replaced"],
                           p, T, inc, "current") : old \in target}
        [] rivals = {} /\ missing # {} /\ target = {} ->
             {[c EXCEPT !.review = {"ambiguous"}]}
        [] rivals = {} /\ missing = {} /\ Cardinality(active) >= MaxActive ->
             {[c EXCEPT !.review = {"limit"}]}
        [] OTHER -> Attach(c, p, T, inc, "current")

Reconcile(c, p, T, inc) ==
  IF c.directory[p].release # None THEN {Recognise(c, p, T, inc)}
  ELSE LET d == [c EXCEPT !.directory[p] = Sighted(c.directory[p])]
       IN  IF p \in Unparsed THEN {[d EXCEPT !.unsure = @ \cup {p}]}
           ELSE Decide([d EXCEPT !.unsure = @ \ {p}], p, T, inc)

-----------------------------------------------------------------------------
(* The torrent side                                                        *)

(* associate_incoming_torrent: the first report creates a provisional      *)
(* release; later ones wake up some link of the torrent while it downloads.*)
Associate(c, t, complete) ==
  LET links   == {r \in Release : c.link[r][t] # "none"}
      missing == MissingAmong(c, Release)
      target  == Target(c, missing, Edition[Content[t]], None)
      Provisional(r) ==
        [c EXCEPT !.release[r] = [state |-> "missing", edition |-> Edition[Content[t]],
                                  replaces |-> IF target = {} THEN None
                                               ELSE CHOOSE old \in target : TRUE],
                  !.link[r][t] = "incoming"]
      Woken(r) ==
        IF complete \/ c.link[r][t] = "attached" THEN c
        ELSE [c EXCEPT !.link[r][t] = "incoming"]
  IN  IF Content[t] \in Unparsed THEN {c}
      ELSE IF links = {} THEN {Provisional(r) : r \in Fresh(c)}
      ELSE {Woken(r) : r \in links}

(* finalize_completed_torrent, run at every poll of a complete torrent. *)
Inspected(t) == rootUp /\ Content[t] \in disk \ (Unparsed \cup FolderOnly)

Finalize(c, t) ==
  LET incoming == Linked(c, t, "incoming")
      found == [c EXCEPT !.lost = @ \ {t}, !.doubtful = @ \ {t}]
  IN  IF ~rootUp THEN {c}
      ELSE IF Content[t] \notin disk
        THEN {[found EXCEPT !.lost = @ \cup {t}]}
      ELSE IF ~Inspected(t)
        THEN {[found EXCEPT !.doubtful = @ \cup {t}]}
      ELSE UNION {Reconcile(found, Content[t], {t}, inc)
                   : inc \in IF incoming = {} THEN {None} ELSE incoming}

(* reconcile_torrent_disagreements *)
Disagree(c, t, present) ==
  LET attached == Linked(c, t, "attached")
      orphaned == {r \in attached : ~Present(c, r)}
      cleared  == Linked(c, t, "historical") \cup orphaned
      kept     == attached \ orphaned
  IN  [c EXCEPT !.link = [r \in Release |->
                    IF r \in orphaned THEN [c.link[r] EXCEPT ![t] = "historical"]
                    ELSE c.link[r]],
                !.removed = IF present THEN @ \ (cleared \cup kept)
                            ELSE (@ \ cleared) \cup kept]

(* cancel_incoming_torrent *)
CancelLinkOnly(c, t) ==
  [c EXCEPT !.link = [r \in Release |->
     IF c.link[r][t] = "incoming" THEN [c.link[r] EXCEPT ![t] = "historical"]
     ELSE c.link[r]]]

CancelRemovesAny(c, t) ==
  [CancelLinkOnly(c, t) EXCEPT !.release = [r \in Release |->
     IF r \in Linked(c, t, "incoming")
     THEN [@[r] EXCEPT !.state = "removed"] ELSE @[r]]]

CancelIncoming(c, t) ==
  [CancelLinkOnly(c, t) EXCEPT !.release = [r \in Release |->
     IF r \in Linked(c, t, "incoming") /\ ~HasDirectory(c, r)
     THEN [c.release[r] EXCEPT !.state = "removed"] ELSE c.release[r]]]

-----------------------------------------------------------------------------
(* The world                                                               *)

Change ==
  /\ changes < MaxChanges
  /\ changes' = changes + 1

DiskChanges ==
  /\ Change
  /\ \E p \in Path : disk' = (disk \ {p}) \cup ({p} \ disk)
  /\ UNCHANGED <<rootUp, client, cat, scan, report, pending, tracked, truth, gone>>

MountChanges ==
  /\ Change
  /\ rootUp' = ~rootUp
  /\ UNCHANGED <<disk, client, cat, scan, report, pending, tracked, truth, gone>>

ClientChanges ==
  /\ Change
  /\ \E t \in Torrent, s \in ClientState :
       client[t] # s /\ client' = [client EXCEPT ![t] = s]
  /\ UNCHANGED <<disk, rootUp, cat, scan, report, pending, tracked, truth, gone>>

-----------------------------------------------------------------------------
(* A root scan (run_storage_root_scan; one at a time under the root lock)  *)

(* An outage is one Problem of the root, and the end of the scan. *)
ScanOutage ==
  /\ scan.pc = "idle"
  /\ ~rootUp
  /\ cat' = [cat EXCEPT !.outage = TRUE]
  /\ UNCHANGED <<disk, rootUp, client, scan, report, pending, tracked, truth, gone, changes>>

ScanListUnguarded ==
  /\ scan.pc = "idle"
  /\ scan' = [pc |-> "listed", seen |-> IF rootUp THEN disk ELSE {}, todo |-> {}]
  /\ truth' = disk
  /\ UNCHANGED <<disk, rootUp, client, cat, report, pending, tracked, gone, changes>>

ScanList ==
  /\ scan.pc = "idle"
  /\ rootUp
  /\ scan' = [pc |-> "listed", seen |-> disk, todo |-> {}]
  /\ truth' = disk
  /\ UNCHANGED <<disk, rootUp, client, cat, report, pending, tracked, gone, changes>>

ScanAbsent ==
  /\ scan.pc = "listed"
  /\ cat' = [MarkAbsent(cat, scan.seen) EXCEPT !.outage = FALSE]
  /\ scan' = [scan EXCEPT !.pc = "reconciling", !.todo = scan.seen]
  /\ gone' = [p \in Path |-> IF p \in truth THEN 0
                             ELSE IF gone[p] > Grace THEN gone[p] ELSE gone[p] + 1]
  /\ UNCHANGED <<disk, rootUp, client, report, pending, tracked, truth, changes>>

ScanDirectory(p) ==
  /\ scan.pc = "reconciling"
  /\ p \in scan.todo
  /\ cat' \in Reconcile(cat, p, {}, None)
  /\ scan' = [scan EXCEPT !.todo = @ \ {p}]
  /\ UNCHANGED <<disk, rootUp, client, report, pending, tracked, truth, gone, changes>>

ScanEnd ==
  /\ scan.pc = "reconciling"
  /\ scan.todo = {}
  /\ scan' = Idle
  /\ UNCHANGED <<disk, rootUp, client, cat, report, pending, tracked, truth, gone, changes>>

(* Cancelled, failed or cut by a restart: what was committed stays. *)
ScanStops ==
  /\ Change
  /\ scan.pc # "idle"
  /\ scan' = Idle
  /\ UNCHANGED <<disk, rootUp, client, cat, report, pending, tracked, truth, gone>>

-----------------------------------------------------------------------------
(* A poll of the client (_poll_download_client)                            *)

PollList ==
  /\ pending = {}
  /\ report' = client
  /\ pending' = Torrent
  /\ UNCHANGED <<disk, rootUp, client, cat, scan, tracked, truth, gone, changes>>

PollPresent(t) ==
  /\ t \in pending
  /\ report[t] \in {"downloading", "complete"}
  /\ \E c \in Associate(cat, t, report[t] = "complete") :
       \E d \in IF report[t] = "complete" THEN Finalize(c, t) ELSE {c} :
         cat' = Disagree(d, t, TRUE)
  /\ gone' = IF report[t] = "complete" /\ Inspected(t)
             THEN [gone EXCEPT ![Content[t]] = 0] ELSE gone
  /\ pending' = pending \ {t}
  /\ tracked' = tracked \cup {t}
  /\ UNCHANGED <<disk, rootUp, client, scan, report, truth, changes>>

(* A force check is telemetry, not a transition. *)
PollChecking(t) ==
  /\ t \in pending
  /\ report[t] = "checking"
  /\ pending' = pending \ {t}
  /\ tracked' = tracked \cup {t}
  /\ UNCHANGED <<disk, rootUp, client, cat, scan, report, truth, gone, changes>>

PollAbsent(t) ==
  /\ t \in pending
  /\ \A u \in pending : report[u] = "absent"
  /\ cat' = IF t \in tracked THEN Disagree(CancelIncoming(cat, t), t, FALSE) ELSE cat
  /\ pending' = pending \ {t}
  /\ tracked' = tracked \ {t}
  /\ UNCHANGED <<disk, rootUp, client, scan, report, truth, gone, changes>>

PollStops ==
  /\ Change
  /\ pending # {}
  /\ pending' = {}
  /\ UNCHANGED <<disk, rootUp, client, cat, scan, report, tracked, truth, gone>>

Poll == PollList \/ \E t \in Torrent : PollPresent(t) \/ PollChecking(t) \/ PollAbsent(t)

Scan ==
  ScanOutage \/ ScanList \/ ScanAbsent \/ (\E p \in Path : ScanDirectory(p)) \/ ScanEnd

Next ==
  \/ DiskChanges \/ MountChanges \/ ClientChanges
  \/ Scan \/ ScanStops
  \/ Poll \/ PollStops

Spec == Init /\ [][Next]_vars

(* _qbit_poll_loop polls for ever; scans start when somebody asks. *)
FairSpec == Spec /\ WF_vars(Poll)

-----------------------------------------------------------------------------
(* Properties                                                              *)

(* "without treating an outage as absence" (mark_absent_known_directories):*)
(* a directory is called gone only when at least Grace listings in a row,  *)
(* taken with the root mounted, really lacked it, and no completed torrent *)
(* was found there in between.  "How many consecutive checks must miss     *)
(* media before it is considered missing" (the settings page): after Grace *)
(* of them it is.                                                          *)
AbsenceTakesGrace ==
  \A p \in Path : cat.directory[p].known => (~cat.directory[p].exists <=> gone[p] >= Grace)

(* What a release says of itself and what its directory says agree,        *)
(* whichever of scan, poll and restart came last: a current or duplicate   *)
(* one has a directory, a missing one has none that exists, a removed one  *)
(* never had any.                                                          *)
StatesFitDirectories ==
  \A r \in Release :
    /\ r \in InState(cat, Active) => HasDirectory(cat, r)
    /\ r \in InState(cat, {"missing"}) => ~Present(cat, r)
    /\ r \in InState(cat, {"removed", "absent"}) => ~HasDirectory(cat, r)

(* The label DUPLICATE and the duplicate Problem never outlive their cause *)
(* and never come without each other: every duplicate release is present   *)
(* and has a present duplicate of its own edition.                         *)
DuplicatesHaveRivals ==
  LET duplicates == InState(cat, {"duplicate"})
  IN  /\ cat.duplicate <=> duplicates # {}
      /\ \A r \in duplicates :
           /\ Present(cat, r)
           /\ InSlot(cat, duplicates, cat.release[r].edition) # {r}

(* A provisional release is not left behind when its download is cancelled *)
(* or lands in a directory that another release already has ("must not     *)
(* remain visible as an incoming replacement").                            *)
NoGhosts ==
  \A r \in InState(cat, {"missing"}) :
    HasDirectory(cat, r) \/ \E t \in Torrent : cat.link[r][t] = "incoming"

(* A download that is complete and stays where the client says, under a    *)
(* mounted root, ends attached to the release of its directory and is no   *)
(* longer incoming anywhere, or its directory waits under a review Problem.*)
CompletedIsAttached ==
  \A t \in Torrent :
    LET p == Content[t]
        own == cat.directory[p].release
    IN  <>[](client[t] = "complete" /\ Inspected(t)) =>
        <>[](/\ own # None => /\ cat.link[own][t] = "attached"
                              /\ Linked(cat, t, "incoming") = {}
             /\ own = None => cat.review # {})

=============================================================================

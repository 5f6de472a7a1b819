------------------------ MODULE DuplicateResolution ------------------------
(***************************************************************************)
(* The confirmed resolution of a physical duplicate of one Movie: a signed *)
(* preview of what would be deleted, and the duplicate_resolution Job that *)
(* checks it again, removes torrents from qBittorrent one by one, deletes  *)
(* directories one by one and only then commits its rows, while scans,     *)
(* polls, archive retries and the administrator go on changing the files,  *)
(* the client and the rows.                                                *)
(*                                                                         *)
(* The releases are of one edition.  A directory's content is one of a few *)
(* values; "none" is an absent directory, "torn" what a failed rmtree      *)
(* leaves.  The checks of a Job before its first effect are one step, as   *)
(* only statements of its own transaction lie between them.                *)
(***************************************************************************)
EXTENDS FiniteSets, Naturals

CONSTANTS
  Release,
  Directory,
  Torrent,
  Owner,       \* Owner[d]: the release that directory d belongs to
  Link,        \* Link[t]: the release that torrent t is linked to
  Job,         \* previews, and the duplicate_resolution Jobs they lead to
  Choice,      \* the options confirmed: records [delete, remove]
  OneAtATime,  \* the administrator waits for a resolution to end
  MaxChanges,  \* bound: changes made outside the program
  MaxFaults    \* bound: restarts and failed calls

ASSUME ReleaseAssumption == Release # {} /\ Directory # {}
ASSUME OwnerAssumption ==
  Owner \in [Directory -> Release] /\ Link \in [Torrent -> Release]
ASSUME ChoiceAssumption == Choice \subseteq [delete : BOOLEAN, remove : BOOLEAN]
ASSUME BoundAssumption ==
  MaxChanges \in Nat /\ MaxFaults \in Nat /\ OneAtATime \in BOOLEAN

VARIABLES
  disk,      \* disk[d]: what is in directory d
  writable,  \* directories under a read-write storage root
  seeding,   \* torrents that qBittorrent has
  row,       \* directories whose row says they exist
  state,     \* state[r]: release_state
  problem,   \* the DUPLICATE_PHYSICAL_RELEASE Problem of the Movie
  present,   \* torrents whose observation row says is_present
  archived,  \* torrents whose archive_state is ARCHIVED
  token,     \* token[j]: the payload of the confirmation token of Job j
  job,       \* job[j]: its phase and the writes of its open transaction
  byHand,    \* history: releases whose last files were removed by hand
  recreated, \* history: directories put back by hand
  touched,   \* history: directories changed by hand since a Job's checks
  changes, faults

vars == <<disk, writable, seeding, row, state, problem, present, archived,
          token, job, byHand, recreated, touched, changes, faults>>

jobs     == <<token, job>>
library  == <<row, state, problem>>
torrents == <<seeding, present, archived>>
history  == <<byHand, recreated, touched>>

Content == {"none", "film", "other", "torn"}
ReleaseState == {"current", "duplicate", "missing", "removed"}

OnDisk(r) == \E d \in Directory : Owner[d] = r /\ disk[d] # "none"
DirectoriesOf(R) == {d \in Directory : Owner[d] \in R}
TorrentsOf(R) == {t \in Torrent : Link[t] \in R}

(* _release_preview of the losers R; the files are listed when they are to *)
(* be deleted, otherwise only whether the directory is there.              *)
Files(R, delete) ==
  [d \in Directory |-> IF Owner[d] \notin R \/ disk[d] = "none" THEN "none"
                      ELSE IF delete THEN disk[d] ELSE "film"]

States(R) == [r \in Release |-> IF r \in R THEN state[r] ELSE "missing"]

TokenState ==
  [winner : Release, losers : SUBSET Release, delete : BOOLEAN, remove : BOOLEAN,
   files : [Directory -> Content], states : [Release -> ReleaseState],
   writable : SUBSET Directory, present : SUBSET Torrent,
   archived : SUBSET Torrent]

Preview(w, R, c) ==
  [winner |-> w, losers |-> R, delete |-> c.delete, remove |-> c.remove,
   files |-> Files(R, c.delete), states |-> States(R),
   writable |-> DirectoriesOf(R) \cap writable,
   present |-> TorrentsOf(R) \cap present, archived |-> TorrentsOf(R) \cap archived]

NoToken ==
  [winner |-> CHOOSE r \in Release : TRUE, losers |-> {}, delete |-> FALSE,
   remove |-> FALSE, files |-> [d \in Directory |-> "none"],
   states |-> [r \in Release |-> "missing"], writable |-> {},
   present |-> {}, archived |-> {}]

(* listed: the torrents to remove; left: those still to be tried; removed: *)
(* those removed.  doomed: the directories still to delete.  loaded, rows: *)
(* the release states and directory rows as the session loaded them.       *)
JobState ==
  [pc : {"none", "reviewed", "removing", "deleting", "finishing", "completed",
         "failed"},
   listed : SUBSET Torrent, left : SUBSET Torrent, removed : SUBSET Torrent,
   doomed : SUBSET Directory, failed : BOOLEAN,
   loaded : [Release -> ReleaseState], rows : SUBSET Directory]

Running == {"removing", "deleting", "finishing"}

Idle(pc) ==
  [pc |-> pc, listed |-> {}, left |-> {}, removed |-> {}, doomed |-> {},
   failed |-> FALSE, loaded |-> [r \in Release |-> "missing"], rows |-> {}]

Init ==
  /\ disk = [d \in Directory |-> "film"]
  /\ writable = Directory
  /\ seeding = Torrent
  /\ row = Directory
  /\ state = [r \in Release |-> "duplicate"]
  /\ problem = [status |-> "open", candidates |-> Release]
  /\ present \in SUBSET Torrent
  /\ archived \in SUBSET Torrent
  /\ token = [j \in Job |-> NoToken]
  /\ job = [j \in Job |-> Idle("none")]
  /\ byHand = {}
  /\ recreated = {}
  /\ touched = [j \in Job |-> {}]
  /\ changes = 0
  /\ faults = 0

-----------------------------------------------------------------------------
(* POST resolve-preview: refused (no token) unless the selection is of the *)
(* current candidates, the winner is on disk, and what is to be deleted or *)
(* removed may be.                                                         *)
Selectable(w, R) ==
  /\ R # {} /\ w \notin R
  /\ problem.status = "open"
  /\ problem.candidates # {} => {w} \cup R \subseteq problem.candidates
  /\ OnDisk(w)

Permitted(R, c) ==
  /\ c.delete => DirectoriesOf(R) \subseteq writable
  /\ c.remove => TorrentsOf(R) \cap present \subseteq archived

Becomes(j, r) == job' = [job EXCEPT ![j] = r]

AskPreview(j) ==
  /\ job[j].pc = "none"
  /\ \E w \in Release, R \in SUBSET Release, c \in Choice :
       /\ Selectable(w, R)
       /\ Permitted(R, c)
       /\ token' = [token EXCEPT ![j] = Preview(w, R, c)]
  /\ Becomes(j, Idle("reviewed"))
  /\ UNCHANGED <<disk, writable, library, torrents, history, changes, faults>>

-----------------------------------------------------------------------------
(* commit_duplicate_resolution                                             *)

(* The preview still holds: the losers are as reviewed, the Problem is     *)
(* open and the winner is on disk.                                         *)
StillOpen(c) == problem.status = "open" /\ OnDisk(c.winner)

StillListed(c) == Preview(c.winner, c.losers, c) = c /\ problem.status = "open"

StillAsReviewed(c) ==
  /\ Preview(c.winner, c.losers, c) = c
  /\ problem.status = "open"
  /\ OnDisk(c.winner)

(* The observations to remove: every one of them must be archived. *)
Listed(c) == IF c.remove THEN TorrentsOf(c.losers) \cap present ELSE {}

Ends(j, pc) ==
  /\ Becomes(j, Idle(pc))
  /\ token' = [token EXCEPT ![j] = NoToken]
  /\ touched' = [touched EXCEPT ![j] = {}]

(* The Job begins: it goes on with the rows it loaded, ...                 *)
Start(j) ==
  /\ job[j].pc = "reviewed"
  /\ OneAtATime => \A i \in Job : job[i].pc \notin Running
  /\ StillAsReviewed(token[j]) /\ Listed(token[j]) \subseteq archived
  /\ Becomes(j, [Idle("removing") EXCEPT
       !.listed = Listed(token[j]), !.left = Listed(token[j]),
       !.loaded = state, !.rows = row])
  /\ touched' = [touched EXCEPT ![j] = {}]
  /\ UNCHANGED <<disk, writable, library, torrents, token, byHand, recreated,
                 changes, faults>>

(* ... or its token has expired or its checks fail. *)
Refuse(j) ==
  /\ job[j].pc = "reviewed"
  /\ Ends(j, "failed")
  /\ UNCHANGED <<disk, writable, library, torrents, byHand, recreated, changes, faults>>

(* qBittorrent removes the torrent and keeps the data. *)
RemoveTorrent(j, t) ==
  /\ job[j].pc = "removing" /\ t \in job[j].left
  /\ seeding' = seeding \ {t}
  /\ Becomes(j, [job[j] EXCEPT !.left = @ \ {t}, !.removed = @ \cup {t}])
  /\ UNCHANGED <<disk, writable, library, present, archived, token, history,
                 changes, faults>>

(* The call raises, whether or not qBittorrent obeyed, or its client is no *)
(* longer configured: the observation stays and the media is spared.       *)
RemoveFails(j, t) ==
  /\ job[j].pc = "removing" /\ t \in job[j].left
  /\ faults < MaxFaults /\ faults' = faults + 1
  /\ seeding' \in {seeding, seeding \ {t}}
  /\ Becomes(j, [job[j] EXCEPT !.left = @ \ {t}, !.failed = TRUE])
  /\ UNCHANGED <<disk, writable, library, present, archived, token, history, changes>>

(* delete_media and not qbit_removal_failed *)
AskedToDelete(j) == token[j].delete

PerformsDelete(j) == token[j].delete /\ ~job[j].failed

RemovalsDone(j) ==
  /\ job[j].pc = "removing" /\ job[j].left = {}
  /\ Becomes(j, [job[j] EXCEPT
       !.pc = IF PerformsDelete(j) THEN "deleting" ELSE "finishing",
       !.doomed = IF PerformsDelete(j) THEN DirectoriesOf(token[j].losers) ELSE {}])
  /\ UNCHANGED <<disk, writable, library, torrents, token, history, changes, faults>>

(* One directory of a loser; the root's access mode is read again. *)
DeleteDirectory(j, d) ==
  /\ job[j].pc = "deleting" /\ d \in job[j].doomed
  /\ IF d \in writable
     THEN /\ disk' = [disk EXCEPT ![d] = "none"]
          /\ Becomes(j, [job[j] EXCEPT !.doomed = @ \ {d}])
          /\ UNCHANGED <<token, touched>>
     ELSE Ends(j, "failed") /\ UNCHANGED disk
  /\ UNCHANGED <<writable, library, torrents, byHand, recreated, changes, faults>>

(* rmtree raises half way: the transaction rolls back, the files do not. *)
DeleteFails(j, d) ==
  /\ job[j].pc = "deleting" /\ d \in job[j].doomed
  /\ d \in writable /\ disk[d] # "none"
  /\ faults < MaxFaults /\ faults' = faults + 1
  /\ disk' = [disk EXCEPT ![d] = "torn"]
  /\ Ends(j, "failed")
  /\ UNCHANGED <<writable, library, torrents, byHand, recreated, changes>>

DeletesDone(j) ==
  /\ job[j].pc = "deleting" /\ job[j].doomed = {}
  /\ Becomes(j, [job[j] EXCEPT !.pc = "finishing"])
  /\ UNCHANGED <<disk, writable, library, torrents, token, history, changes, faults>>

(* An attribute is written when it differs from what the session loaded. *)
Flushed(now, loaded, new) == IF loaded = new THEN now ELSE new

(* What becomes of a loser whose files went, or did not. *)
LoserRemoved(j, r) == IF token[j].delete THEN "removed" ELSE "duplicate"

LoserState(j, r) ==
  IF PerformsDelete(j) \/ job[j].loaded[r] = "removed" THEN "removed" ELSE "duplicate"

(* The commit of everything the Job decided. *)
Finish(j) ==
  /\ job[j].pc = "finishing"
  /\ LET t == token[j]
         erased == IF PerformsDelete(j) THEN DirectoriesOf(t.losers) ELSE {}
     IN  /\ state' = [r \in Release |->
               IF r = t.winner THEN Flushed(state[r], job[j].loaded[r], "current")
               ELSE IF r \in t.losers
                 THEN Flushed(state[r], job[j].loaded[r], LoserState(j, r))
               ELSE state[r]]
         /\ row' = row \ (erased \cap job[j].rows)
         /\ present' = present \ job[j].removed
         /\ problem' = IF \E r \in t.losers : OnDisk(r) THEN problem
                       ELSE [problem EXCEPT !.status = "resolved"]
  /\ Ends(j, "completed")
  /\ UNCHANGED <<disk, writable, seeding, archived, byHand, recreated, changes, faults>>

(* The process dies: nothing is committed and the Job is INTERRUPTED. *)
Crash ==
  /\ \E j \in Job : job[j].pc \in Running
  /\ faults < MaxFaults /\ faults' = faults + 1
  /\ job' = [j \in Job |-> IF job[j].pc \in Running THEN Idle("failed") ELSE job[j]]
  /\ token' = [j \in Job |-> IF job[j].pc \in Running THEN NoToken ELSE token[j]]
  /\ touched' = [j \in Job |-> {}]
  /\ UNCHANGED <<disk, writable, library, torrents, byHand, recreated, changes>>

-----------------------------------------------------------------------------
(* The rest of the program, and the world.                                 *)

(* _refresh_movie_duplicate_problem over directory rows D and states s.    *)
Present(D, r) == \E d \in D : Owner[d] = r

RefreshDuplicates(D, s) ==
  LET here  == {r \in Release : s[r] \in {"current", "duplicate"} /\ Present(D, r)}
      twins == IF Cardinality(here) > 1 THEN here ELSE {}
  IN  /\ state' = [r \in Release |->
             IF r \in twins THEN "duplicate"
             ELSE IF s[r] # "duplicate" THEN s[r]
             ELSE IF r \in here THEN "current" ELSE "missing"]
      /\ problem' = IF twins # {} THEN [status |-> "open", candidates |-> twins]
                    ELSE IF problem.status = "open"
                      THEN [problem EXCEPT !.status = "resolved"]
                    ELSE problem

(* A scan of the roots.  Absent directories of L are still in their grace. *)
Scan(L) ==
  LET D == {d \in Directory : disk[d] # "none"} \cup L
      s == [r \in Release |->
              IF state[r] = "missing" /\ Present(D, r) THEN "current"
              ELSE IF state[r] \in {"current", "duplicate"} /\ ~Present(D, r)
                THEN "missing"
              ELSE state[r]]
  IN  /\ row' = D
      /\ RefreshDuplicates(D, s)
      /\ UNCHANGED <<disk, writable, torrents, jobs, history, changes, faults>>

(* A poll sees what qBittorrent has. *)
Poll ==
  /\ present' = seeding
  /\ UNCHANGED <<disk, writable, library, seeding, archived, jobs, history,
                 changes, faults>>

(* An archive attempt on a torrent the client has ends well or badly. *)
Archive(t) ==
  /\ t \in present
  /\ changes < MaxChanges /\ changes' = changes + 1
  /\ archived' \in {archived \cup {t}, archived \ {t}}
  /\ UNCHANGED <<disk, writable, library, seeding, present, jobs, history, faults>>

(* The administrator changes, removes or recreates a directory's files. *)
ChangeFiles(d) ==
  /\ changes < MaxChanges /\ changes' = changes + 1
  /\ \E c \in {"none", "film", "other"} \ {disk[d]} :
       disk' = [disk EXCEPT ![d] = c]
  /\ byHand' = {r \in byHand \cup {Owner[d]} :
                  \A e \in Directory : Owner[e] = r => disk'[e] = "none"}
  /\ recreated' = IF disk[d] = "none" THEN recreated \cup {d} ELSE recreated
  /\ touched' = [j \in Job |->
                  IF job[j].pc \in Running THEN touched[j] \cup {d} ELSE {}]
  /\ UNCHANGED <<writable, library, torrents, jobs, faults>>

SetAccess(d) ==
  /\ changes < MaxChanges /\ changes' = changes + 1
  /\ writable' = IF d \in writable THEN writable \ {d} ELSE writable \cup {d}
  /\ UNCHANGED <<disk, library, torrents, jobs, history, faults>>

JobStep(j) ==
  \/ \E t \in Torrent : RemoveTorrent(j, t) \/ RemoveFails(j, t)
  \/ RemovalsDone(j)
  \/ \E d \in Directory : DeleteDirectory(j, d) \/ DeleteFails(j, d)
  \/ DeletesDone(j)
  \/ Finish(j)

World ==
  \/ Poll
  \/ \E t \in Torrent : Archive(t)
  \/ \E d \in Directory : ChangeFiles(d) \/ SetAccess(d)

Next ==
  \/ \E j \in Job : AskPreview(j) \/ Start(j) \/ Refuse(j) \/ JobStep(j)
  \/ \E L \in SUBSET {d \in row : disk[d] = "none"} : Scan(L)
  \/ Crash
  \/ World

Spec == Init /\ [][Next]_vars

(* The worker of a launched Job runs on.  Nothing scans by itself: WF of    *)
(* the scan is a premise about an administrator who keeps asking for one,  *)
(* often enough to use up the grace of an absent directory.                *)
FairSpec == Spec /\ WF_vars(Scan({})) /\ \A j \in Job : WF_vars(JobStep(j))

-----------------------------------------------------------------------------
(* Properties                                                              *)

TypeOK ==
  /\ disk \in [Directory -> Content]
  /\ writable \subseteq Directory /\ row \subseteq Directory
  /\ recreated \subseteq Directory
  /\ seeding \subseteq Torrent /\ present \subseteq Torrent /\ archived \subseteq Torrent
  /\ state \in [Release -> ReleaseState]
  /\ problem \in [status : {"open", "resolved"}, candidates : SUBSET Release]
  /\ byHand \subseteq Release
  /\ touched \in [Job -> SUBSET Directory]
  /\ token \in [Job -> TokenState]
  /\ job \in [Job -> JobState]
  /\ changes \in Nat /\ faults \in Nat

(* "A duplicate decision must always retain at least one physical copy":   *)
(* the Movie loses its last copy only by the administrator's hand.         *)
KeepsACopy == (\E r \in Release : OnDisk(r)) \/ byHand # {}

(* A directory of a Job is gone only if its content is what the preview    *)
(* showed, unless someone changed it after the Job's checks: "the reviewed *)
(* filesystem deletion".                                                   *)
DeletesOnlyReviewed ==
  [][\A j \in Job, d \in Directory :
       DeleteDirectory(j, d) =>
         \/ disk'[d] = disk[d]
         \/ d \in touched[j]
         \/ token[j].files[d] = disk[d]]_vars

(* "If removal fails, the reviewed filesystem deletion is skipped": no     *)
(* directory goes while qBittorrent has a torrent the Job was to remove.   *)
FailedRemovalSparesMedia ==
  [][\A j \in Job, d \in Directory :
       DeleteDirectory(j, d) /\ disk'[d] # disk[d] => job[j].listed \cap seeding = {}]_vars

(* A release is REMOVED only when its files are gone, all of them, unless  *)
(* someone put them back.                                                  *)
RemovedIsGone ==
  \A r \in Release : state[r] = "removed" =>
    \A d \in Directory : Owner[d] = r => disk[d] = "none" \/ d \in recreated

(* However a resolution ends - done, refused, failed half way with files   *)
(* gone and rows rolled back, or killed - a library that is scanned again  *)
(* and again ends up with rows that say what is on disk and with the       *)
(* Problem open for two standing copies and only then.                     *)
Standing == {r \in Release : OnDisk(r)}
NeverRecreated(r) == \A d \in recreated : Owner[d] # r

QueueTellsTheTruth ==
  <>[](/\ row = {d \in Directory : disk[d] # "none"}
       /\ problem.status = "open" => Cardinality(Standing) > 1
       /\ Cardinality({r \in Standing : NeverRecreated(r)}) > 1
            => problem.status = "open")

=============================================================================

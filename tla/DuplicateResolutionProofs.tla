---------------------- MODULE DuplicateResolutionProofs ----------------------
(***************************************************************************)
(* What a resolution may destroy, for any number of releases, directories, *)
(* torrents, Jobs and faults: reviewed files only, never the last copy,    *)
(* and nothing whose torrent it failed to remove.                          *)
(***************************************************************************)
EXTENDS DuplicateResolution, TLAPS

(* What a Job that has begun knows of its choice and its losers' files.    *)
Selected(j) ==
  job[j].pc \in {"reviewed"} \cup Running => token[j].winner \notin token[j].losers

Emptied(d) == disk[d] = "none" \/ d \in recreated

Deleting(j) ==
  job[j].pc = "deleting" =>
    /\ token[j].delete /\ ~job[j].failed
    /\ job[j].doomed \subseteq DirectoriesOf(token[j].losers)
    /\ \A d \in DirectoriesOf(token[j].losers) \ job[j].doomed : Emptied(d)

Finishing(j) ==
  job[j].pc = "finishing" /\ PerformsDelete(j) =>
    \A d \in DirectoriesOf(token[j].losers) : Emptied(d)

Unseeded(j) ==
  /\ job[j].pc = "removing" /\ ~job[j].failed =>
       job[j].listed \cap seeding \subseteq job[j].left
  /\ job[j].pc = "deleting" => job[j].listed \cap seeding = {}

(* What holds when one resolution runs at a time.                          *)
Alone == \A i, j \in Job : job[i].pc \in Running /\ job[j].pc \in Running => i = j

WinnerStands(j) ==
  job[j].pc \in Running => OnDisk(token[j].winner) \/ token[j].winner \in byHand

Reviewed(j) ==
  job[j].pc \in Running /\ token[j].delete =>
    \A d \in DirectoriesOf(token[j].losers) :
      \/ disk[d] = "none" \/ d \in touched[j]
      \/ token[j].files[d] = disk[d]

IndInv ==
  /\ TypeOK
  /\ RemovedIsGone
  /\ \A j \in Job : Selected(j) /\ Deleting(j) /\ Finishing(j) /\ Unseeded(j)
  /\ OneAtATime =>
       /\ Alone /\ KeepsACopy
       /\ \A j \in Job : WinnerStands(j) /\ Reviewed(j)

USE OwnerAssumption, BoundAssumption, ChoiceAssumption, ReleaseAssumption

-----------------------------------------------------------------------------
(* The new record of one Job.                                              *)
LEMMA OneJob ==
  ASSUME job \in [Job -> JobState], NEW j \in Job, NEW v \in JobState, Becomes(j, v)
  PROVE  /\ job' \in [Job -> JobState]
         /\ job'[j] = v
         /\ \A i \in Job \ {j} : job'[i] = job[i]
BY DEF Becomes

LEMMA IdleState ==
  ASSUME NEW pc \in {"none", "reviewed", "removing", "completed", "failed"}
  PROVE  Idle(pc) \in JobState /\ Idle(pc).pc = pc /\ Idle(pc).failed = FALSE
BY DEF Idle, JobState, ReleaseState

LEMMA EmptyToken == NoToken \in TokenState /\ NoToken.losers = {}
BY DEF NoToken, TokenState, ReleaseState, Content

(* A Job that ends has neither choice nor effects left. *)
LEMMA Ended ==
  ASSUME TypeOK, NEW j \in Job, NEW pc \in {"completed", "failed"}, Ends(j, pc)
  PROVE  /\ job' \in [Job -> JobState] /\ token' \in [Job -> TokenState]
         /\ touched' \in [Job -> SUBSET Directory]
         /\ job'[j].pc = pc
         /\ \A i \in Job \ {j} : /\ job'[i] = job[i] /\ token'[i] = token[i]
                                 /\ touched'[i] = touched[i]
<1>1. Becomes(j, Idle(pc)) BY DEF Ends
<1>2. Idle(pc) \in JobState /\ Idle(pc).pc = pc BY IdleState
<1>3. job \in [Job -> JobState] BY DEF TypeOK
<1>4. job' \in [Job -> JobState] /\ job'[j] = Idle(pc)
        /\ \A i \in Job \ {j} : job'[i] = job[i]
  BY <1>1, <1>2, <1>3, OneJob
<1> QED BY <1>2, <1>4, EmptyToken DEF Ends, TypeOK

(* Preserved when nothing a Job looks at changes but the rows. *)
LEMMA RowsOnly ==
  ASSUME IndInv, TypeOK', UNCHANGED <<disk, jobs, history>>,
         seeding' \subseteq seeding,
         \A r \in Release : state'[r] = "removed" => state[r] = "removed"
  PROVE  IndInv'
<1> USE DEF IndInv, jobs, history
<1>1. RemovedIsGone' BY DEF RemovedIsGone
<1>2. ASSUME NEW j \in Job
      PROVE  Selected(j)' /\ Deleting(j)' /\ Finishing(j)' /\ Unseeded(j)'
  BY <1>2 DEF Selected, Deleting, Finishing, Unseeded, PerformsDelete, Emptied,
              DirectoriesOf, Running
<1>3. ASSUME OneAtATime
      PROVE  /\ Alone' /\ KeepsACopy'
             /\ \A j \in Job : WinnerStands(j)' /\ Reviewed(j)'
  BY <1>3 DEF Alone, KeepsACopy, WinnerStands, Reviewed, OnDisk, DirectoriesOf, Running
<1> QED BY <1>1, <1>2, <1>3

LEMMA ScanStep ==
  ASSUME IndInv, NEW L \in SUBSET row, Scan(L) PROVE IndInv'
<1>1. TypeOK'
  BY DEF IndInv, TypeOK, Scan, RefreshDuplicates, Present, ReleaseState, torrents, jobs,
         history
<1>2. \A r \in Release : state'[r] = "removed" => state[r] = "removed"
  BY DEF IndInv, TypeOK, Scan, RefreshDuplicates, ReleaseState
<1> QED BY <1>1, <1>2, RowsOnly DEF Scan, torrents

LEMMA OutsideStep ==
  ASSUME IndInv,
         Poll \/ (\E t \in Torrent : Archive(t)) \/ (\E d \in Directory : SetAccess(d))
  PROVE  IndInv'
<1>1. TypeOK'
  BY DEF IndInv, TypeOK, Poll, Archive, SetAccess, library, torrents, jobs, history
<1> QED BY <1>1, RowsOnly DEF Poll, Archive, SetAccess, library, torrents

(* The administrator's hand. *)
LEMMA HandStep ==
  ASSUME IndInv, NEW d \in Directory, ChangeFiles(d) PROVE IndInv'
<1> USE DEF IndInv, ChangeFiles, library, torrents, jobs
<1>1. PICK c \in {"none", "film", "other"} \ {disk[d]} : disk' = [disk EXCEPT ![d] = c]
  OBVIOUS
<1>2. disk' \in [Directory -> Content] /\ disk'[d] = c
        /\ \A e \in Directory \ {d} : disk'[e] = disk[e]
  BY <1>1 DEF TypeOK, Content
<1>3. TypeOK'
  BY <1>2 DEF TypeOK
<1>4. recreated \subseteq recreated' /\ (disk[d] = "none" => d \in recreated')
  OBVIOUS
<1>5. \A e \in Directory : Emptied(e) => Emptied(e)'
  BY <1>2, <1>4 DEF Emptied
<1>6. RemovedIsGone'
  BY <1>5 DEF RemovedIsGone, Emptied
<1>7. ASSUME NEW j \in Job
      PROVE  Selected(j)' /\ Deleting(j)' /\ Finishing(j)' /\ Unseeded(j)'
  BY <1>5, <1>7 DEF Selected, Deleting, Finishing, Unseeded, PerformsDelete,
                    DirectoriesOf, Running
<1>8. ASSUME NEW r \in Release, OnDisk(r) \/ r \in byHand
      PROVE  OnDisk(r)' \/ r \in byHand'
  <2>1. CASE r \in byHand \cup {Owner[d]}
    BY <2>1 DEF OnDisk
  <2>2. CASE OnDisk(r) /\ r # Owner[d]
    BY <2>2, <1>2 DEF OnDisk
  <2> QED BY <1>8, <2>1, <2>2
<1>9. ASSUME OneAtATime PROVE Alone' /\ KeepsACopy'
  BY <1>9, <1>8 DEF Alone, KeepsACopy, TypeOK
<1>10. ASSUME OneAtATime, NEW j \in Job PROVE WinnerStands(j)' /\ Reviewed(j)'
  <2>1. WinnerStands(j)'
    BY <1>10, <1>8 DEF WinnerStands, TypeOK, TokenState
  <2>2. ASSUME job[j].pc \in Running
        PROVE  touched'[j] = touched[j] \cup {d}
    BY <2>2
  <2>3. Reviewed(j)'
    BY <1>10, <1>2, <2>2 DEF Reviewed, DirectoriesOf
  <2> QED BY <2>1, <2>3
<1> QED BY <1>3, <1>6, <1>7, <1>9, <1>10

-----------------------------------------------------------------------------
(* The steps of a Job.                                                     *)
LEMMA AskStep ==
  ASSUME IndInv, NEW j \in Job, AskPreview(j) PROVE IndInv'
<1> USE DEF IndInv, library, torrents, history
<1>1. PICK w \in Release, R \in SUBSET Release, c \in Choice :
        Selectable(w, R) /\ token' = [token EXCEPT ![j] = Preview(w, R, c)]
  BY DEF AskPreview
<1>2. Preview(w, R, c) \in TokenState
        /\ Preview(w, R, c).winner = w /\ Preview(w, R, c).losers = R
  <2>1. Files(R, c.delete) \in [Directory -> Content] BY DEF Files, TypeOK, Content
  <2>2. States(R) \in [Release -> ReleaseState] BY DEF States, TypeOK, ReleaseState
  <2>3. c.delete \in BOOLEAN /\ c.remove \in BOOLEAN OBVIOUS
  <2>4. /\ DirectoriesOf(R) \cap writable \in SUBSET Directory
        /\ TorrentsOf(R) \cap present \in SUBSET Torrent
        /\ TorrentsOf(R) \cap archived \in SUBSET Torrent
    BY DEF DirectoriesOf, TorrentsOf
  <2> QED BY <2>1, <2>2, <2>3, <2>4 DEF Preview, TokenState
<1>3. Idle("reviewed") \in JobState /\ Idle("reviewed").pc = "reviewed" BY IdleState
<1>4. /\ job' \in [Job -> JobState] /\ job'[j].pc = "reviewed"
      /\ \A i \in Job \ {j} : job'[i] = job[i]
  BY <1>3, OneJob DEF AskPreview, TypeOK
<1>5. /\ token' \in [Job -> TokenState]
      /\ token'[j].winner \notin token'[j].losers
      /\ \A i \in Job \ {j} : token'[i] = token[i]
  BY <1>1, <1>2 DEF TypeOK, Selectable
<1>6. TypeOK' BY <1>4, <1>5 DEF TypeOK, AskPreview
<1>7. RemovedIsGone' BY DEF RemovedIsGone, AskPreview
<1>8. ASSUME NEW i \in Job
      PROVE  Selected(i)' /\ Deleting(i)' /\ Finishing(i)' /\ Unseeded(i)'
  BY <1>4, <1>5, <1>8 DEF Selected, Deleting, Finishing, Unseeded, PerformsDelete,
                          Emptied, DirectoriesOf, Running, AskPreview
<1>9. ASSUME OneAtATime
      PROVE  /\ Alone' /\ KeepsACopy'
             /\ \A i \in Job : WinnerStands(i)' /\ Reviewed(i)'
  BY <1>4, <1>5, <1>9 DEF Alone, KeepsACopy, WinnerStands, Reviewed, OnDisk,
                          DirectoriesOf, Running, AskPreview
<1> QED BY <1>6, <1>7, <1>8, <1>9

LEMMA StartStep ==
  ASSUME IndInv, NEW j \in Job, Start(j) PROVE IndInv'
<1> USE DEF IndInv, library, torrents
<1> DEFINE v == [Idle("removing") EXCEPT
                   !.listed = Listed(token[j]), !.left = Listed(token[j]),
                   !.loaded = state, !.rows = row]
<1>1. /\ v \in JobState /\ v.pc = "removing" /\ v.left = v.listed
  BY DEF Idle, JobState, Listed, TorrentsOf, TypeOK
<1>2. Becomes(j, v) BY DEF Start
<1> HIDE DEF v
<1>3. /\ job' \in [Job -> JobState] /\ job'[j] = v
      /\ \A i \in Job \ {j} : job'[i] = job[i]
  BY <1>1, <1>2, OneJob DEF TypeOK
<1>4. /\ touched' \in [Job -> SUBSET Directory]
      /\ \A i \in Job \ {j} : touched'[i] = touched[i]
  BY DEF Start, TypeOK
<1>5. TypeOK' BY <1>3, <1>4 DEF TypeOK, Start
<1>6. RemovedIsGone' BY DEF RemovedIsGone, Start
<1>7. ASSUME NEW i \in Job
      PROVE  Selected(i)' /\ Deleting(i)' /\ Finishing(i)' /\ Unseeded(i)'
  <2>1. CASE i = j
    BY <1>1, <1>3, <2>1 DEF Selected, Deleting, Finishing, Unseeded, Running, Start
  <2>2. CASE i # j
    BY <1>3, <1>7, <2>2 DEF Selected, Deleting, Finishing, Unseeded, PerformsDelete,
                            Emptied, DirectoriesOf, Running, Start
  <2> QED BY <2>1, <2>2
<1>8. OnDisk(token[j].winner) /\ token[j].winner \in Release
  BY DEF Start, StillAsReviewed, TypeOK, TokenState
<1>9. token[j].files = Files(token[j].losers, token[j].delete)
  <2>1. Preview(token[j].winner, token[j].losers, token[j]) = token[j]
    BY DEF Start, StillAsReviewed
  <2>2. Preview(token[j].winner, token[j].losers, token[j]).files
          = Files(token[j].losers, token[j].delete)
    BY DEF Preview
  <2> QED BY <2>1, <2>2
<1>10. ASSUME OneAtATime
       PROVE  /\ Alone' /\ KeepsACopy'
              /\ \A i \in Job : WinnerStands(i)' /\ Reviewed(i)'
  <2>1. \A i \in Job : i # j => job'[i].pc \notin Running
    BY <1>3, <1>10 DEF Start
  <2>2. Alone' /\ KeepsACopy' BY <1>10, <2>1 DEF Alone, KeepsACopy, OnDisk, Start
  <2>3. WinnerStands(j)' BY <1>8 DEF WinnerStands, OnDisk, Start
  <2>4. Reviewed(j)'
    BY <1>9 DEF Reviewed, Files, DirectoriesOf, Start
  <2>5. \A i \in Job : i # j => WinnerStands(i)' /\ Reviewed(i)'
    BY <2>1 DEF WinnerStands, Reviewed
  <2> QED BY <2>2, <2>3, <2>4, <2>5
<1> QED BY <1>5, <1>6, <1>7, <1>10

(* A Job that ends, having changed at most one directory: to nothing, or   *)
(* to a torn one that was there.                                           *)
LEMMA EndStep ==
  ASSUME IndInv, NEW j \in Job, NEW pc \in {"completed", "failed"}, Ends(j, pc),
         UNCHANGED <<byHand, recreated, writable, seeding>>, TypeOK',
         \A r \in Release : state'[r] = "removed" =>
           \/ state[r] = "removed"
           \/ \A d \in Directory : Owner[d] = r => Emptied(d),
         \A d \in Directory : disk'[d] # disk[d] =>
           disk[d] # "none" /\ disk'[d] # "none",
         job[j].pc \in Running \/ disk' = disk
  PROVE  IndInv'
<1> USE DEF IndInv
<1>1. /\ job'[j].pc = pc
      /\ \A i \in Job \ {j} : /\ job'[i] = job[i] /\ token'[i] = token[i]
                              /\ touched'[i] = touched[i]
  BY Ended
<1>2. /\ \A d \in Directory : Emptied(d) => Emptied(d)'
      /\ \A r \in Release : OnDisk(r)' <=> OnDisk(r)
  BY DEF Emptied, OnDisk
<1>3. RemovedIsGone' BY <1>2 DEF RemovedIsGone, Emptied
<1>4. ASSUME NEW i \in Job
      PROVE  Selected(i)' /\ Deleting(i)' /\ Finishing(i)' /\ Unseeded(i)'
  <2>1. CASE i = j
    BY <1>1, <2>1 DEF Selected, Deleting, Finishing, Unseeded, Running
  <2>2. CASE i # j
    BY <1>1, <1>2, <1>4, <2>2 DEF Selected, Deleting, Finishing, Unseeded,
                                  PerformsDelete, DirectoriesOf, Running
  <2> QED BY <2>1, <2>2
<1>5. ASSUME OneAtATime
      PROVE  /\ Alone' /\ KeepsACopy'
             /\ \A i \in Job : WinnerStands(i)' /\ Reviewed(i)'
  <2>1. Alone' /\ KeepsACopy'
    BY <1>1, <1>2, <1>5 DEF Alone, KeepsACopy, Running
  <2>2. ASSUME NEW i \in Job
        PROVE  WinnerStands(i)' /\ Reviewed(i)'
    <3>1. CASE i = j
      BY <1>1, <3>1 DEF WinnerStands, Reviewed, Running
    <3>2. CASE i # j /\ job[i].pc \in Running
      <4>1. disk' = disk BY <1>5, <2>2, <3>2 DEF Alone
      <4> QED BY <1>1, <1>2, <1>5, <3>2, <4>1, <2>2
              DEF WinnerStands, Reviewed, DirectoriesOf, TypeOK, TokenState
    <3>3. CASE i # j /\ job[i].pc \notin Running
      BY <1>1, <3>3 DEF WinnerStands, Reviewed
    <3> QED BY <3>1, <3>2, <3>3
  <2> QED BY <2>1, <2>2
<1> QED BY <1>3, <1>4, <1>5

LEMMA RefuseStep ==
  ASSUME IndInv, NEW j \in Job, Refuse(j) PROVE IndInv'
<1>1. TypeOK' BY Ended DEF IndInv, TypeOK, Refuse, library, torrents
<1> QED BY <1>1, EndStep DEF Refuse, library, torrents

LEMMA DeleteFailsStep ==
  ASSUME IndInv, NEW j \in Job, NEW d \in Directory, DeleteFails(j, d) PROVE IndInv'
<1> USE DEF DeleteFails, library, torrents
<1>1. /\ disk' \in [Directory -> Content] /\ disk'[d] = "torn"
      /\ \A e \in Directory \ {d} : disk'[e] = disk[e]
  BY DEF IndInv, TypeOK, Content
<1>2. TypeOK' BY <1>1, Ended DEF IndInv, TypeOK
<1>3. \A e \in Directory : disk'[e] # disk[e] => disk[e] # "none" /\ disk'[e] # "none"
  BY <1>1
<1> QED BY <1>2, <1>3, EndStep DEF Running

(* A step that gives a running Job the record v, in the same or in the     *)
(* next phase, and empties at most one directory of a loser.               *)
LEMMA GoOnStep ==
  ASSUME IndInv, TypeOK', NEW j \in Job, NEW v \in JobState, Becomes(j, v),
         job[j].pc \in Running, v.pc \in Running,
         UNCHANGED <<token, state, byHand, recreated, touched>>,
         seeding' \subseteq seeding,
         \A d \in Directory :
           \/ disk'[d] = disk[d]
           \/ disk'[d] = "none" /\ d \in DirectoriesOf(token[j].losers),
         Deleting(j)', Finishing(j)', Unseeded(j)'
  PROVE  IndInv'
<1> USE DEF IndInv
<1>1. /\ job'[j].pc \in Running
      /\ \A i \in Job \ {j} : job'[i] = job[i]
  BY OneJob DEF TypeOK
<1>2. \A d \in Directory : Emptied(d) => Emptied(d)'
  BY DEF Emptied
<1>3. RemovedIsGone' BY <1>2 DEF RemovedIsGone, Emptied
<1>4. ASSUME NEW i \in Job
      PROVE  Selected(i)' /\ Deleting(i)' /\ Finishing(i)' /\ Unseeded(i)'
  <2>1. CASE i = j
    BY <1>1, <2>1 DEF Selected
  <2>2. CASE i # j
    BY <1>1, <1>2, <1>4, <2>2 DEF Selected, Deleting, Finishing, Unseeded,
                                  PerformsDelete, DirectoriesOf, Running
  <2> QED BY <2>1, <2>2
<1>5. token[j].winner \in Release /\ token[j].winner \notin token[j].losers
  BY DEF Selected, TypeOK, TokenState
<1>6. OnDisk(token[j].winner) => OnDisk(token[j].winner)'
  BY <1>5 DEF OnDisk, DirectoriesOf
<1>7. ASSUME OneAtATime
      PROVE  /\ Alone' /\ KeepsACopy'
             /\ \A i \in Job : WinnerStands(i)' /\ Reviewed(i)'
  <2>1. \A i \in Job \ {j} : job'[i].pc \notin Running
    BY <1>1, <1>7 DEF Alone
  <2>2. Alone' BY <2>1 DEF Alone
  <2>3. WinnerStands(j)' /\ KeepsACopy'
    BY <1>5, <1>6, <1>7 DEF WinnerStands, KeepsACopy
  <2>4. Reviewed(j)'
    BY <1>7 DEF Reviewed, DirectoriesOf
  <2>5. \A i \in Job \ {j} : WinnerStands(i)' /\ Reviewed(i)'
    BY <2>1 DEF WinnerStands, Reviewed
  <2> QED BY <2>2, <2>3, <2>4, <2>5
<1> QED BY <1>3, <1>4, <1>7

LEMMA JobHasState ==
  ASSUME IndInv, NEW j \in Job PROVE job[j] \in JobState
BY DEF IndInv, TypeOK

LEMMA RemoveStep ==
  ASSUME IndInv, NEW j \in Job, NEW t \in Torrent, RemoveTorrent(j, t) \/ RemoveFails(j, t)
  PROVE  IndInv'
<1> USE DEF IndInv, library, history
<1>1. PICK v : /\ v \in JobState /\ Becomes(j, v)
               /\ v.pc = "removing" /\ v.listed = job[j].listed
               /\ v.left = job[j].left \ {t}
               /\ \/ v.failed
                  \/ v.failed = job[j].failed /\ seeding' = seeding \ {t}
  <2>1. CASE RemoveTorrent(j, t)
    <3> DEFINE u == [job[j] EXCEPT !.left = @ \ {t}, !.removed = @ \cup {t}]
    <3>1. u \in JobState /\ u.pc = "removing" /\ u.listed = job[j].listed
            /\ u.left = job[j].left \ {t} /\ u.failed = job[j].failed
      BY <2>1, JobHasState DEF RemoveTorrent, JobState
    <3>2. Becomes(j, u) /\ seeding' = seeding \ {t} BY <2>1 DEF RemoveTorrent
    <3> HIDE DEF u
    <3> QED BY <3>1, <3>2
  <2>2. CASE RemoveFails(j, t)
    <3> DEFINE u == [job[j] EXCEPT !.left = @ \ {t}, !.failed = TRUE]
    <3>1. u \in JobState /\ u.pc = "removing" /\ u.listed = job[j].listed
            /\ u.left = job[j].left \ {t} /\ u.failed
      BY <2>2, JobHasState DEF RemoveFails, JobState
    <3>2. Becomes(j, u) BY <2>2 DEF RemoveFails
    <3> HIDE DEF u
    <3> QED BY <3>1, <3>2
  <2> QED BY <2>1, <2>2
<1>2. job' \in [Job -> JobState] /\ job'[j] = v
  BY <1>1, OneJob DEF TypeOK
<1>3. /\ UNCHANGED <<disk, token, state, byHand, recreated, touched>>
      /\ seeding' \subseteq seeding
      /\ job[j].pc = "removing"
  BY DEF RemoveTorrent, RemoveFails
<1>4. TypeOK' BY <1>2, <1>3 DEF TypeOK, RemoveTorrent, RemoveFails
<1>5. Deleting(j)' /\ Finishing(j)'
  BY <1>1, <1>2 DEF Deleting, Finishing
<1>6. Unseeded(j)'
  BY <1>1, <1>2, <1>3 DEF Unseeded
<1> QED BY <1>1, <1>3, <1>4, <1>5, <1>6, GoOnStep DEF Running

LEMMA RemovalsDoneStep ==
  ASSUME IndInv, NEW j \in Job, RemovalsDone(j) PROVE IndInv'
<1> USE DEF IndInv, library, torrents, history
<1> DEFINE v == [job[j] EXCEPT
                   !.pc = IF PerformsDelete(j) THEN "deleting" ELSE "finishing",
                   !.doomed = IF PerformsDelete(j)
                              THEN DirectoriesOf(token[j].losers) ELSE {}]
<1>1. /\ v \in JobState
      /\ v.pc = (IF PerformsDelete(j) THEN "deleting" ELSE "finishing")
      /\ v.doomed = (IF PerformsDelete(j) THEN DirectoriesOf(token[j].losers) ELSE {})
      /\ v.listed = job[j].listed /\ v.failed = job[j].failed
  <2>1. DirectoriesOf(token[j].losers) \in SUBSET Directory BY DEF DirectoriesOf
  <2>2. job[j] \in JobState BY JobHasState
  <2> HIDE DEF IndInv
  <2> QED BY <2>1, <2>2 DEF JobState
<1>2. Becomes(j, v) BY DEF RemovalsDone
<1> HIDE DEF v
<1>3. job' \in [Job -> JobState] /\ job'[j] = v
  BY <1>1, <1>2, OneJob DEF TypeOK
<1>4. TypeOK' BY <1>3 DEF TypeOK, RemovalsDone
<1>5. job[j].pc = "removing" /\ job[j].left = {} BY DEF RemovalsDone
<1>6. PerformsDelete(j)' <=> PerformsDelete(j)
  BY <1>1, <1>3 DEF PerformsDelete, RemovalsDone
<1>7. Deleting(j)' /\ Finishing(j)'
  BY <1>1, <1>3, <1>6 DEF Deleting, Finishing, PerformsDelete, DirectoriesOf, RemovalsDone
<1>8. Unseeded(j)'
  BY <1>1, <1>3, <1>5 DEF Unseeded, PerformsDelete, RemovalsDone
<1> QED BY <1>1, <1>2, <1>4, <1>5, <1>7, <1>8, GoOnStep DEF Running, RemovalsDone

LEMMA DeleteStep ==
  ASSUME IndInv, NEW j \in Job, NEW d \in Directory, DeleteDirectory(j, d) PROVE IndInv'
<1> USE DEF IndInv, library, torrents
<1>1. CASE d \notin writable
  <2>1. TypeOK' BY <1>1, Ended DEF TypeOK, DeleteDirectory
  <2> QED BY <1>1, <2>1, EndStep DEF DeleteDirectory
<1>2. CASE d \in writable
  <2> DEFINE v == [job[j] EXCEPT !.doomed = @ \ {d}]
  <2>1. /\ v \in JobState /\ v.pc = "deleting" /\ v.doomed = job[j].doomed \ {d}
        /\ v.listed = job[j].listed /\ v.failed = job[j].failed
    <3>1. job[j] \in JobState /\ job[j].pc = "deleting" BY JobHasState DEF DeleteDirectory
    <3> HIDE DEF IndInv
    <3> QED BY <3>1 DEF JobState
  <2>2. Becomes(j, v) BY <1>2 DEF DeleteDirectory
  <2> HIDE DEF v
  <2>3. job' \in [Job -> JobState] /\ job'[j] = v
    BY <2>1, <2>2, OneJob DEF TypeOK
  <2>4. /\ disk' \in [Directory -> Content] /\ disk'[d] = "none"
        /\ \A e \in Directory \ {d} : disk'[e] = disk[e]
    BY <1>2 DEF DeleteDirectory, TypeOK, Content
  <2>5. UNCHANGED <<token, state, byHand, recreated, touched, seeding>>
    BY <1>2 DEF DeleteDirectory
  <2>6. TypeOK' BY <2>3, <2>4, <2>5 DEF TypeOK, DeleteDirectory
  <2>7. job[j].pc = "deleting" /\ d \in job[j].doomed BY DEF DeleteDirectory
  <2>8. Deleting(j)' /\ Finishing(j)' /\ Unseeded(j)'
    BY <2>1, <2>3, <2>4, <2>5, <2>7 DEF Deleting, Finishing, Unseeded, Emptied, DirectoriesOf
  <2>9. d \in DirectoriesOf(token[j].losers) BY <2>7 DEF Deleting
  <2> QED BY <2>1, <2>2, <2>4, <2>5, <2>6, <2>7, <2>8, <2>9, GoOnStep DEF Running
<1> QED BY <1>1, <1>2

LEMMA DeletesDoneStep ==
  ASSUME IndInv, NEW j \in Job, DeletesDone(j) PROVE IndInv'
<1> USE DEF IndInv, library, torrents, history
<1> DEFINE v == [job[j] EXCEPT !.pc = "finishing"]
<1>1. v \in JobState /\ v.pc = "finishing" /\ v.failed = job[j].failed
  <2>1. job[j] \in JobState BY JobHasState
  <2> HIDE DEF IndInv
  <2> QED BY <2>1 DEF JobState
<1>2. Becomes(j, v) BY DEF DeletesDone
<1> HIDE DEF v
<1>3. job' \in [Job -> JobState] /\ job'[j] = v
  BY <1>1, <1>2, OneJob DEF TypeOK
<1>4. TypeOK' BY <1>3 DEF TypeOK, DeletesDone
<1>5. job[j].pc = "deleting" /\ job[j].doomed = {} BY DEF DeletesDone
<1>6. Finishing(j)'
  BY <1>5 DEF Finishing, Deleting, Emptied, DirectoriesOf, DeletesDone
<1>7. Deleting(j)' /\ Unseeded(j)' BY <1>1, <1>3 DEF Deleting, Unseeded
<1> QED BY <1>1, <1>2, <1>4, <1>5, <1>6, <1>7, GoOnStep DEF Running, DeletesDone

LEMMA FinishStep ==
  ASSUME IndInv, NEW j \in Job, Finish(j) PROVE IndInv'
<1> USE DEF IndInv
<1>1. /\ Ends(j, "completed") /\ job[j].pc = "finishing"
      /\ UNCHANGED <<disk, writable, seeding, archived, byHand, recreated, changes, faults>>
  BY DEF Finish
<1>2. ASSUME NEW r \in Release
      PROVE  /\ state'[r] \in ReleaseState
             /\ state'[r] = "removed" =>
                  \/ state[r] = "removed"
                  \/ r \in token[j].losers /\ PerformsDelete(j)
  BY DEF Finish, Flushed, LoserState, TypeOK, ReleaseState
<1>3. TypeOK'
  <2>1. state' \in [Release -> ReleaseState] BY <1>2 DEF Finish
  <2>2. row' \subseteq Directory /\ present' \subseteq Torrent
    BY DEF Finish, TypeOK
  <2>3. problem' \in [status : {"open", "resolved"}, candidates : SUBSET Release]
    BY DEF Finish, TypeOK
  <2> QED BY <1>1, <2>1, <2>2, <2>3, Ended DEF TypeOK
<1>4. \A r \in Release : state'[r] = "removed" =>
        \/ state[r] = "removed"
        \/ \A d \in Directory : Owner[d] = r => Emptied(d)
  BY <1>1, <1>2 DEF Finishing, DirectoriesOf
<1> QED BY <1>1, <1>3, <1>4, EndStep

LEMMA CrashStep ==
  ASSUME IndInv, Crash PROVE IndInv'
<1> USE DEF IndInv, library, torrents
<1>1. Idle("failed") \in JobState /\ Idle("failed").pc = "failed" BY IdleState
<1>2. /\ job' \in [Job -> JobState] /\ token' \in [Job -> TokenState]
      /\ touched' \in [Job -> SUBSET Directory]
  BY <1>1, EmptyToken DEF TypeOK, Crash
<1>3. TypeOK' BY <1>2 DEF TypeOK, Crash
<1>4. ASSUME NEW i \in Job
      PROVE  /\ job'[i].pc \notin Running
             /\ job'[i].pc = "reviewed" =>
                  job[i].pc = "reviewed" /\ token'[i] = token[i]
  BY <1>1, <1>4 DEF Crash, Running, TypeOK
<1>5. RemovedIsGone' BY DEF RemovedIsGone, Crash
<1>6. ASSUME NEW i \in Job
      PROVE  Selected(i)' /\ Deleting(i)' /\ Finishing(i)' /\ Unseeded(i)'
  <2>1. Selected(i)' BY <1>4, <1>6 DEF Selected
  <2>2. Deleting(i)' /\ Finishing(i)' /\ Unseeded(i)'
    BY <1>4, <1>6 DEF Deleting, Finishing, Unseeded, Running
  <2> QED BY <2>1, <2>2
<1>7. ASSUME OneAtATime
      PROVE  /\ Alone' /\ KeepsACopy'
             /\ \A i \in Job : WinnerStands(i)' /\ Reviewed(i)'
  BY <1>4, <1>7 DEF Alone, KeepsACopy, WinnerStands, Reviewed, OnDisk, Crash
<1> QED BY <1>3, <1>5, <1>6, <1>7

-----------------------------------------------------------------------------
LEMMA InitInv == Init => IndInv
<1> SUFFICES ASSUME Init PROVE IndInv OBVIOUS
<1> USE DEF Init
<1>1. \A j \in Job : job[j].pc = "none" /\ job[j] \in JobState
  BY IdleState
<1>2. TypeOK BY <1>1, EmptyToken, IdleState DEF TypeOK, Content, ReleaseState
<1>3. RemovedIsGone BY DEF RemovedIsGone
<1>4. \A j \in Job : Selected(j) /\ Deleting(j) /\ Finishing(j) /\ Unseeded(j)
  BY <1>1 DEF Selected, Deleting, Finishing, Unseeded, Running
<1>5. KeepsACopy
  <2>1. PICK d \in Directory : TRUE OBVIOUS
  <2> QED BY <2>1 DEF KeepsACopy, OnDisk
<1>6. /\ Alone /\ \A j \in Job : WinnerStands(j) /\ Reviewed(j)
  BY <1>1 DEF Alone, WinnerStands, Reviewed, Running
<1> QED BY <1>2, <1>3, <1>4, <1>5, <1>6 DEF IndInv

LEMMA StepInv == IndInv /\ [Next]_vars => IndInv'
<1> SUFFICES ASSUME IndInv, [Next]_vars PROVE IndInv' OBVIOUS
<1>1. ASSUME NEW j \in Job, AskPreview(j) \/ Start(j) \/ Refuse(j) PROVE IndInv'
  BY <1>1, AskStep, StartStep, RefuseStep
<1>2. ASSUME NEW j \in Job, JobStep(j) PROVE IndInv'
  BY <1>2, RemoveStep, RemovalsDoneStep, DeleteStep, DeleteFailsStep, DeletesDoneStep,
     FinishStep DEF JobStep
<1>3. ASSUME NEW L \in SUBSET {d \in row : disk[d] = "none"}, Scan(L) PROVE IndInv'
  BY <1>3, ScanStep
<1>4. CASE World BY <1>4, OutsideStep, HandStep DEF World
<1>5. CASE UNCHANGED vars
  <2>1. TypeOK' BY <1>5 DEF IndInv, TypeOK, vars, jobs, library, torrents, history
  <2> QED BY <1>5, <2>1, RowsOnly DEF vars, jobs, library, torrents, history
<1> QED BY <1>1, <1>2, <1>3, <1>4, <1>5, CrashStep DEF Next

(* The inductive invariant, and the types: of the rows, files, torrents,   *)
(* tokens and Jobs that a resolution reads and writes.                     *)
THEOREM Invariance == Spec => []IndInv
BY InitInv, StepInv, PTL DEF Spec

THEOREM TypeCorrect == Spec => []TypeOK
<1>1. IndInv => TypeOK BY DEF IndInv
<1> QED BY <1>1, Invariance, PTL

(* "A duplicate decision must always retain at least one physical copy"    *)
(* (commit_duplicate_resolution): it does when resolutions do not overlap. *)
THEOREM CopyKept == OneAtATime /\ Spec => []KeepsACopy
<1>1. IndInv /\ OneAtATime => KeepsACopy BY DEF IndInv
<1>2. ASSUME OneAtATime PROVE Spec => []KeepsACopy
  <2>1. IndInv => KeepsACopy BY <1>1, <1>2
  <2> QED BY <2>1, Invariance, PTL
<1> QED BY <1>2

(* A release that commit_duplicate_resolution or a scan calls "removed"    *)
(* has no file left that nobody put back by hand.                          *)
THEOREM RemovedReleasesAreGone == Spec => []RemovedIsGone
<1>1. IndInv => RemovedIsGone BY DEF IndInv
<1> QED BY <1>1, Invariance, PTL

(* The rmtree of a resolution takes only what its preview showed.          *)
THEOREM ReviewedOnly == OneAtATime /\ Spec => DeletesOnlyReviewed
<1>1. ASSUME OneAtATime, IndInv
      PROVE  \A j \in Job, d \in Directory :
               DeleteDirectory(j, d) =>
                 disk'[d] = disk[d] \/ d \in touched[j] \/ token[j].files[d] = disk[d]
  <2> SUFFICES ASSUME NEW j \in Job, NEW d \in Directory, DeleteDirectory(j, d)
               PROVE  \/ disk'[d] = disk[d] \/ d \in touched[j]
                      \/ token[j].files[d] = disk[d]
    OBVIOUS
  <2>1. /\ job[j].pc \in Running /\ token[j].delete
        /\ d \in DirectoriesOf(token[j].losers)
    BY <1>1 DEF DeleteDirectory, IndInv, Deleting, Running
  <2>2. disk' = disk \/ disk' = [disk EXCEPT ![d] = "none"]
    BY DEF DeleteDirectory
  <2>3. disk \in [Directory -> Content] BY <1>1 DEF IndInv, TypeOK
  <2> QED BY <1>1, <2>1, <2>2, <2>3 DEF IndInv, Reviewed
<1>2. ASSUME OneAtATime PROVE Spec => DeletesOnlyReviewed
  <2>1. IndInv => [\A j \in Job, d \in Directory :
               DeleteDirectory(j, d) =>
                 \/ disk'[d] = disk[d]
                 \/ d \in touched[j]
                 \/ token[j].files[d] = disk[d]]_vars
    BY <1>1, <1>2
  <2> QED BY <2>1, Invariance, PTL DEF DeletesOnlyReviewed
<1> QED BY <1>2

(* "If removal fails, the reviewed filesystem deletion is skipped": the    *)
(* rmtree runs only once qBittorrent has none of the Job's torrents.       *)
THEOREM FailedRemovalSpares == Spec => FailedRemovalSparesMedia
<1>1. IndInv => [\A j \in Job, d \in Directory :
         DeleteDirectory(j, d) /\ disk'[d] # disk[d] =>
           job[j].listed \cap seeding = {}]_vars
  BY DEF IndInv, Unseeded, DeleteDirectory
<1> QED BY <1>1, Invariance, PTL DEF FailedRemovalSparesMedia
=============================================================================

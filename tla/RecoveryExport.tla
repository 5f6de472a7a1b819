--------------------------- MODULE RecoveryExport ---------------------------
(***************************************************************************)
(* The Recovery Bundle export (services/recovery.py, api/recovery.py): a   *)
(* Job without a lock that collects the configuration, a base backup of    *)
(* the database and the files of the .torrent archive in a work directory, *)
(* packs them into a ZIP and leaves it to be downloaded until it expires.  *)
(* It runs beside the polls, retries and restores of TorrentArchive, which *)
(* change both the database it backs up and the files it packs.            *)
(*                                                                         *)
(* Every request, every export that starts and every start of the program  *)
(* removes work directories and bundles that nobody touched for as long as *)
(* the retention; a step that makes a new entry in its work directory      *)
(* touches it.  Of a database the torrents it calls archived are kept; the *)
(* configuration and the inventory are left out.                           *)
(***************************************************************************)
EXTENDS TorrentArchive

CONSTANTS Exports   \* exports that may ever be asked for

VARIABLES
  export   \* each export: where its task is, its Job, its work directory and its bundle

xvars == <<avars, export>>

Unfinished == {"queued", "running"}
Age == {"none", "fresh", "old"}

\* at: the step its task takes next.  A task that ended is "done", one that nobody
\* handled the exception of is "lost", one that a restart cut off is "stopped".
Steps  == {"free", "asked", "setup", "ready", "backup", "gather", "pack", "finish",
           "failing", "clean", "done", "lost", "stopped"}
Bundle == [age : Age, database : BOOLEAN, says : SUBSET Torrents, payloads : SUBSET Torrents]
State  == [at : Steps, job : {"none", "queued", "running", "completed", "failed", "interrupted"},
           work : Age, database : BOOLEAN, says : SUBSET Torrents, listed : SUBSET Torrents,
           bundle : Bundle, late : BOOLEAN]

NoBundle == [age |-> "none", database |-> FALSE, says |-> {}, payloads |-> {}]
Unasked  == [at |-> "free", job |-> "none", work |-> "none", database |-> FALSE, says |-> {},
             listed |-> {}, bundle |-> NoBundle, late |-> FALSE]

XInit == AInit /\ export = [e \in Exports |-> Unasked]

-----------------------------------------------------------------------------
(* The export directory                                                    *)

UnexpiredOfAnyAge(x) ==
  [x EXCEPT !.work = "none", !.database = FALSE, !.bundle = IF @.age = "old" THEN NoBundle ELSE @]

\* cleanup_expired_recovery_exports
Unexpired(x) ==
  [x EXCEPT !.work = IF @ = "old" THEN "none" ELSE @,
            !.database = @ /\ x.work # "old",
            !.bundle = IF @.age = "old" THEN NoBundle ELSE @]

Cleaned == [e \in Exports |-> Unexpired(export[e])]

\* mkdir makes the work directory again when it is gone; a new entry touches it.
Touched(x) == [x EXCEPT !.work = "fresh"]

Payloads == {t \in Torrents : file[t].payload # None}
Archived == {t \in Torrents : row[t].state = "archived"}

Becomes(e, x) == export' = [export EXCEPT ![e] = x]
At(e, step)   == export[e].at = step
Quiet         == UNCHANGED avars

-----------------------------------------------------------------------------
(* The request                                                             *)

\* start_recovery_export cleans up, and only then looks for an export that is under way.
UnderWay == \E e \in Exports : export[e].job \in Unfinished

Ask(e) ==
  /\ At(e, "free") /\ ~UnderWay
  /\ export' = [Cleaned EXCEPT ![e] = [Cleaned[e] EXCEPT !.at = "asked"]]
  /\ Quiet

Refuse ==
  /\ UnderWay
  /\ export' = Cleaned
  /\ Quiet

\* Two requests may both have found none.
Create(e) ==
  /\ At(e, "asked")
  /\ Becomes(e, [export[e] EXCEPT !.at = "setup", !.job = "queued"])
  /\ Quiet

-----------------------------------------------------------------------------
(* run_recovery_export                                                     *)

Setup(e) ==
  /\ At(e, "setup")
  /\ export' = [Cleaned EXCEPT ![e] = [Touched(Cleaned[e]) EXCEPT !.at = "ready"]]
  /\ Quiet

\* Outside the try: nobody handles it, and the Job stays QUEUED until a restart.
SetupFails(e) ==
  /\ At(e, "setup") /\ Fault
  /\ Becomes(e, [export[e] EXCEPT !.at = "lost"])
  /\ UNCHANGED <<row, file, qbit, client, writable, poll, retry, restore, spoiled, recorded, erased>>

\* The commit of RUNNING; the configuration and the inventory are read, and pg_basebackup starts in
\* a directory of its own,
BackupStarts(e) ==
  /\ At(e, "ready")
  /\ Becomes(e, [Touched(export[e]) EXCEPT !.at = "backup", !.job = "running", !.database = TRUE])
  /\ Quiet

\* and what it made is the database as it is when it ends.
BackupEnds(e) ==
  /\ At(e, "backup")
  /\ Becomes(e, [export[e] EXCEPT !.at = "gather", !.says = Archived])
  /\ Quiet

GatherSeen(e) ==
  /\ At(e, "gather")
  /\ Becomes(e, [Touched(export[e]) EXCEPT !.at = "pack", !.listed = {t \in Payloads : row[t].seen # {}}])
  /\ Quiet

\* Configuration and inventory are written and the files of the archive listed,
Gather(e) ==
  /\ At(e, "gather")
  /\ Becomes(e, [Touched(export[e]) EXCEPT !.at = "pack", !.listed = Payloads])
  /\ Quiet

\* digested and packed in threads, while the archive changes; a file that vanished fails it, an
\* absent database does not.
Pack(e) ==
  LET x == export[e] IN
  /\ At(e, "pack")
  /\ IF x.listed \subseteq Payloads /\ x.work # "none"
     THEN Becomes(e, [x EXCEPT !.at = "finish", !.says = {}, !.listed = {},
                        !.bundle = [age |-> "fresh", database |-> x.database, says |-> x.says,
                                    payloads |-> x.listed]])
     ELSE Becomes(e, [x EXCEPT !.at = "failing"])
  /\ Quiet

Finish(e) ==
  /\ At(e, "finish")
  /\ Becomes(e, [export[e] EXCEPT !.at = "clean", !.job = "completed"])
  /\ Quiet

\* COMPLETED is committed and the answer of the commit is lost.
FinishUnheard(e) ==
  /\ At(e, "finish") /\ Fault
  /\ Becomes(e, [export[e] EXCEPT !.at = "failing", !.job = "completed"])
  /\ UNCHANGED <<row, file, qbit, client, writable, poll, retry, restore, spoiled, recorded, erased>>

\* Any step inside the try may raise.
StepFails(e) ==
  /\ export[e].at \in {"ready", "backup", "gather", "pack", "finish"} /\ Fault
  /\ Becomes(e, [export[e] EXCEPT !.at = "failing"])
  /\ UNCHANGED <<row, file, qbit, client, writable, poll, retry, restore, spoiled, recorded, erased>>

WithdrawnKept(x) == [x EXCEPT !.at = "clean", !.says = {}, !.listed = {}]

\* The handler takes the bundle away first.
Withdrawn(x) == [x EXCEPT !.at = "clean", !.bundle = NoBundle, !.says = {}, !.listed = {}]

Fails(e) ==
  /\ At(e, "failing")
  /\ Becomes(e, [Withdrawn(export[e]) EXCEPT !.job = "failed"])
  /\ Quiet

\* The handler's own commit fails: the Job stays as it is.
FailsUnheard(e) ==
  /\ At(e, "failing") /\ Fault
  /\ Becomes(e, [Withdrawn(export[e]) EXCEPT !.at = "lost", !.work = "none", !.database = FALSE])
  /\ UNCHANGED <<row, file, qbit, client, writable, poll, retry, restore, spoiled, recorded, erased>>

\* finally
CleanUp(e) ==
  /\ At(e, "clean")
  /\ Becomes(e, [export[e] EXCEPT !.at = "done", !.work = "none", !.database = FALSE])
  /\ Quiet

-----------------------------------------------------------------------------
(* Time and restarts                                                       *)

\* As long as the retention passes without a new entry.
Older(x) == IF x = "fresh" THEN "old" ELSE x

TimePasses(e) ==
  /\ export[e].work = "fresh" \/ export[e].bundle.age = "fresh"
  /\ Fault
  /\ Becomes(e, [export[e] EXCEPT !.work = Older(@), !.bundle.age = Older(@),
                                  !.late = @ \/ export[e].job \in Unfinished])
  /\ UNCHANGED <<row, file, qbit, client, writable, poll, retry, restore, spoiled, recorded, erased>>

InterruptedRunning(x) ==
  [x EXCEPT !.at = IF @ \in {"free", "asked"} THEN "free" ELSE IF @ = "done" THEN @ ELSE "stopped",
            !.job = IF @ = "running" THEN "interrupted" ELSE @]

\* The program stops anywhere and starts: mark_running_jobs_interrupted, then the clean-up.
Interrupted(x) ==
  [x EXCEPT !.at = IF @ \in {"free", "asked"} THEN "free" ELSE IF @ = "done" THEN @ ELSE "stopped",
            !.job = IF @ \in Unfinished THEN "interrupted" ELSE @, !.says = {}, !.listed = {}]

Restarts ==
  /\ Restart
  /\ export' = [e \in Exports |-> Unexpired(Interrupted(export[e]))]

ExportStep(e) ==
  \/ Create(e) \/ Setup(e) \/ BackupStarts(e) \/ BackupEnds(e) \/ Gather(e) \/ Pack(e)
  \/ Finish(e) \/ Fails(e) \/ CleanUp(e)

XNext ==
  \/ ANext /\ UNCHANGED export
  \/ \E e \in Exports : \/ Ask(e) \/ ExportStep(e) \/ TimePasses(e)
                        \/ SetupFails(e) \/ StepFails(e) \/ FinishUnheard(e) \/ FailsUnheard(e)
  \/ Refuse
  \/ Restarts

XFair ==
  /\ \A c \in Clients : WF_xvars(PollStep(c) /\ UNCHANGED export) /\ SF_xvars(PollLock(c) /\ UNCHANGED export)
  /\ \A t \in Torrents : WF_xvars(RetryStep(t) /\ UNCHANGED export)
  /\ \A e \in Exports : WF_xvars(ExportStep(e))

XSpec == XInit /\ [][XNext]_xvars

FairXSpec == XSpec /\ XFair

-----------------------------------------------------------------------------
(* Properties                                                              *)

XTypeOK == ATypeOK /\ export \in [Exports -> State]

\* A bundle that is offered holds the database, although exports and requests clean up the directory
\* its work lies in; only an export that takes longer than the retention may lose it.
BundleIsWhole ==
  \A e \in Exports : LET x == export[e] IN
    x.job = "completed" /\ x.bundle.age # "none" /\ ~x.late => x.bundle.database

\* Every torrent that the database in a bundle calls archived has its payload in the bundle, although
\* the polls archive on while the bundle is made: the files are listed after the backup has ended,
\* and files that a committed state speaks of were there before it.
BundleCoversArchive ==
  \A e \in Exports : export[e].bundle.says \ spoiled \subseteq export[e].bundle.payloads

\* What a download of a bundle may be trusted with.
BundleRestores == BundleIsWhole /\ BundleCoversArchive

\* A task that ended, well or not, has left no work directory, and a bundle only with a Job that says
\* COMPLETED, also when the answer of that commit was lost.
NothingLeftBehind ==
  \A e \in Exports : LET x == export[e] IN
    x.at \in {"done", "lost"} => x.work = "none" /\ (x.bundle.age # "none" => x.job = "completed")

\* An unfinished export ends, or is one of those nobody handles: it does not refuse the next request
\* for ever because a step failed or the program stopped.
UnfinishedExportEnds ==
  <>[](\A e \in Exports : export[e].job \notin Unfinished \/ export[e].at = "lost")

=============================================================================

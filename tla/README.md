# Verification of Medialogue

TLA+ specifications, TLC model checking and TLAPS proofs for the Medialogue
backend (`src/backend/app`). Medialogue keeps a catalogue of the movies and
shows found under configured storage roots, links it to the torrents that
brought them, and queues what it cannot decide as *Problems* for an
administrator. Its one rule is that it observes and never moves media, so
almost every bug that matters is one of *state*: a catalogue that says
something the disk, qBittorrent or an administrator's decision contradicts.

All paths below are relative to `src/backend/app/` unless they start with `src/`.

## 1. Inventory

One FastAPI process, one asyncio event loop, one database (PostgreSQL in
production, SQLite in the tests). Concurrency is: request handlers, runtime
tasks (`services/runtime_jobs.py`), request background tasks, and the
qBittorrent poll loop (`main.py:34-55`) - nothing else runs periodically - interleaved at every `await`, each with
a session of its own at READ COMMITTED and without version columns.

| component | state | operations | what is hard | what makes it correct |
|---|---|---|---|---|
| Job lifecycle (`services/jobs.py`, `runtime_jobs.py`, `api/jobs.py`, `db/bootstrap.py`) | `Job` rows; the in-memory task registry | create, launch, checkpoint, complete, fail, cancel, restart | the worker works on its own copy of the row; the cancel comes through another session; the process dies | a cancelled row stops its worker within one item and stays cancelled; no row is live without somebody responsible |
| Background workers (`library_scan.py`, `search.py`, `bulk.py`, `plex_sync.py`, `qbittorrent.py`) | the row copy, item counters | per-item loops with commits | remote calls that hang; failures half way | every Job ends |
| Problem queue (`reconciliation.py:132-286`, `problem_resolution.py`, `api/problems.py`) | `Problem` rows, one identity = (reason, entity) | open, refresh, resolve; dismiss, restore, confirm, delete, recheck | observers and administrators race on one identity with only a partial unique index and an advisory lock | one OPEN row per condition; the queue ends up saying what is so; a dismissal is respected |
| Movie reconciliation (`reconciliation.py`, `reconciliation/engine.py`) | `MediaDirectory`, `MovieRelease`, `MovieReleaseTorrent`, Problems | scan listing, absence marking, directory reconciliation, duplicate refresh, torrent association, completion, cancellation, disagreement | scan and poll interleave by commit; the world changes in any order; each poll repeats completion | states of releases, directories and links agree; absence is never concluded from an outage; duplicates are labelled exactly while they last; no ghost releases |
| Storage root scan (`library_scan.py`, `integrations/filesystem.py`) | root lock, scan Job | list, mark absent, reconcile each directory, finish | cut between commits | as above; one scan per root at a time |
| qBittorrent poll (`services/qbittorrent.py`) | `TorrentClientObservation`, health | list, per-torrent update in a savepoint, absences | force checks, completion edge, removal, re-adding, path moves | completion is idempotent; removal cancels what waited for it |
| Scan requests and recheck (`api/storage.py`, `api/problems.py`, `api/reconciliation.py`) | scan Jobs of a root, recheck parent Job | request, recheck one, recheck all, wait for children, follow-up | check-then-create; a parent waiting on children | no two queued scans of a root; the parent ends |
| Show reconciliation (`services/shows.py`, `reconciliation.py`, `tmdb.py`) | episode rows with their numbers, files, maps, releases, links, Problems | scan and poll passes, absences, hand mappings, confirmed identity, refresh from TMDB | packs overlap single episodes; names are wrong; a refresh renumbers rows while files are mapped | a present episode has a file; two files of one episode are reported; decisions by hand stand; one row per number |
| Duplicate resolution (`problem_resolution.py`, `api/duplicates.py`) | signed preview, Job, rows, files, torrents | preview, confirm, check again, remove torrents, delete directories, commit | effects before the commit, partial failure, crash, stale preview | only reviewed files go, never the last copy, never the data of a torrent that is still there |
| Interactive search and download (`services/search.py`, `api/search.py`) | search Job, frozen settings, result rows, clients | ask indexers, store results, clean up, download, add the title | settings change under a slow search; the torrent is out before the commit | one policy per search; every submission has a selection or a known loss |
| Quality profiles and custom formats (`services/quality_profiles.py`, `services/custom_formats.py`, their APIs, `db/bootstrap.py`) | formats, profiles, assignments, overrides, stored scores | create, import, edit, delete, assign, refresh; re-sync of the built-in formats at each start | stored scores are derived from five kinds of rows and must follow each edit | stored scores are those of the present settings |
| Torrent archive (`services/torrent_archive.py`) | payload and manifest on the mount, state on the row | archive on every poll, retry, restore | file and row in two steps, SAVEPOINTs, a mount that comes and goes, a manifest read before an await and written after it | what the database calls archived can be put back |
| Recovery export (`services/recovery.py`, `api/recovery.py`) | export Job, work directory, bundle | request with clean-up, backup, gather, pack, expire, restart | polls go on while the bundle is made; commits whose answer is lost | a bundle restores what its database says; nothing is left behind |
| Live events (`services/events.py`, `api/jobs.py`) | subscriber queues | publish after commit, drop slow subscribers | bounded queues, rollback | no event of a rolled back transaction |
| Plex, parser, path mapping, integration configuration, tags, authentication, frontend, packaging | see `PROJECT.json` | | mostly sequential | mostly pure functions |

Interactions: request handlers create Jobs and launch workers; scans and polls
both call the reconciliation service on one catalogue; reconciliation opens and
resolves Problems; completed scans queue Plex checks; polls archive torrents while
exports pack the archive; searches judge results by settings that edits change, and
downloads hand torrents to the clients that polls watch; restarts interrupt Jobs.

`PROJECT.json` lists every component with its status, every hazard with its
line and the properties that would catch it, and the source lines of every
definition.

## 2. Modules

| module | models | role |
|---|---|---|
| `JobBoard` | what the API promises about a Job row | abstract specification |
| `JobLifecycle` | `jobs.py`, `runtime_jobs.py`, `api/jobs.py`, `bootstrap.py` and the control of all workers | implements `JobBoard` |
| `JobLifecycleProofs` | | theorems of `JobLifecycle` |
| `ProblemQueue` | `open_problem`, `resolve_problem`, the explicit Problem actions | one Problem identity under contention |
| `ProblemQueueProofs` | | theorems of `ProblemQueue` |
| `MovieLibrary` | movie part of `reconciliation.py`, `engine.py`, `library_scan.py`, `qbittorrent.py` | scans and polls on one movie's catalogue |
| `MCMovieLibrary` | | instances of `MovieLibrary` for TLC |
| `MovieLibraryProofs` | | theorems of `MovieLibrary` |
| `ScanRequests` | `api/storage.py`, `api/reconciliation.py`, the recheck of `api/problems.py`, the control of `library_scan.py` | who asks for scans and who waits for them |
| `ScanRequestsProofs` | | theorems of `ScanRequests` |
| `ShowLibrary`, `MCShowLibrary` | `shows.py`, the show part of `reconciliation.py`, `library_scan.py`, `qbittorrent.py`, `tmdb.sync_show_metadata`, the mapping endpoints | one show's catalogue under everything that writes it |
| `ShowLibraryProofs` | | theorems of `ShowLibrary` |
| `DuplicateResolution`, `MCDuplicateResolution` | the duplicate part of `problem_resolution.py`, `api/duplicates.py` | one movie's copies, torrents and resolutions |
| `DuplicateResolutionProofs` | | theorems of `DuplicateResolution` |
| `TorrentArchive` | `torrent_archive.py`, the archive part of the poll, the restore Job | files and rows of the archive |
| `RecoveryExport`, `MCRecoveryExport` | `recovery.py`, `api/recovery.py` | extends `TorrentArchive`: exports beside polls, retries and restores |
| `RecoveryExportProofs` | | theorems of `TorrentArchive` and of `RecoveryExport` |
| `ReleaseScores` | `custom_formats.py`, `quality_profiles.py` and their APIs | settings and the scores derived from them |
| `InteractiveSearch`, `MCInteractiveSearch` | `services/search.py`, `api/search.py` | extends `ReleaseScores`: searches and downloads beside edits |
| `InteractiveSearchProofs` | | theorems of `InteractiveSearch` and of `ReleaseScores` |

### JobLifecycle

`row[j]` is the committed status, `worker[j]` the coroutine: its phase and how
many of its items are done. A step is what lies between two awaits or one commit.
Three kinds of workers cover all of the code's: *Sweep* refreshes its row before
each item (`library_scan.py:158-161`, `bulk.py:338-345`, `plex_sync.py:79-82`,
the poll of all clients), *Single* is one item that never looks again (poll of one
client, archive retry, duplicate resolution), *Search* re-reads the row in a new
session before each indexer, is launched as a background task and therefore is not
in the registry, and starts only from QUEUED. `Abandon` is the silent return when
the subject is gone. `cancel` is three steps: read, decide-and-write on the copy
read, `task.cancel()`; the cancellation lands at the worker's next await, after a
commit that is already in flight (`AfterCommit`). `Restart` is the death of the
process followed by `mark_running_jobs_interrupted`.

`overrun` is an observer, not program state: items finished on a CANCELLED row.

### ProblemQueue

Rows are numbered in creation order. An observer (scan, poll, recheck) walks the
code's statements one by one: advisory lock, read the DISMISSED rows, read the
OPEN rows, INSERT in a savepoint, on conflict re-read, COMMIT. `resolve_problem`
reads the OPEN rows and writes RESOLVED over what it read, whatever it is by then.
Administrators load, check and write in separate steps. `Indexed` and `Advisory`
are switches for the two mechanisms because each is absent somewhere: the unique
index in databases created before it, the advisory lock on anything but
PostgreSQL. `condition` is the real world, `Rollback` any other failure of the
same transaction (polls run every torrent in a savepoint).

### MovieLibrary

The committed catalogue `cat` is a record; every service function is an operator
from a catalogue to the catalogue (or the set of those) it may leave, so that the
whole call tree of a handler, with the trailing
`_refresh_movie_duplicate_problem`, is one step. A scan commits after marking the
absences and after every directory (`ScanList`, `ScanAbsent`, `ScanDirectory`,
`ScanEnd`); a poll lists the client and then processes its torrents. The world
(`disk`, `rootUp`, `client`) changes between any two steps.

Abstractions: one already identified movie (TMDB, manual identity, Plex evidence
and format scores are left out, as is the CONFLICT state, which no present code
path writes); a folder name is reduced to its edition and to whether it can be
identified (`Unparsed`) and whether only the folder name says so (`FolderOnly`); a
torrent stays where it is (relocation and leaving the root's scope are left out);
`completed_download_handling` is on and the root has been scanned once; Problem
rows are reduced to open or not (`ProblemQueue` has the rows). Each torrent of a
poll is a step of its own although the poll commits once at its end, so a scan
sees more intermediate catalogues than the code shows; rows that a scan's session
keeps from before a commit of the poll are read afresh in the model.
`truth` and `gone` are observers: what the disk really held when a scan listed it.

### ScanRequests

`asker[q]` is a request (`POST /storage-roots/{id}/scan`, `POST /reconciliation/run`)
or the worker of a recheck parent; all three look for a live scan row, create
one, commit, and launch what they created, and differ in which roots they want
(`Wanted`), whether they queue behind a held lock (`Skips`) and whether they wait
afterwards (`After`). `job[j]` is a scan or Plex row, `task[j]` its asyncio task:
waiting for the root lock, past it with a QUEUED row, running, done. The lock is
held exactly by the tasks in `Holding`, so it outlives a row that was cancelled.
`Finish` writes COMPLETED and the id of the Plex Job in one transaction and
launches that Job, as the code does without an await in between, unless the
task was stopped while the COMMIT was in flight. `Settle` is one turn of the
recheck's waiting loop for one of its Jobs.

Abstractions: a cancel is one step here (`JobLifecycle` has its halves); the queue
of the lock is not ordered; launches of one request may be interleaved with other
tasks; the Plex check is one step (`PlexEnds`); the parent row of a recheck, its
direct checks and the poll of its clients are reduced to their outcome
(`RecheckFails` before it creates Jobs, `Conclude` after they ended); which roots
a Problem concerns is any subset; failures of the database itself are
excluded. `asked` is an observer: the roots a recheck found enabled.

`LiveRowIsAttended` names the two ways the code has to lose a row (`Excused`): the
task returns because its root was deleted and leaves the row QUEUED
(`library_scan.py:71-72`), and a cancel whose `task.cancel()` arrives at the COMMIT of
RUNNING or of the end, which lands without the rest of the coroutine. Such a row
answers later scan requests of its root until the next restart, and a recheck that
waits for it waits as long: `RecheckEnds` says that nothing else holds it up.

### ShowLibrary

As in `MovieLibrary` the committed catalogue is a record and every service function
an operator on it; a step is one transaction. An episode *row* is one of TMDB's
(`Title`) or was invented from a file name (`Local`). A file is mapped to rows of a
release; a release belongs to a *pack* (torrent or season folder) or to one file
(`scope`). `ScanList`, `ScanDirectory` and `ScanStops` are the scan; `Poll` is one
torrent of a poll, `CorrectFile` a mapping by hand, `Refresh` the sync from TMDB with its
parking of numbers, `Confirm`, `ConfirmSync` and `ConfirmPass` the Job that follows
a confirmed identity. Names are data: `Says` gives the seasons and numbers
the parser reads from a name, which may be wrong, contradict the folder or be nothing.

The refresh renumbers rows under a unique constraint that is not deferrable: it
first moves each row to a negative number of its own and then gives the new numbers.
`parked` counts how often a row was left at such a number, `Clash` is the state in
which the next refresh cannot park.

Abstractions: one show and one root; multi-root shows and a root outage,
`TORRENT_SHOW_CONTAINER_REQUIRED`, parse scores, events, monitoring flags and
quality are left out; ids of releases nothing refers to are recycled, so that
the rows the code leaks (a file that cannot be placed gets a new release at every
pass, `shows.py:840`; a pack nested in a generic folder one at every poll,
`shows.py:582`) do not grow the state.

### DuplicateResolution

`token[j]` is what the signed confirmation token says of the preview, `job[j]` the
worker with the uncommitted state of its session: torrents still to remove, directories
still to delete, the states it loaded. `Start` makes all checks of
`commit_duplicate_resolution`, which are statements of one transaction; then come
`RemoveTorrent`/`RemoveFails` and `DeleteDirectory`/`DeleteFails` one by one, and
`Finish` commits. `RemoveFails` includes a qBittorrent that obeyed and whose answer was
lost. `Crash` ends every Job; what was deleted stays deleted. Beside them are
scans, the archive retry, the polls and the administrator's own hands on
the disk. Scans here use up the grace at once; how grace is counted is in `MovieLibrary`.

### TorrentArchive and RecoveryExport

`row[t]` is committed, `file[t]` is the mount and changes at once. A poll is one transaction
with a SAVEPOINT per torrent, and a step is what lies between two awaits: `PollLoad`, `PollLock`,
`PollCheck` (the association and the check of what is there), `PollExport` (the payload is
written and the manifest read) and `PollStore` (the manifest is written, from what was *read*);
`writes` is what the transaction would commit. A retry does the same as `RetryLoad`, `RetryExport`,
`RetryQuery`, `RetryStore`, `RetryCommit` and holds no lock: only a new `archive_path` is flushed,
and locks the row, before the associations are read (`NewPath`), and the commit waits for the row.
The ORM writes a column only when it differs from what was loaded, which is what `loaded` and
`Same` are for. A restore checks (`RestorePrepare`) and hands over (`RestoreRun`) in two steps.
Observers: `spoiled` (files a hand touched), `recorded` (media types a manifest has named),
`erased` (manifests overwritten by one who had read them before they named a media type), and
`knew` (what the manifest had named when a restore checked it).

Abstractions: torrents that qBittorrent is checking are left out; loading a row and choosing the
client of a retry are one step, and so are the queries of the associations.

An export is a sequence of commits and of directories made, with the handler
(`failing`), the `finally` (`clean`), the commit whose answer is lost (`FinishUnheard`,
`FailsUnheard`) and the restart. `Ask` cleans up expired directories and only
then looks for an export under way. A database is reduced to what it calls archived.

### ReleaseScores and InteractiveSearch

A format is a set of cards (group, what it matches, required, negated, offset); a
profile gives formats scores and allows qualities; a title may be assigned a profile and
override scores. Each endpoint that edits one of them is an action that also refreshes
what the code refreshes. `reading` is what a scan or poll evaluated and has not
committed yet; `Arrives` is a poll that adds the release of a movie without a score (`Unscored`),
where that of a show is evaluated. `Restart` includes the re-sync of the built-in formats
(`Resync`): the program may come back as another version, so `Shipped` is any set of definitions
for them, with some withdrawn, that keeps what the operator enabled. `suspect` names the releases
the code itself may leave behind (see section 5).

A search freezes profile and formats (`policy`), asks its indexers one by one and stores
what each offers; a download is `ready` (the row is locked), `submitted` (the torrent
is out), `done` (committed or lost). A movie is added to the library after the
submission, a show before it, in the same transaction. `sent` and `lost` count
submissions and lost selections.

Left out: categories, client options, results without a link, the quality
order and floor (a warning), media scopes, revision checks (409), bulk reparse, and the default
profile that a start makes anew when it is gone and that no title is assigned. Two overlapping edits of
settings are not modelled. A cancel during the set-up of a search is in `JobLifecycle`.

## 3. Runs

| run | instance | shows |
|---|---|---|
| `job_kinds` | a scan, a search, an uncancellable resolution, one cancel, one restart, two items | no orphaned uncancellable row, at most one item of overrun, `JobLifecycle` implements `JobBoard`; a cancel stops even a worker that hangs; uncancellable Jobs end if items do not hang |
| `problem_indexed` | two observers, two administrators, no advisory lock | stale Problems clear and a standing condition ends up shown or dismissed, with the unique index alone |
| `scan_recheck` | one root, a click, a reconciliation run, a recheck, one cancel, one restart | no live row without somebody to work on it, but for the named exceptions; what a COMPLETED recheck may claim; rechecks end |
| `library_torrents` | two directories of one edition, two torrents, grace 2 | absence takes exactly the grace; releases, directories, links and the duplicate Problem agree; no ghosts |
| `library_settles` | the same, one directory too poor to be inspected | complete downloads end attached or under review |
| `duplicate_serial` | two copies in three directories, two torrents, two resolutions one after the other, one fault, one change by hand | a copy stays; removed is gone; only reviewed files go, and none while its torrent stays; scanning again ends in the truth |
| `duplicate_crossed` | the same, the two may overlap | **violation**: two crossed resolutions delete every copy |
| `show_pack` | a season pack, a second copy of an episode, three changes | present episodes have files; duplicate Problems have two; a removed release holds no media; hand mappings stand; standing copies are reported |
| `show_names` | a double episode, a bare name, an unreadable file, a torrent that contradicts its file, an unidentified folder, two orderings | types; one row per number; a file that stays is mapped or reported |
| `show_parked` | the same | **violation**: a refresh parks a row on one that was left parked |
| `recovery_bundle` | one torrent, a movie client and a show client, one export, two failures or changes | archived torrents are backed; restores keep the media type their check knew; archiving and manifests settle; what a bundle restores; nothing left behind; exports end (805 813 states) |
| `search_download` | two searches, two downloads, a movie with two releases and a show with one, a built-in format and one of the user's, three edits, restarts or failures | one policy per search; submissions accounted for; acquired titles have their torrent; scores follow the settings, but for five named exceptions (1 618 280 states) |

Bounds. `MaxItems = 2` has a first item, a last item and a state in between;
the worker's decisions depend on nothing else. One restart suffices because it
ends every worker and request, and rows that were never submitted start afresh after
it. `MaxRow` is one more than the rows the bounded observers and
administrators can create. `MaxFlips = 2` lets the condition begin, end and begin
again. `MaxRelease = |Path| + |Torrent|` is enough: a release is created only for a
path without one or a torrent without a link. `MaxChanges` counts changes of the
world and interruptions together; with 5 a directory can appear, vanish past its
grace, come back beside its replacement, while a download completes and is removed.
Grace is 2, the smallest value for which the threshold is not the special first
miss. In `scan_recheck` each asker can create a scan
(`MaxJob = 4`: three scans and a Plex Job, or two of each), which has a recheck follow its own scan or
somebody else's, with or without a Plex Job after it; one root
suffices because askers and locks of different roots meet only in the sets of one
request, where the proofs cover any number. In `duplicate_serial` the winner has
one directory and the loser two, so that a deletion can fail half way, and both torrents
belong to one release; the second Job meets what the first left. In `show_pack`
three changes let a copy come, go and come back during a download; `show_names` has two, one of
which may be a failed season and one a change of ordering, and two rows to swap. In
`recovery_bundle` one torrent suffices for the payload and its state, as torrents
meet only in the lists of one poll, which the proofs cover; two failures let a write fail
and its repair fail. `search_download` has an indexer with releases of both titles,
so that a search may overlap a download of the other, and three changes: an edit, a
lost answer and a second search; the built-in format may be changed or withdrawn by each start.
`UnfinishedExportEnds` says `<>[]` rather than `~>`: exports are asked for finitely often, so it is
the same, and from some time on no export is unfinished unless its set-up was lost. No symmetry is used.

`CHECK_DEADLOCK FALSE` is set for the runs whose Jobs, requests or searches are finite
sets that are used up. `problem_`, `library_` and `show_` runs never stop.

Fairness. The event loop keeps scheduling coroutines that are ready, so worker
steps and the halves of a cancel request are weakly fair; a remote call may hang
for ever, so finishing an item is not, and `UncancellableJobEnds` assumes
explicitly that items end. Observers of a Problem are weakly fair because the poll loop
observes again every second and the database answers; administrators, the
world and failures owe nothing. In `MovieLibrary` and `ShowLibrary` only the poll is fair
(`main.py:34-55`): scans run when somebody asks. In `ScanRequests` the askers and the
tasks are weakly fair: a scan or a Plex check that hangs is the subject of
`JobLifecycle`, and a scan works through a finite list of directories. The
lock is served first come, first served by the code; in the model scans are finitely
many, so a task that waits for it finds it free for good in the end. In
`DuplicateResolution` the worker is fair, and `QueueTellsTheTruth` is about a library that is
scanned again and again: the fairness of `Scan` is that premise, not something
the code does by itself. In `RecoveryExport` the task and the poll loop are weakly
fair; taking a row lock is strongly fair, because PostgreSQL queues the waiters and the other
holders commit.

Every property of every passing run has a mutant in `PROJECT.json`: a
plausible slip in one definition under which TLC finds that property violated.

## 4. Proofs

TLAPS proves, for every value of the constants that satisfies the named
assumptions:

* `JobLifecycleProofs!Invariance`: `IndInv = TypeOK /\ RowFitsPhase /\
  RequestFitsRow /\ OverrunIsLast`. The properties alone are not inductive:
  that a worker finishes at most one item on a cancelled row needs that the row of a
  worker in mid-item is RUNNING or was cancelled during that very item
  (`OverrunIsLast`), which needs what every phase knows of its row (`RowFitsPhase`:
  only a cancel can have changed it), which needs that no request in flight
  can write CANCELLED over a row it must not (`RequestFitsRow`). One step per action.
  `TypeCorrect`, `OverrunBound`, `NoOrphan` follow from it.
* `JobLifecycleProofs!Refinement`: every step of `JobLifecycle` is a step of `JobBoard` or a
  stutter under `status <- row, working <- {j : the worker of j is active}`.
* `ProblemQueueProofs`: `TypeCorrect`; `LockKeepsOne` (assumes `Advisory`, no index and no
  administrators): an observer that has read "nothing is open" holds the only lock, and
  nothing was opened since. So observers keep one OPEN row even where the unique index is
  missing; with the index it is the database that says so, and there is nothing to prove.
* `MovieLibraryProofs!Invariance`: `IndInv` joins what every service function keeps of
  a catalogue (`Sound`) to what it owes the duplicate label (`Rivalry`). The properties
  are not inductive: that the release a finished download is given to has no other
  directory needs that all links of a release lead to one place, its own
  (`OnePlace`), which needs that a new release has no links (`Unborn`) and a release
  one directory (`OneDirectory`). One effect lemma and one preservation lemma per service
  function, composed as the code calls them (`RefreshSound`, `AttachSound`,
  `DecideSound`, `ReconcileSound`, `FinalizeSound`); between the demotion of the
  replaced release and the trailing refresh `Rivalry` is broken, and
  `RefreshRivalry` shows that the refresh restores it from any catalogue. `StatesFit`,
  `DuplicatesPaired`, `GhostFree`; `AbsenceIsPatient` assumes `Grace > 1`, because the
  code does not compare the first miss with the threshold (section 5).
* `ScanRequestsProofs!Invariance`: `IndInv` adds to the properties what a row
  says of its task (`RowFitsTask`), that each Job is launched once
  (`LaunchedOnce`), and what a recheck knows so far (`SettledSoFar`,
  `ExaminedSoFar`). One lemma per action gives its effect on the askers, one that it
  keeps the invariant. `Attendance` and `Honest` are the safety properties
  of `scan_recheck`, for any number of roots, requests and restarts.
* `DuplicateResolutionProofs!Invariance`: what a Job in each phase knows of its choice, of
  the directories it still has to delete and of the torrents it removed. `CopyKept` and
  `ReviewedOnly` assume `OneAtATime`, the premise `duplicate_crossed` shows to be needed;
  `RemovedReleasesAreGone` and `FailedRemovalSpares` hold without it.
* `RecoveryExportProofs!ArchiveInvariant`: an uncommitted "archived" of a poll already has its
  files on the mount (`WritesAreBacked`), because files are written before rows and
  never withdrawn; `ArchivedStaysBacked` follows. Its other part says that a manifest names a media
  type that was recorded, unless it was touched by hand or overwritten by one who had read it earlier;
  `RestoresKeepScope` follows, for the composed system: whatever a poll or a retry writes between a
  restore's check and its hand-over, the client is of a media type the manifest had named at the check.
* `RecoveryExportProofs!ExportInvariant` adds what each step of an export has in its
  hands (`Tidy`) and how its list of files relates to its backup (`Covers`); it
  uses of the archive only that its steps lose no whole payload. `BundlesRestore`,
  `NothingIsLeftBehind`, and `ArchivedStaysBackedBeside` for the composed system.
* `InteractiveSearchProofs!IInvHolds`: the shapes of rows and requests, that one request
  holds a row, and what it holds is still offered. `EverySubmissionAccounted`,
  `SelectedResultsStay` (`SelectedStays`: a selected result and its evidence are never rewritten),
  `OnePolicyHolds`, and `AcquiredTitlesHaveTorrents`.
* `InteractiveSearchProofs!TInvHolds` adds the settings and the scores. A score is a
  fold over the cards of the formats that fit, so its type needs an induction: the
  library's induction theorems cannot be instantiated here, but the well-founded
  minimum can (`NatLessThanWellFounded` with `WFMin`: a set of numbers has a least
  member), and the smallest set of cards for which a fold misses its type gives a
  contradiction. `TypeCorrect`, and `ScoresAreTruthful`: the invariant says of each
  stored score that its release is a suspect, has no settings, has no score yet, or has the
  score its settings give; each edit is shown to leave that alone for every release it does not
  refresh, because neither profile nor formats of that title changed for it, and the re-sync at a
  start for every release whose score it does not change (`ResyncKeeps`).
* `ShowLibraryProofs!IInvHolds`: the committed catalogue has its type and is `Sound`. Its
  parts are what the properties say (`Present`, `Copies`, `Apart`, `Gone`), but none
  is inductive inside a transaction: a pass first moves files and maps and refreshes
  rows and releases at its end. So `Sound(c, E, R)` excepts the rows `E` and the releases `R`
  that are owed a refresh; each service function is shown to add to them what it
  disturbs, `RefreshReleasesKeeps` and `RefreshRowsKeeps` to settle them, and every
  transaction to end with both empty. The pass over the files of a directory is a fold;
  `StepsExist`, `PassFilesSteps` and `PassFilesKeeps` do its induction as above, on
  the number of files. `Kept` says beside it that a function leaves alone what was mapped by hand.
  `PresentRowsHaveFiles`, `RowsStandApart`, `DuplicatesHaveCopies`,
  `RemovedReleasesAreNowhere`, `ManualMappingsStand`, for any files, names,
  orderings, torrents, releases and bounds.

  The proof corrected one property. `RemovedIsNowhere` used to say that no torrent at all is
  attached to a release that was given up; one torrent, which is what `show_pack` has, cannot tell.
  With three torrents of one folder TLC had a counterexample (section 5), so it now says what is
  true of any number: the release holds no media, and a torrent that gave it up is not attached.

The assumptions are the `ASSUME`s of the modules. TLC evaluates them in every run.
Those the proofs added say what the code or its database ensures: in `ShowLibrary`,
files and titles are finitely many, and an ordering tells no two titles at
one number (`NumberAssumption`: a refresh that did would break
`uq_episodes_show_season_number` and be rolled back, and the comment at
`tmdb.py:509` relies on it); in `ReleaseScores`, formats are finitely many, offsets of cards are integers,
and `SInit` starts with profiles that fit the formats there are, as the checks of the API make them.

That the root lock keeps scans of one root apart is the meaning of the lock in `ScanRequests` (`LockFree`),
as the unique index is in `ProblemQueue` (`Insert` and `Restore` ask it): neither is checked or proved.

Only model-checked: all liveness (the prover has no rule for fairness). Every safety and
action property that a passing run checks is proved, the type invariants included.

## 5. Findings, and what the models show besides

Checked by a run:

1. `services/problem_resolution.py:790` (`duplicate_crossed`): the commit looks for its winner
   in a session that takes no lock. Two confirmed resolutions with opposite winners each
   see the other's loser on disk and delete every copy, against the comment at 787-788.
2. `services/tmdb.py:513` (`show_parked`): a row left parked by one refresh stands where
   the next parks its successor; that refresh and every later one fails, against the comment at 509-510.

Present in the models as steps, each seen in a trace, and not checked against a claim by a run:

* `services/search.py:107`: QUEUED is checked when the row is loaded, RUNNING is
  written by a transaction that commits much later; a cancel in between is overwritten, though the
  comment there says never to resurrect cancelled work (`JobLifecycle`: `Load`, `CancelWrite`, `Begin`).
* `services/reconciliation.py:166-191, 267`: an observer reads DISMISSED and
  OPEN rows in two statements and may insert beside a row dismissed in between; a
  resolve overwrites a dismissal with RESOLVED (`ProblemQueue`).
* `services/reconciliation.py:402`: the first miss is not compared with the threshold, so the
  setting "1 check" needs two (`MovieLibrary` with `Grace = 1`).
* `services/reconciliation.py:661`: a known directory returns before the engine
  compares editions, so a REPLACED directory that returns is silently beside
  its replacement (`MovieLibrary!Recognise`).
* `api/storage.py:169`: two requests that look for an active scan before either commits queue two
  scans of one root; the root lock then keeps them apart (`ScanRequests`).
* `services/search.py:563`: results of an indexer deleted during the search violate a foreign key
  and fail the whole search (`InteractiveSearch!Answer`).
* Creating or importing a format does not refresh scores, though an offset counts
  without a profile; a download's new override is not followed by a refresh; a registration
  that overlaps an edit stores a stale score; a start that changes or withdraws a built-in format
  refreshes no release (`main.py:72`, `bootstrap.py:151-172`); and the release of a movie that a poll finds
  downloading is stored without a score (`reconciliation.py:1213-1231`), where that of a show gets one (1135-1142).
  The first four make a release a `suspect`, the last leaves it `Unscored`; `ScoresTruthful` leaves out these five.
* `services/torrent_archive.py:292`: a retry reads the manifest, awaits the associations, and writes it at 388 without
  a lock. A poll that commits the first association in between has its manifest overwritten by one without a media
  type, though the docstring promises to build it "without erasing evidence already persisted on disk" (`erased`).
  The next poll names it again, which `ManifestSettles` checks.
* `services/torrent_archive.py:571`: a restore checks the media type, awaits paths and the login, and hands the torrent
  over at 637; a poll that names another media type in between is not seen, and the torrent goes to a client
  outside the scope then recorded. `RestoreKeepsScope` says what holds: the scope known at the check.
* A torrent is submitted before the commit: a lost commit or a conflict there leaves a torrent without a
  selection, and a retry submits it again (`lost` in `SubmissionsAccounted`).
* A release of a show whose one copy is missed is MISSING until the next pass of that folder although another
  copy is there (`shows.py:1143`); the link of a single-episode torrent whose file a
  scan maps first stays INCOMING (`shows.py:821`).
* `services/reconciliation.py:1734`: a cancelled download gives up its release when no file is mapped to it, without
  asking whether another torrent is attached. A season pack, a single episode in the same folder, which is
  attached to the pack's release, and a second pack get there: the next scan counts the episode's file for the second
  pack, the first pack downloads again and is cancelled, and its release is REMOVED while the
  episode's torrent is still attached to it (`ShowLibrary!Cancel`).

Noted while reading, outside the models: `run_problem_recheck` returns with its Job QUEUED if the
Problem was deleted; `job.revision` loses updates; a poll's completion time during a force
check marks a torrent as completed (`qbittorrent.py:452`); the per-client poll lock is
released before the commit (`qbittorrent.py:648, 680`); transactions that open several Problems take
advisory locks in different orders (`reconciliation.py:156`), which PostgreSQL resolves by aborting one;
a failed bootstrap skips the interruption of Jobs (`main.py:77-81`); the README's
"Remove From App Only" has no code.

## 6. Not modelled, and the plan

* `MovieLibrary`: relocation, leaving the root's scope, client health, Plex evidence, manual identity.
* `ShowLibrary`: several roots of a show, root outage.
* The limit of three present releases (`reconciliation/engine.py:142`) is in `Decide`; an
  instance that reaches it needs four editions.
* Live events: subscriber queues in memory that the interface treats as hints to read again.
* Bulk edits, tags, the integration file store: single transactions without a partner that races them.
* The text analysis of the parser (its verdict is data here), path mapping, authentication,
  schemas, the frontend and packaging have no shared state of their own.

--------------------------- MODULE TorrentArchive ---------------------------
(***************************************************************************)
(* The .torrent archive (services/torrent_archive.py): one payload file    *)
(* and one recovery manifest per info hash, kept for ever, written by      *)
(* every poll of a download client and by the retry Job, read by the       *)
(* restore Job.  The files change at once; what the database says of them  *)
(* changes when the transaction that wrote them commits.                   *)
(*                                                                         *)
(* A poll is one transaction over the torrents its client listed, each in  *)
(* a SAVEPOINT of its own: it loads the row, flushes the observation (and  *)
(* so takes the row lock), associates the torrent, and archives it.  A     *)
(* retry loads the row and archives the torrent without a lock; only a new *)
(* archive_path is flushed, and locks the row, before the associations are *)
(* read.  The ORM writes a column only when it differs from what was       *)
(* loaded.                                                                 *)
(*                                                                         *)
(* Archiving checks the payload, awaits the export, writes the payload and *)
(* reads the manifest; awaits the associations; and writes the manifest.   *)
(* At each of these awaits another poll, retry or restore may run.         *)
(*                                                                         *)
(* Names, sizes, digests, tracker data and timestamps are left out; of a   *)
(* manifest the media type is kept, of a show's or movie's association its *)
(* media type, of a path nothing (it is inside an enabled root).  Whether  *)
(* a torrent completes, and what that does to the catalogue, is in         *)
(* MovieLibrary and ShowLibrary.                                           *)
(***************************************************************************)
EXTENDS Naturals, FiniteSets

CONSTANTS
  Torrents,     \* info hashes
  Clients,      \* configured download clients
  ScopeOf,      \* their media scope, as a function on Clients
  NoTorrent,    \* what a poll between two torrents holds
  MaxChanges    \* bound: changes of the world and failures, together

Scopes == {"movies", "shows"}
States == {"not_archived", "archived", "failed"}
Gives  == {"whole", "broken", "down"}

ASSUME ArchiveAssumption ==
  /\ ScopeOf \in [Clients -> Scopes]
  /\ Clients # {} /\ NoTorrent \notin Torrents
  /\ MaxChanges \in Nat

VARIABLES
  row,       \* committed: state, media types of the releases linked, clients it is present in
  file,      \* on the archive mount: payload, whether the manifest is there, the media it names
  qbit,      \* the torrents each client really has
  client,    \* each client: enabled, and what it gives when asked for a .torrent
  writable,  \* the archive mount takes writes
  poll,      \* the poll of each client
  retry,     \* the retry Job of each torrent
  restore,   \* the restore Job of each torrent
  changes,   \* changes of the world and failures so far
  spoiled,   \* history: torrents whose files were touched by hand
  recorded,  \* history: the media each torrent's manifest has named
  erased     \* history: torrents whose manifest was overwritten by one who had read it before it named any

avars == <<row, file, qbit, client, writable, poll, retry, restore, changes, spoiled, recorded, erased>>

None   == "none"
Same   == "same"
Row    == [state : States, path : BOOLEAN, links : SUBSET Scopes, seen : SUBSET Clients]
File   == [payload : {None, "whole", "broken"}, manifest : BOOLEAN, media : Scopes \cup {None}]
Write  == [made : BOOLEAN, state : States \cup {Same}, path : BOOLEAN, link : SUBSET Scopes]
Poll   == [at : {"idle", "listed", "loaded", "locked", "exporting", "writing"}, todo : SUBSET Torrents,
           listed : SUBSET Torrents, cur : Torrents \cup {NoTorrent}, loaded : States,
           link : SUBSET Scopes, done : BOOLEAN, stored : BOOLEAN, read : Scopes \cup {None},
           writes : [Torrents -> Write]]
Retry  == [at : {"idle", "queued", "exporting", "querying", "writing", "committing"}, client : Clients,
           loaded : States, path : BOOLEAN, stored : BOOLEAN, read : Scopes \cup {None},
           links : SUBSET Scopes, state : States]
Restore == [at : {"idle", "queued", "prepared"}, client : Clients, knew : SUBSET Scopes]

NoWrite == [made |-> FALSE, state |-> Same, path |-> FALSE, link |-> {}]
Idle    == [at |-> "idle", todo |-> {}, listed |-> {}, cur |-> NoTorrent, loaded |-> "not_archived",
            link |-> {}, done |-> FALSE, stored |-> FALSE, read |-> None,
            writes |-> [t \in Torrents |-> NoWrite]]

Nobody    == CHOOSE c \in Clients : TRUE
NoRetry   == [at |-> "idle", client |-> Nobody, loaded |-> "not_archived", path |-> FALSE,
              stored |-> FALSE, read |-> None, links |-> {}, state |-> "not_archived"]
NoRestore == [at |-> "idle", client |-> Nobody, knew |-> {}]

AInit ==
  /\ row = [t \in Torrents |-> [state |-> "not_archived", path |-> FALSE, links |-> {}, seen |-> {}]]
  /\ file = [t \in Torrents |-> [payload |-> None, manifest |-> FALSE, media |-> None]]
  /\ qbit \in [Clients -> SUBSET Torrents]
  /\ client = [c \in Clients |-> [enabled |-> TRUE, gives |-> "whole"]]
  /\ writable = TRUE
  /\ poll = [c \in Clients |-> Idle]
  /\ retry = [t \in Torrents |-> NoRetry]
  /\ restore = [t \in Torrents |-> NoRestore]
  /\ changes = 0 /\ spoiled = {} /\ recorded = [t \in Torrents |-> {}] /\ erased = {}

-----------------------------------------------------------------------------
(* The archive of one torrent                                              *)

CompleteByState(state, f) == state = "archived"

\* torrent_archive_complete: the state and both files, by their size alone.
Complete(state, f) == state = "archived" /\ f.payload # None /\ f.manifest

\* The first association is the primary one: those of movies come before those of shows.
Primary(links) == IF "movies" \in links THEN "movies" ELSE "shows"

MediaOfDatabase(read, links) == IF links = {} THEN None ELSE Primary(links)

MediaAsRead(read, links) == IF read = None /\ links # {} THEN Primary(links) ELSE read

\* build_recovery_manifest: what the database no longer knows stays as the manifest it read had it.
Media(read, links) == IF links = {} THEN read ELSE Primary(links)

\* write_recovery_manifest, of what was read and what the database said since
Manifest(f, read, links) ==
  IF writable THEN [f EXCEPT !.manifest = TRUE, !.media = Media(read, links)] ELSE f

ValidWhenSomething(payload) == payload \in {"whole", "broken"}

\* _valid_torrent_payload, on what is on disk and on what the client exports.
Valid(payload) == payload = "whole"

Exported(c, t) == IF t \in qbit[c] THEN client[c].gives ELSE "down"

\* An export is checked and then written.
Storable(c, t) == Valid(Exported(c, t)) /\ writable

Payload(f, c, t) == IF Storable(c, t) THEN [f EXCEPT !.payload = Exported(c, t)] ELSE f

\* The state that ensure_torrent_archived gives the row when it has written the manifest.
NewState(f, stored) == IF stored /\ writable /\ f.payload # None THEN "archived" ELSE "failed"

\* A column is written only when it differs from the loaded value.
Column(loaded, new) == IF loaded = new THEN Same ELSE new
Stands(state, written) == IF written = Same THEN state ELSE written

\* The manifest of t is written by one who had read this media type.
WriteManifest(t, read, links) ==
  /\ file' = [file EXCEPT ![t] = Manifest(file[t], read, links)]
  /\ recorded' = [recorded EXCEPT ![t] = recorded[t] \cup ({file'[t].media} \ {None})]
  /\ erased' = IF file[t].media # None /\ file'[t].media = None /\ read = None THEN erased \cup {t} ELSE erased

\* Row locks: an open transaction has flushed a write of the row, a poll its observation,
\* a retry a new path.
Locked(t) ==
  \E c \in Clients : poll[c].writes[t].made
                    \/ (poll[c].at \in {"locked", "exporting", "writing"} /\ poll[c].cur = t)

NewPath(t)   == retry[t].stored /\ ~retry[t].path
Retrying(t)  == retry[t].at \in {"writing", "committing"} /\ NewPath(t)

Budget == changes < MaxChanges
Fault  == Budget /\ changes' = changes + 1

-----------------------------------------------------------------------------
(* The poll of one client                                                  *)

PollList(c) ==
  /\ poll[c].at = "idle" /\ client[c].enabled /\ client[c].gives # "down"
  /\ poll' = [poll EXCEPT ![c] = [Idle EXCEPT !.at = "listed", !.todo = qbit[c], !.listed = qbit[c]]]
  /\ UNCHANGED <<row, file, qbit, client, writable, retry, restore, changes, spoiled, recorded, erased>>

PollLoad(c, t) ==
  /\ poll[c].at = "listed" /\ t \in poll[c].todo
  /\ poll' = [poll EXCEPT ![c] = [poll[c] EXCEPT !.at = "loaded", !.todo = poll[c].todo \ {t},
                                              !.cur = t, !.loaded = row[t].state]]
  /\ UNCHANGED <<row, file, qbit, client, writable, retry, restore, changes, spoiled, recorded, erased>>

PollLock(c) ==
  /\ poll[c].at = "loaded" /\ ~Locked(poll[c].cur) /\ ~Retrying(poll[c].cur)
  /\ poll' = [poll EXCEPT ![c].at = "locked"]
  /\ UNCHANGED <<row, file, qbit, client, writable, retry, restore, changes, spoiled, recorded, erased>>

\* The association (known makes it), then the check of what is there; a valid payload is kept, and
\* nothing is awaited before the manifest is read.
PollCheck(c, known) ==
  LET p == poll[c]
      t == p.cur
      done == Complete(p.loaded, file[t])
      has == done \/ Valid(file[t].payload)
  IN /\ p.at = "locked"
     /\ poll' = [poll EXCEPT ![c] = [p EXCEPT !.at = IF has THEN "writing" ELSE "exporting",
                                              !.link = (IF known THEN {ScopeOf[c]} ELSE {}) \ row[t].links,
                                              !.done = done, !.stored = has,
                                              !.read = IF has THEN file[t].media ELSE None]]
     /\ UNCHANGED <<row, file, qbit, client, writable, retry, restore, changes, spoiled, recorded, erased>>

PollExport(c) ==
  LET t == poll[c].cur IN
  /\ poll[c].at = "exporting"
  /\ file' = [file EXCEPT ![t] = Payload(file[t], c, t)]
  /\ poll' = [poll EXCEPT ![c] = [poll[c] EXCEPT !.at = "writing", !.stored = Storable(c, t),
                                              !.read = file[t].media]]
  /\ UNCHANGED <<row, qbit, client, writable, retry, restore, changes, spoiled, recorded, erased>>

\* The rest of the SAVEPOINT: the manifest and the state; then the disagreements, where an exception
\* takes the SAVEPOINT, and with it the lock, back.
PollStore(c, kept) ==
  LET p == poll[c]
      t == p.cur
      state == IF p.done THEN p.loaded ELSE NewState(file[t], p.stored)
      write == [made |-> TRUE, state |-> Column(p.loaded, state), path |-> p.stored, link |-> p.link]
  IN /\ p.at = "writing"
     /\ WriteManifest(t, p.read, row[t].links \cup p.link)
     /\ poll' = [poll EXCEPT ![c] = [Idle EXCEPT !.at = "listed", !.todo = p.todo, !.listed = p.listed,
                                              !.writes = [p.writes EXCEPT ![t] = IF kept THEN write ELSE NoWrite]]]
     /\ IF kept THEN UNCHANGED changes ELSE Fault
     /\ UNCHANGED <<row, qbit, client, writable, retry, restore, spoiled>>

\* Torrents the client no longer lists are marked absent; then everything is committed.
Polled(c, t) ==
  LET w == poll[c].writes[t] IN
  [state |-> Stands(row[t].state, w.state), path |-> row[t].path \/ w.path, links |-> row[t].links \cup w.link,
   seen |-> IF w.made THEN row[t].seen \cup {c}
            ELSE IF t \in poll[c].listed THEN row[t].seen ELSE row[t].seen \ {c}]

PollCommit(c) ==
  /\ poll[c].at = "listed" /\ poll[c].todo = {}
  /\ row' = [t \in Torrents |-> Polled(c, t)]
  /\ poll' = [poll EXCEPT ![c] = Idle]
  /\ UNCHANGED <<file, qbit, client, writable, retry, restore, changes, spoiled, recorded, erased>>

PollFails(c) ==
  /\ poll[c].at # "idle" /\ Fault
  /\ poll' = [poll EXCEPT ![c] = Idle]
  /\ UNCHANGED <<row, file, qbit, client, writable, retry, restore, spoiled, recorded, erased>>

-----------------------------------------------------------------------------
(* The retry Job of one torrent                                            *)

\* select_archive_client: an enabled client that the last poll saw the torrent in.
LiveIn(t) == {c \in row[t].seen : client[c].enabled}

RetryAsk(t) ==
  /\ retry[t].at = "idle" /\ LiveIn(t) # {} /\ Fault
  /\ retry' = [retry EXCEPT ![t].at = "queued"]
  /\ UNCHANGED <<row, file, qbit, client, writable, poll, restore, spoiled, recorded, erased>>

\* The payload is checked as soon as the client is chosen; a valid one is kept.
RetryWith(t, c) ==
  LET has == Valid(file[t].payload) IN
  [NoRetry EXCEPT !.at = IF has THEN "querying" ELSE "exporting", !.client = IF has THEN Nobody ELSE c,
                  !.loaded = row[t].state, !.path = row[t].path,
                  !.stored = has, !.read = IF has THEN file[t].media ELSE None]

RetryLoad(t) ==
  /\ retry[t].at = "queued"
  /\ IF LiveIn(t) = {} THEN retry' = [retry EXCEPT ![t] = NoRetry]
     ELSE \E c \in LiveIn(t) : retry' = [retry EXCEPT ![t] = RetryWith(t, c)]
  /\ UNCHANGED <<row, file, qbit, client, writable, poll, restore, changes, spoiled, recorded, erased>>

RetryExport(t) ==
  LET c == retry[t].client IN
  /\ retry[t].at = "exporting"
  /\ file' = [file EXCEPT ![t] = Payload(file[t], c, t)]
  /\ retry' = [retry EXCEPT ![t] = [retry[t] EXCEPT !.at = "querying", !.client = Nobody,
                                                !.stored = Storable(c, t), !.read = file[t].media]]
  /\ UNCHANGED <<row, qbit, client, writable, poll, restore, changes, spoiled, recorded, erased>>

\* The query of the associations flushes a new path first, which waits for the row and locks it;
\* without one the row is not locked.
RetryQuery(t) ==
  /\ retry[t].at = "querying" /\ (NewPath(t) => ~Locked(t))
  /\ retry' = [retry EXCEPT ![t] = [retry[t] EXCEPT !.at = "writing", !.links = row[t].links]]
  /\ UNCHANGED <<row, file, qbit, client, writable, poll, restore, changes, spoiled, recorded, erased>>

RetryStore(t) ==
  LET r == retry[t] IN
  /\ r.at = "writing"
  /\ WriteManifest(t, r.read, r.links)
  /\ retry' = [retry EXCEPT ![t] = [r EXCEPT !.at = "committing", !.read = None, !.links = {},
                                          !.state = NewState(file[t], r.stored)]]
  /\ UNCHANGED <<row, qbit, client, writable, poll, restore, changes, spoiled>>

\* The time of the attempt is written in any case, so the row is waited for.
RetryCommit(t) ==
  LET r == retry[t] IN
  /\ r.at = "committing" /\ ~Locked(t)
  /\ row' = [row EXCEPT ![t].state = Stands(row[t].state, Column(r.loaded, r.state)),
                         ![t].path = row[t].path \/ r.stored]
  /\ retry' = [retry EXCEPT ![t] = NoRetry]
  /\ UNCHANGED <<file, qbit, client, writable, poll, restore, changes, spoiled, recorded, erased>>

RetryFails(t) ==
  /\ retry[t].at # "idle" /\ Fault
  /\ retry' = [retry EXCEPT ![t] = NoRetry]
  /\ UNCHANGED <<row, file, qbit, client, writable, poll, restore, spoiled, recorded, erased>>

-----------------------------------------------------------------------------
(* The restore Job of one torrent                                          *)

\* prepare_torrent_restore: an unknown media type is taken to be the client's.
Restorable(t, c) ==
  /\ row[t].state = "archived" /\ file[t].payload # None
  /\ client[c].enabled
  /\ file[t].media \in {None, ScopeOf[c]}

RestoreAsk(t, c) ==
  /\ restore[t].at = "idle" /\ Restorable(t, c) /\ Fault
  /\ restore' = [restore EXCEPT ![t] = [NoRestore EXCEPT !.at = "queued", !.client = c]]
  /\ UNCHANGED <<row, file, qbit, client, writable, poll, retry, spoiled, recorded, erased>>

\* The Job checks again, and then awaits mappings, roots and the login; a path outside the roots is
\* refused.  What the manifest had named by now is kept for RestoreKeepsScope.
RestorePrepare(t, passes) ==
  LET c == restore[t].client IN
  /\ restore[t].at = "queued"
  /\ passes => Restorable(t, c)
  /\ restore' = [restore EXCEPT ![t] =
                   IF passes THEN [at |-> "prepared", client |-> c,
                                   knew |-> IF t \in spoiled \cup erased THEN {} ELSE recorded[t]]
                   ELSE NoRestore]
  /\ UNCHANGED <<row, file, qbit, client, writable, poll, retry, changes, spoiled, recorded, erased>>

\* The payload is read now.  qBittorrent takes it, or not, or takes it and its answer is lost.
RestoreRun(t, taken) ==
  LET c == restore[t].client IN
  /\ restore[t].at = "prepared"
  /\ taken => client[c].gives # "down" /\ file[t].payload = "whole"
  /\ qbit' = IF taken THEN [qbit EXCEPT ![c] = @ \cup {t}] ELSE qbit
  /\ restore' = [restore EXCEPT ![t] = NoRestore]
  /\ UNCHANGED <<row, file, client, writable, poll, retry, changes, spoiled, recorded, erased>>

-----------------------------------------------------------------------------
(* The world                                                               *)

\* The title's row goes, and by the cascade its releases and links: no request does that yet, a hand
\* on the database may, and build_recovery_manifest is written for it.
RemoveTitle(t, scope) ==
  /\ scope \in row[t].links /\ ~Locked(t) /\ Fault
  /\ row' = [row EXCEPT ![t].links = @ \ {scope}]
  /\ UNCHANGED <<file, qbit, client, writable, poll, retry, restore, spoiled, recorded, erased>>

ClientChanges(c) ==
  /\ Fault
  /\ \/ \E ts \in SUBSET Torrents \ {qbit[c]} : qbit' = [qbit EXCEPT ![c] = ts] /\ UNCHANGED client
     \/ \E g \in Gives \ {client[c].gives} : client' = [client EXCEPT ![c].gives = g] /\ UNCHANGED qbit
     \/ client' = [client EXCEPT ![c].enabled = ~@] /\ UNCHANGED qbit
  /\ UNCHANGED <<row, file, writable, poll, retry, restore, spoiled, recorded, erased>>

MountChanges ==
  /\ Fault /\ writable' = ~writable
  /\ UNCHANGED <<row, file, qbit, client, poll, retry, restore, spoiled, recorded, erased>>

\* A hand or a failing disk: files vanish, or the payload is damaged.
Spoil(t) ==
  /\ Fault /\ spoiled' = spoiled \cup {t}
  /\ \/ file' = [file EXCEPT ![t] = [payload |-> None, manifest |-> FALSE, media |-> None]]
     \/ file[t].payload = "whole" /\ file' = [file EXCEPT ![t].payload = "broken"]
  /\ UNCHANGED <<row, qbit, client, writable, poll, retry, restore, recorded, erased>>

\* A restart: open transactions are rolled back, Jobs are gone.
Restart ==
  /\ Fault
  /\ poll' = [c \in Clients |-> Idle]
  /\ retry' = [t \in Torrents |-> NoRetry]
  /\ restore' = [t \in Torrents |-> NoRestore]
  /\ UNCHANGED <<row, file, qbit, client, writable, spoiled, recorded, erased>>

PollStep(c) ==
  \/ PollList(c) \/ PollLock(c) \/ PollExport(c) \/ PollStore(c, TRUE) \/ PollCommit(c)
  \/ \E t \in Torrents : PollLoad(c, t)
  \/ \E known \in BOOLEAN : PollCheck(c, known)

RetryStep(t) ==
  RetryLoad(t) \/ RetryExport(t) \/ RetryQuery(t) \/ RetryStore(t) \/ RetryCommit(t)

World ==
  \/ \E t \in Torrents, s \in Scopes : RemoveTitle(t, s)
  \/ \E c \in Clients : ClientChanges(c)
  \/ MountChanges
  \/ \E t \in Torrents : Spoil(t)

ANext ==
  \/ \E c \in Clients : PollStep(c) \/ PollFails(c) \/ PollStore(c, FALSE)
  \/ \E t \in Torrents : \/ RetryAsk(t) \/ RetryStep(t) \/ RetryFails(t)
                         \/ \E c \in Clients : RestoreAsk(t, c)
                         \/ \E passes \in BOOLEAN : RestorePrepare(t, passes)
                         \/ \E taken \in BOOLEAN : RestoreRun(t, taken)
  \/ World

\* The poll loop comes round for ever (main.py), a retry goes on by itself, and PostgreSQL serves those
\* who wait for a row in the order they came.
AFair ==
  /\ \A c \in Clients : WF_avars(PollStep(c)) /\ SF_avars(PollLock(c))
  /\ \A t \in Torrents : WF_avars(RetryStep(t))

-----------------------------------------------------------------------------
(* Properties                                                              *)

ATypeOK ==
  /\ row \in [Torrents -> Row] /\ file \in [Torrents -> File]
  /\ qbit \in [Clients -> SUBSET Torrents]
  /\ client \in [Clients -> [enabled : BOOLEAN, gives : Gives]]
  /\ writable \in BOOLEAN
  /\ poll \in [Clients -> Poll] /\ retry \in [Torrents -> Retry] /\ restore \in [Torrents -> Restore]
  /\ changes \in 0 .. MaxChanges
  /\ spoiled \subseteq Torrents /\ erased \subseteq Torrents /\ recorded \in [Torrents -> SUBSET Scopes]

\* A torrent the database calls archived can be put back: its payload is one qBittorrent takes
\* and its manifest is there, whatever polls and retries interleaved, whichever of them was rolled
\* back, and whether or not the mount took writes; only a hand on the files breaks that.
ArchivedIsBacked ==
  \A t \in Torrents : row[t].state = "archived" /\ t \notin spoiled =>
    file[t].payload = "whole" /\ file[t].manifest

\* A restore hands a torrent to no client of another media type than its manifest had named by the time
\* it checked, even after the title, and with it the database's association, was removed.  Two things
\* escape it: a media type that is named after the check, and a manifest that was overwritten by a poll
\* or retry which had read it before it named any.
RestoreKeepsScope ==
  [][\A t \in Torrents, c \in Clients :
       restore[t].at = "prepared" /\ restore'[t].at = "idle" /\ restore[t].client = c
         /\ t \in qbit'[c] \ qbit[c] /\ restore[t].knew # {}
       => ScopeOf[c] \in restore[t].knew]_avars

\* When the world stays as it is, a torrent that an enabled client lists and exports, on a mount that
\* takes writes, is archived and stays so.
Obtainable(t) ==
  writable /\ \E c \in Clients : t \in qbit[c] /\ client[c].enabled /\ client[c].gives = "whole"

ArchiveSettles ==
  <>[](\A t \in Torrents : Obtainable(t) =>
         row[t].state = "archived" /\ file[t].payload # None /\ file[t].manifest)

\* When the world stays as it is, the manifest of a torrent that an enabled client lists comes to name
\* what the database's associations say: the next poll heals what an overlapping retry overwrote.
Listed(t) == writable /\ \E c \in Clients : t \in qbit[c] /\ client[c].enabled /\ client[c].gives # "down"

ManifestSettles ==
  <>[](\A t \in Torrents : Listed(t) /\ row[t].links # {} => file[t].media = Primary(row[t].links))

ASpec == AInit /\ [][ANext]_avars /\ AFair

=============================================================================

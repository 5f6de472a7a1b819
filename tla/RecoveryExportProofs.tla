------------------------ MODULE RecoveryExportProofs ------------------------
(***************************************************************************)
(* The torrent archive, whatever polls, retries, restores, failures and    *)
(* hands on the files do, for any torrents, clients and number of changes: *)
(* what the database calls archived is on the mount, and a restore keeps to*)
(* the media types the manifest had named when it looked.  Then the        *)
(* exports beside it: a bundle covers what its database calls archived,    *)
(* holds that database unless its export outlived the retention, and no    *)
(* task leaves anything else behind.                                       *)
(***************************************************************************)
EXTENDS RecoveryExport, TLAPS

-----------------------------------------------------------------------------
(* The torrent archive.  What rows, polls and retries rely on, in terms of *)
(* the files f and the torrents s that a hand has touched.                 *)

Whole(f, t)  == f[t].payload = "whole"
Backed(f, t) == f[t].payload = "whole" /\ f[t].manifest

RowHolds(state, t, f, s) == state = "archived" /\ t \notin s => Backed(f, t)

(* A poll that is about to commit "archived" has its files there already;  *)
(* one that found or exported a payload has that.                          *)
PollHolds(p, f, s) ==
  /\ \A t \in Torrents \ s : p.writes[t].state = "archived" => Backed(f, t)
  /\ p.at \notin {"idle", "listed"} => p.cur \in Torrents
  /\ p.at = "writing" /\ p.stored /\ ~p.done /\ p.cur \notin s => Whole(f, p.cur)

RetryHolds(r, t, f, s) ==
  t \notin s => /\ r.at \in {"querying", "writing", "committing"} /\ r.stored => Whole(f, t)
                /\ r.at = "committing" /\ r.state = "archived" => Backed(f, t)

(* A manifest that has named a media type names one that it has recorded,  *)
(* unless one who had read it before overwrote it.                         *)
MediaHolds(m, past, t, s, x) == past # {} /\ t \notin s \cup x => m \in past

(* A restore that looked goes to a client the manifest allowed.            *)
RestoreHolds(r) == r.at = "prepared" /\ r.knew # {} => ScopeOf[r.client] \in r.knew

AInv ==
  /\ ATypeOK
  /\ \A t \in Torrents : /\ RowHolds(row[t].state, t, file, spoiled)
                         /\ RetryHolds(retry[t], t, file, spoiled)
                         /\ MediaHolds(file[t].media, recorded[t], t, spoiled, erased)
                         /\ RestoreHolds(restore[t])
  /\ \A c \in Clients : PollHolds(poll[c], file, spoiled)

USE ArchiveAssumption

-----------------------------------------------------------------------------
(* Files that lose neither a whole payload nor a manifest, but by a hand.  *)
Keeps(f, s, g, z) ==
  /\ s \subseteq z
  /\ \A t \in Torrents \ z : (Whole(f, t) => Whole(g, t)) /\ (f[t].manifest => g[t].manifest)

LEMMA HoldsStill ==
  ASSUME NEW f, NEW s, NEW g, NEW z, Keeps(f, s, g, z)
  PROVE  /\ \A t \in Torrents, state \in States : RowHolds(state, t, f, s) => RowHolds(state, t, g, z)
         /\ \A p \in Poll : PollHolds(p, f, s) => PollHolds(p, g, z)
         /\ \A t \in Torrents, r \in Retry : RetryHolds(r, t, f, s) => RetryHolds(r, t, g, z)
<1>1. \A t \in Torrents \ z : t \notin s /\ (Whole(f, t) => Whole(g, t)) /\ (Backed(f, t) => Backed(g, t))
  BY DEF Keeps, Whole, Backed
<1>2. \A t \in Torrents, state \in States : RowHolds(state, t, f, s) => RowHolds(state, t, g, z)
  BY <1>1 DEF RowHolds
<1>3. \A p \in Poll : PollHolds(p, f, s) => PollHolds(p, g, z)
  BY <1>1 DEF PollHolds
<1>4. \A t \in Torrents, r \in Retry : RetryHolds(r, t, f, s) => RetryHolds(r, t, g, z)
  BY <1>1 DEF RetryHolds
<1> QED
  BY <1>2, <1>3, <1>4

(* A step keeps the invariant when what it changes holds again.            *)
LEMMA StepKeeps ==
  ASSUME AInv, ATypeOK', Keeps(file, spoiled, file', spoiled'),
         \A t \in Torrents :
           /\ row'[t].state = row[t].state \/ RowHolds(row'[t].state, t, file', spoiled')
           /\ retry'[t] = retry[t] \/ RetryHolds(retry'[t], t, file', spoiled')
           /\ MediaHolds(file'[t].media, recorded'[t], t, spoiled', erased')
           /\ restore'[t] = restore[t] \/ RestoreHolds(restore'[t]),
         \A c \in Clients : poll'[c] = poll[c] \/ PollHolds(poll'[c], file', spoiled')
  PROVE  AInv'
<1>1. /\ \A t \in Torrents : row[t].state \in States /\ retry[t] \in Retry
      /\ \A c \in Clients : poll[c] \in Poll
  BY DEF AInv, ATypeOK, Row
<1>2. \A c \in Clients : PollHolds(poll'[c], file', spoiled')
  <2> SUFFICES ASSUME NEW c \in Clients PROVE PollHolds(poll'[c], file', spoiled')
    OBVIOUS
  <2>1. PollHolds(poll[c], file', spoiled')
    BY <1>1, HoldsStill DEF AInv
  <2> QED
    BY <2>1
<1>3. \A t \in Torrents : /\ RowHolds(row'[t].state, t, file', spoiled')
                          /\ RetryHolds(retry'[t], t, file', spoiled')
                          /\ RestoreHolds(restore'[t])
  <2> SUFFICES ASSUME NEW t \in Torrents
               PROVE  /\ RowHolds(row'[t].state, t, file', spoiled')
                      /\ RetryHolds(retry'[t], t, file', spoiled')
                      /\ RestoreHolds(restore'[t])
    OBVIOUS
  <2>1. RowHolds(row[t].state, t, file', spoiled') /\ RetryHolds(retry[t], t, file', spoiled')
    BY <1>1, HoldsStill DEF AInv
  <2>2. RestoreHolds(restore[t])
    BY DEF AInv
  <2> QED
    BY <2>1, <2>2
<1> QED
  BY <1>2, <1>3 DEF AInv

(* What AInv says of the manifests stays as it is with them.               *)
LEMMA SameFiles ==
  ASSUME AInv, UNCHANGED <<file, spoiled, recorded, erased>>
  PROVE  /\ Keeps(file, spoiled, file', spoiled')
         /\ \A t \in Torrents : MediaHolds(file'[t].media, recorded'[t], t, spoiled', erased')
<1>1. Keeps(file, spoiled, file', spoiled')
  BY DEF Keeps
<1>2. \A t \in Torrents : MediaHolds(file'[t].media, recorded'[t], t, spoiled', erased')
  BY DEF AInv
<1> QED
  BY <1>1, <1>2

-----------------------------------------------------------------------------
(* A payload is written over by an export that was found valid only, and a *)
(* manifest leaves the payload alone.                                      *)
LEMMA PayloadKeeps ==
  ASSUME NEW f \in File, NEW c \in Clients, NEW t \in Torrents
  PROVE  /\ Payload(f, c, t) \in File
         /\ Payload(f, c, t).manifest = f.manifest
         /\ Payload(f, c, t).media = f.media
         /\ f.payload = "whole" => Payload(f, c, t).payload = "whole"
         /\ Storable(c, t) => Payload(f, c, t).payload = "whole"
         /\ f.payload # None => Payload(f, c, t).payload # None
BY DEF Payload, Storable, Valid, File, None

LEMMA ManifestKeeps ==
  ASSUME NEW f \in File, NEW links \in SUBSET Scopes, NEW read \in Scopes \cup {None}, writable \in BOOLEAN
  PROVE  /\ Manifest(f, read, links) \in File
         /\ Manifest(f, read, links).payload = f.payload
         /\ f.manifest => Manifest(f, read, links).manifest
         /\ writable => Manifest(f, read, links).manifest
BY DEF Manifest, Media, Primary, File, Scopes, None

(* What PollExport and RetryExport do to the files.                        *)
LEMMA ExportKeeps ==
  ASSUME AInv, NEW t \in Torrents, NEW c \in Clients,
         file' = [file EXCEPT ![t] = Payload(file[t], c, t)],
         UNCHANGED <<spoiled, recorded, erased>>
  PROVE  /\ file' \in [Torrents -> File]
         /\ Keeps(file, spoiled, file', spoiled')
         /\ \A u \in Torrents : MediaHolds(file'[u].media, recorded'[u], u, spoiled', erased')
         /\ Storable(c, t) => Whole(file', t)
<1> DEFINE f == Payload(file[t], c, t)
<1>1. file \in [Torrents -> File]
  BY DEF AInv, ATypeOK
<1>2. /\ f \in File /\ f.manifest = file[t].manifest /\ f.media = file[t].media
      /\ file[t].payload = "whole" => f.payload = "whole"
      /\ Storable(c, t) => f.payload = "whole"
  BY <1>1, PayloadKeeps
<1>3. file' = [file EXCEPT ![t] = f]
  OBVIOUS
<1> HIDE DEF f
<1>4. file' \in [Torrents -> File] /\ file'[t] = f /\ \A u \in Torrents \ {t} : file'[u] = file[u]
  BY <1>1, <1>2, <1>3
<1>5. Keeps(file, spoiled, file', spoiled') /\ (Storable(c, t) => Whole(file', t))
  BY <1>2, <1>4 DEF Keeps, Whole
<1>6. \A u \in Torrents : file'[u].media = file[u].media
  BY <1>2, <1>4
<1>7. \A u \in Torrents : MediaHolds(file'[u].media, recorded'[u], u, spoiled', erased')
  BY <1>6 DEF AInv
<1> QED
  BY <1>4, <1>5, <1>7

(* What PollStore and RetryStore do to them.                               *)
LEMMA WriteKeeps ==
  ASSUME AInv, NEW t \in Torrents, NEW read \in Scopes \cup {None}, NEW links \in SUBSET Scopes,
         WriteManifest(t, read, links), spoiled' = spoiled
  PROVE  /\ file' \in [Torrents -> File]
         /\ recorded' \in [Torrents -> SUBSET Scopes] /\ erased' \subseteq Torrents
         /\ Keeps(file, spoiled, file', spoiled')
         /\ \A u \in Torrents : MediaHolds(file'[u].media, recorded'[u], u, spoiled', erased')
         /\ \A u \in Torrents : file'[u].payload = file[u].payload
         /\ writable => file'[t].manifest
<1> DEFINE f == Manifest(file[t], read, links)
<1>1. ATypeOK
  BY DEF AInv
<1>2. /\ f \in File /\ f.payload = file[t].payload /\ (file[t].manifest => f.manifest)
      /\ writable => f.manifest
  BY <1>1, ManifestKeeps DEF ATypeOK
<1>3. file' = [file EXCEPT ![t] = f]
  BY DEF WriteManifest
<1>11. read # None => f.media # None \/ f.media = file[t].media
  <2>1. file[t] \in File
    BY <1>1 DEF ATypeOK
  <2>2. CASE writable
    <3>1. f.media = Media(read, links)
      BY <2>1, <2>2 DEF Manifest, File
    <3> QED
      BY <3>1 DEF Media, Primary, Scopes, None
  <2>3. CASE ~writable
    BY <2>3 DEF Manifest
  <2> QED
    BY <2>2, <2>3
<1> HIDE DEF f
<1>4. file' \in [Torrents -> File] /\ file'[t] = f /\ \A u \in Torrents \ {t} : file'[u] = file[u]
  BY <1>1, <1>2, <1>3 DEF ATypeOK
<1>5. f.media \in Scopes \cup {None} /\ None \notin Scopes
  BY <1>2 DEF File, Scopes, None
<1>6. /\ recorded' = [recorded EXCEPT ![t] = recorded[t] \cup ({f.media} \ {None})]
      /\ erased' = IF file[t].media # None /\ f.media = None /\ read = None THEN erased \cup {t} ELSE erased
  BY <1>4 DEF WriteManifest
<1>7. recorded' \in [Torrents -> SUBSET Scopes] /\ erased' \subseteq Torrents /\ erased \subseteq erased'
  BY <1>1, <1>5, <1>6 DEF ATypeOK
<1>8. /\ recorded'[t] = recorded[t] \cup ({f.media} \ {None})
      /\ \A u \in Torrents \ {t} : recorded'[u] = recorded[u]
  BY <1>1, <1>6 DEF ATypeOK
<1>9. ASSUME NEW u \in Torrents PROVE MediaHolds(file'[u].media, recorded'[u], u, spoiled', erased')
  <2>1. MediaHolds(file[u].media, recorded[u], u, spoiled, erased) /\ recorded[u] \subseteq Scopes
    BY <1>1 DEF AInv, ATypeOK
  <2>2. CASE u # t
    BY <1>4, <1>7, <1>8, <2>1, <2>2 DEF MediaHolds
  <2>3. CASE u = t /\ f.media # None
    BY <1>4, <1>8, <2>3 DEF MediaHolds
  <2>4. CASE u = t /\ f.media = None
    BY <1>11, <1>4, <1>5, <1>6, <1>7, <1>8, <2>1, <2>4 DEF MediaHolds
  <2> QED
    BY <2>2, <2>3, <2>4
<1>10. Keeps(file, spoiled, file', spoiled')
  BY <1>2, <1>4 DEF Keeps, Whole
<1> QED
  BY <1>2, <1>4, <1>7, <1>9, <1>10

-----------------------------------------------------------------------------
LEMMA IdleTyped ==
  /\ Idle \in Poll /\ NoWrite \in Write /\ Idle.at = "idle" /\ Idle.writes = [t \in Torrents |-> NoWrite]
  /\ NoRetry \in Retry /\ NoRetry.at = "idle" /\ NoRestore \in Restore /\ NoRestore.at = "idle"
<1>1. Nobody \in Clients
  BY DEF Nobody
<1> QED
  BY <1>1 DEF Idle, Poll, NoWrite, Write, States, Scopes, Same, None, NoRetry, Retry, NoRestore, Restore

(* Who does nothing relies on nothing.                                     *)
LEMMA IdleHolds ==
  /\ \A f, s : PollHolds(Idle, f, s)
  /\ \A t, f, s : RetryHolds(NoRetry, t, f, s)
  /\ RestoreHolds(NoRestore)
BY IdleTyped DEF PollHolds, RetryHolds, RestoreHolds, NoWrite, Same

THEOREM ArchiveInit == AInit => AInv
<1> SUFFICES ASSUME AInit PROVE AInv
  OBVIOUS
<1>1. ATypeOK
  BY IdleTyped DEF AInit, ATypeOK, Row, File, Gives, States, Scopes, None
<1>2. ASSUME NEW t \in Torrents
      PROVE  /\ RowHolds(row[t].state, t, file, spoiled) /\ RetryHolds(retry[t], t, file, spoiled)
             /\ MediaHolds(file[t].media, recorded[t], t, spoiled, erased) /\ RestoreHolds(restore[t])
  BY IdleHolds DEF AInit, RowHolds, MediaHolds
<1>3. ASSUME NEW c \in Clients PROVE PollHolds(poll[c], file, spoiled)
  BY IdleHolds DEF AInit
<1> QED
  BY <1>1, <1>2, <1>3 DEF AInv

(* What a new state of the column is, and when it says archived.           *)
LEMMA ColumnStands ==
  ASSUME NEW old \in States, NEW loaded \in States, NEW new \in States
  PROVE  /\ Column(loaded, new) \in States \cup {Same}
         /\ Stands(old, Column(loaded, new)) \in States
         /\ Column(loaded, new) = "archived" => new = "archived" /\ loaded # "archived"
         /\ Stands(old, Column(loaded, new)) = "archived" => old = "archived" \/ new = "archived"
BY DEF Column, Stands, Same, States

LEMMA OneFault ==
  ASSUME changes \in 0 .. MaxChanges, Fault \/ UNCHANGED changes
  PROVE  changes' \in 0 .. MaxChanges
BY DEF Fault, Budget

-----------------------------------------------------------------------------
(* Polls.  A step of one poll that writes no file.                         *)
LEMMA PollOnly ==
  ASSUME AInv, NEW c \in Clients, NEW p \in Poll, PollHolds(p, file, spoiled),
         poll' = [poll EXCEPT ![c] = p],
         UNCHANGED <<row, file, qbit, client, writable, retry, restore, spoiled, recorded, erased>>,
         Fault \/ UNCHANGED changes
  PROVE  AInv'
<1>1. ATypeOK /\ \A d \in Clients : poll'[d] = IF d = c THEN p ELSE poll[d]
  BY DEF AInv, ATypeOK
<1>2. ATypeOK'
  BY <1>1, OneFault DEF ATypeOK
<1> QED
  BY <1>1, <1>2, SameFiles, StepKeeps

LEMMA PollListKeeps ==
  ASSUME AInv, NEW c \in Clients, PollList(c)
  PROVE  AInv'
<1> DEFINE p == [Idle EXCEPT !.at = "listed", !.todo = qbit[c], !.listed = qbit[c]]
<1>1. qbit[c] \in SUBSET Torrents
  BY DEF AInv, ATypeOK
<1>2. p \in Poll /\ p.at = "listed" /\ p.writes = Idle.writes
  BY <1>1, IdleTyped DEF Poll
<1>3. /\ poll' = [poll EXCEPT ![c] = p]
      /\ UNCHANGED <<row, file, qbit, client, writable, retry, restore, changes, spoiled, recorded, erased>>
  BY DEF PollList
<1> HIDE DEF p
<1>4. PollHolds(p, file, spoiled)
  BY <1>2, IdleTyped DEF PollHolds, NoWrite, Same
<1> QED
  BY <1>2, <1>3, <1>4, PollOnly

LEMMA PollLoadKeeps ==
  ASSUME AInv, NEW c \in Clients, NEW t \in Torrents, PollLoad(c, t)
  PROVE  AInv'
<1> DEFINE q == poll[c]
           p == [q EXCEPT !.at = "loaded", !.todo = q.todo \ {t}, !.cur = t, !.loaded = row[t].state]
<1>1. q \in Poll /\ row[t].state \in States /\ PollHolds(q, file, spoiled)
  BY DEF AInv, ATypeOK, Row
<1>2. p \in Poll /\ p.at = "loaded" /\ p.writes = q.writes /\ p.cur = t
  BY <1>1 DEF Poll
<1>3. /\ poll' = [poll EXCEPT ![c] = p]
      /\ UNCHANGED <<row, file, qbit, client, writable, retry, restore, changes, spoiled, recorded, erased>>
  BY DEF PollLoad
<1> HIDE DEF p, q
<1>4. PollHolds(p, file, spoiled)
  BY <1>1, <1>2 DEF PollHolds
<1> QED
  BY <1>2, <1>3, <1>4, PollOnly

LEMMA PollLockKeeps ==
  ASSUME AInv, NEW c \in Clients, PollLock(c)
  PROVE  AInv'
<1> DEFINE q == poll[c]
           p == [q EXCEPT !.at = "locked"]
<1>1. q \in Poll /\ PollHolds(q, file, spoiled) /\ q.at = "loaded"
  BY DEF AInv, ATypeOK, PollLock
<1>2. p \in Poll /\ p.at = "locked" /\ p.writes = q.writes /\ p.cur = q.cur
  BY <1>1 DEF Poll
<1>3. /\ poll' = [poll EXCEPT ![c] = p]
      /\ UNCHANGED <<row, file, qbit, client, writable, retry, restore, changes, spoiled, recorded, erased>>
  BY DEF PollLock, AInv, ATypeOK
<1> HIDE DEF p, q
<1>4. PollHolds(p, file, spoiled)
  BY <1>1, <1>2 DEF PollHolds
<1> QED
  BY <1>2, <1>3, <1>4, PollOnly

(* A payload that is kept was found valid.                                 *)
LEMMA PollCheckKeeps ==
  ASSUME AInv, NEW c \in Clients, NEW known \in BOOLEAN, PollCheck(c, known)
  PROVE  AInv'
<1> DEFINE q == poll[c]
           t == q.cur
           done == Complete(q.loaded, file[t])
           has == done \/ Valid(file[t].payload)
           at == IF has THEN "writing" ELSE "exporting"
           link == (IF known THEN {ScopeOf[c]} ELSE {}) \ row[t].links
           read == IF has THEN file[t].media ELSE None
           p == [q EXCEPT !.at = at, !.link = link, !.done = done, !.stored = has, !.read = read]
<1>1. q \in Poll /\ PollHolds(q, file, spoiled) /\ q.at = "locked"
  BY DEF AInv, ATypeOK, PollCheck
<1>2. t \in Torrents
  BY <1>1 DEF PollHolds
<1>3. file[t] \in File /\ done \in BOOLEAN /\ has \in BOOLEAN /\ read \in Scopes \cup {None}
      /\ link \in SUBSET Scopes
  BY <1>2 DEF AInv, ATypeOK, File, Complete, Valid
<1>4. at \in {"writing", "exporting"}
  OBVIOUS
<1>5. has /\ ~done => Whole(file, t)
  BY DEF Valid, Whole
<1>6. /\ poll' = [poll EXCEPT ![c] = p]
      /\ UNCHANGED <<row, file, qbit, client, writable, retry, restore, changes, spoiled, recorded, erased>>
  BY DEF PollCheck
<1>t. t = q.cur
  OBVIOUS
<1> HIDE DEF done, has, link, read, at, q, t
<1>7. /\ p \in Poll /\ p.at = at /\ p.writes = q.writes /\ p.cur = q.cur
      /\ p.done = done /\ p.stored = has
  <2> DEFINE p1 == [q EXCEPT !.at = at, !.link = link, !.done = done]
  <2>1. p1 \in Poll /\ p1.at = at /\ p1.writes = q.writes /\ p1.cur = q.cur /\ p1.done = done
    BY <1>1, <1>3, <1>4 DEF Poll
  <2>2. p = [p1 EXCEPT !.stored = has, !.read = read]
    BY <1>1 DEF Poll
  <2> HIDE DEF p1
  <2> QED
    BY <1>3, <2>1, <2>2 DEF Poll
<1> HIDE DEF p
<1>8. PollHolds(p, file, spoiled)
  BY <1>1, <1>2, <1>5, <1>7, <1>t DEF PollHolds
<1> QED
  BY <1>6, <1>7, <1>8, PollOnly

LEMMA PollExportKeeps ==
  ASSUME AInv, NEW c \in Clients, PollExport(c)
  PROVE  AInv'
<1> DEFINE q == poll[c]
           t == q.cur
           has == Storable(c, t)
           read == file[t].media
           p == [q EXCEPT !.at = "writing", !.stored = has, !.read = read]
<1>1. ATypeOK /\ q \in Poll /\ PollHolds(q, file, spoiled) /\ q.at = "exporting"
  BY DEF AInv, ATypeOK, PollExport
<1>2. t \in Torrents
  BY <1>1 DEF PollHolds
<1>3. has \in BOOLEAN /\ read \in Scopes \cup {None}
  BY <1>1, <1>2 DEF ATypeOK, File, Storable, Valid
<1>4. /\ poll' = [poll EXCEPT ![c] = p] /\ file' = [file EXCEPT ![t] = Payload(file[t], c, t)]
      /\ UNCHANGED <<row, qbit, client, writable, retry, restore, changes, spoiled, recorded, erased>>
  BY DEF PollExport
<1>t. t = q.cur /\ has = Storable(c, t)
  OBVIOUS
<1> HIDE DEF has, read, t
<1>5. /\ file' \in [Torrents -> File] /\ Keeps(file, spoiled, file', spoiled')
      /\ \A u \in Torrents : MediaHolds(file'[u].media, recorded'[u], u, spoiled', erased')
      /\ has => Whole(file', t)
  BY <1>2, <1>4, <1>t, ExportKeeps
<1>6. p \in Poll /\ p.at = "writing" /\ p.writes = q.writes /\ p.cur = q.cur /\ p.stored = has
  BY <1>1, <1>3 DEF Poll
<1>7. PollHolds(q, file', spoiled')
  BY <1>1, <1>5, HoldsStill
<1>q. \A d \in Clients : poll'[d] = IF d = c THEN p ELSE poll[d]
  BY <1>1, <1>4 DEF ATypeOK
<1> HIDE DEF p, q
<1>8. PollHolds(p, file', spoiled')
  BY <1>2, <1>5, <1>6, <1>7, <1>t DEF PollHolds
<1>9. ATypeOK'
  BY <1>1, <1>4, <1>5, <1>6, <1>q DEF ATypeOK
<1> QED
  BY <1>4, <1>5, <1>8, <1>9, <1>q, StepKeeps

(* The state is archived only when payload and manifest are there.         *)
LEMMA PollStoreKeeps ==
  ASSUME AInv, NEW c \in Clients, NEW kept \in BOOLEAN, PollStore(c, kept)
  PROVE  AInv'
<1> DEFINE q == poll[c]
           t == q.cur
           read == q.read
           links == row[t].links \cup q.link
           state == IF q.done THEN q.loaded ELSE NewState(file[t], q.stored)
           write == [made |-> TRUE, state |-> Column(q.loaded, state), path |-> q.stored, link |-> q.link]
           w == IF kept THEN write ELSE NoWrite
           ws == [q.writes EXCEPT ![t] = w]
           p == [Idle EXCEPT !.at = "listed", !.todo = q.todo, !.listed = q.listed, !.writes = ws]
<1>1. ATypeOK /\ q \in Poll /\ PollHolds(q, file, spoiled) /\ q.at = "writing"
  BY DEF AInv, ATypeOK, PollStore
<1>2. t \in Torrents
  BY <1>1 DEF PollHolds
<1>3. /\ read \in Scopes \cup {None} /\ links \in SUBSET Scopes /\ q.loaded \in States
      /\ q.stored \in BOOLEAN /\ q.done \in BOOLEAN /\ q.link \in SUBSET Scopes
      /\ q.writes \in [Torrents -> Write]
  BY <1>1, <1>2 DEF ATypeOK, Row, Poll
<1>4. /\ poll' = [poll EXCEPT ![c] = p] /\ WriteManifest(t, read, links)
      /\ UNCHANGED <<row, qbit, client, writable, retry, restore, spoiled>>
      /\ Fault \/ UNCHANGED changes
  BY DEF PollStore
<1>5. state \in States
  BY <1>3 DEF NewState, States
<1>6. write \in Write /\ (write.state = "archived" => state = "archived" /\ q.loaded # "archived")
  <2>1. /\ Column(q.loaded, state) \in States \cup {Same}
        /\ Column(q.loaded, state) = "archived" => state = "archived" /\ q.loaded # "archived"
    BY <1>3, <1>5, ColumnStands
  <2> HIDE DEF state, q
  <2> QED
    BY <1>3, <2>1 DEF Write
<1>7. state = "archived" /\ q.loaded # "archived" => ~q.done /\ q.stored /\ writable
  BY DEF NewState
<1>8. w \in Write /\ (w.state = "archived" => ~q.done /\ q.stored /\ writable)
  BY <1>6, <1>7, IdleTyped DEF NoWrite, Same
<1>t. t = q.cur /\ ws = [q.writes EXCEPT ![t] = w]
  OBVIOUS
<1> HIDE DEF read, links, w, t, ws
<1>9. /\ file' \in [Torrents -> File]
      /\ recorded' \in [Torrents -> SUBSET Scopes] /\ erased' \subseteq Torrents
      /\ Keeps(file, spoiled, file', spoiled')
      /\ \A u \in Torrents : MediaHolds(file'[u].media, recorded'[u], u, spoiled', erased')
      /\ file'[t].payload = file[t].payload
      /\ writable => file'[t].manifest
  BY <1>2, <1>3, <1>4, WriteKeeps
<1>10. /\ ws \in [Torrents -> Write] /\ ws[t] = w
       /\ \A u \in Torrents \ {t} : ws[u] = q.writes[u]
  BY <1>2, <1>3, <1>8, <1>t
<1>11. p \in Poll /\ p.at = "listed" /\ p.writes = ws
  BY <1>1, <1>10, IdleTyped DEF Poll
<1>12. PollHolds(q, file', spoiled')
  BY <1>1, <1>9, HoldsStill
<1>q. \A d \in Clients : poll'[d] = IF d = c THEN p ELSE poll[d]
  BY <1>1, <1>4 DEF ATypeOK
<1>13. w.state = "archived" /\ t \notin spoiled' => Backed(file', t)
  BY <1>1, <1>4, <1>8, <1>9, <1>t DEF PollHolds, Whole, Backed
<1> HIDE DEF p, q
<1>14. PollHolds(p, file', spoiled')
  BY <1>10, <1>11, <1>12, <1>13 DEF PollHolds
<1>15. ATypeOK'
  BY <1>1, <1>4, <1>9, <1>11, <1>q, OneFault DEF ATypeOK
<1> QED
  BY <1>4, <1>9, <1>14, <1>15, <1>q, StepKeeps

(* A commit writes what its poll meant to.                                 *)
LEMMA PollCommitKeeps ==
  ASSUME AInv, NEW c \in Clients, PollCommit(c)
  PROVE  AInv'
<1>1. ATypeOK /\ PollHolds(poll[c], file, spoiled)
  BY DEF AInv
<1>2. \A t \in Torrents : row[t] \in Row /\ poll[c].writes[t] \in Write
  BY <1>1 DEF ATypeOK, Poll
<1>3. \A t \in Torrents :
        /\ Polled(c, t) \in Row
        /\ Polled(c, t).state = row[t].state
             \/ (Polled(c, t).state = poll[c].writes[t].state /\ poll[c].writes[t].state \in States)
  BY <1>2 DEF Polled, Row, Write, Stands, Same, States
<1>4. row' \in [Torrents -> Row] /\ \A t \in Torrents : row'[t] = Polled(c, t)
  BY <1>3 DEF PollCommit
<1>5. /\ poll' = [poll EXCEPT ![c] = Idle]
      /\ UNCHANGED <<file, qbit, client, writable, retry, restore, changes, spoiled, recorded, erased>>
  BY DEF PollCommit
<1>6. \A d \in Clients : poll'[d] = IF d = c THEN Idle ELSE poll[d]
  BY <1>1, <1>5 DEF ATypeOK
<1>7. ATypeOK'
  BY <1>1, <1>4, <1>5, IdleTyped DEF ATypeOK
<1>8. \A t \in Torrents : row'[t].state = row[t].state \/ RowHolds(row'[t].state, t, file', spoiled')
  BY <1>1, <1>3, <1>4, <1>5 DEF PollHolds, RowHolds
<1>9. \A d \in Clients : poll'[d] = poll[d] \/ PollHolds(poll'[d], file', spoiled')
  BY <1>6, IdleHolds
<1> QED
  BY <1>5, <1>7, <1>8, <1>9, SameFiles, StepKeeps

LEMMA PollFailsKeeps ==
  ASSUME AInv, NEW c \in Clients, PollFails(c)
  PROVE  AInv'
BY IdleTyped, IdleHolds, PollOnly DEF PollFails

-----------------------------------------------------------------------------
(* Retries.  A step of one retry that writes no file and no row.           *)
LEMMA RetryOnly ==
  ASSUME AInv, NEW t \in Torrents, NEW r \in Retry, RetryHolds(r, t, file, spoiled),
         retry' = [retry EXCEPT ![t] = r],
         UNCHANGED <<row, file, qbit, client, writable, poll, restore, spoiled, recorded, erased>>,
         Fault \/ UNCHANGED changes
  PROVE  AInv'
<1>1. ATypeOK /\ \A u \in Torrents : retry'[u] = IF u = t THEN r ELSE retry[u]
  BY DEF AInv, ATypeOK
<1>2. ATypeOK'
  BY <1>1, OneFault DEF ATypeOK
<1> QED
  BY <1>1, <1>2, SameFiles, StepKeeps

LEMMA RetryBegins ==
  ASSUME AInv, NEW t \in Torrents, RetryAsk(t) \/ RetryLoad(t) \/ RetryFails(t)
  PROVE  AInv'
<1>1. /\ retry[t] \in Retry /\ file[t] \in File /\ row[t] \in Row /\ Nobody \in Clients
  BY DEF AInv, ATypeOK, Nobody
<1>2. CASE RetryAsk(t)
  <2> DEFINE r == [retry[t] EXCEPT !.at = "queued"]
  <2>1. r \in Retry /\ r.at = "queued"
    BY <1>1 DEF Retry
  <2>2. /\ retry' = [retry EXCEPT ![t] = r] /\ Fault
        /\ UNCHANGED <<row, file, qbit, client, writable, poll, restore, spoiled, recorded, erased>>
    BY <1>2 DEF RetryAsk, AInv, ATypeOK
  <2> HIDE DEF r
  <2>3. RetryHolds(r, t, file, spoiled)
    BY <2>1 DEF RetryHolds
  <2> QED
    BY <2>1, <2>2, <2>3, RetryOnly
<1>3. CASE RetryFails(t)
  BY <1>3, IdleTyped, IdleHolds, RetryOnly DEF RetryFails
<1>4. CASE RetryLoad(t)
  <2>1. CASE LiveIn(t) = {}
    BY <1>4, <2>1, IdleTyped, IdleHolds, RetryOnly DEF RetryLoad
  <2>2. CASE LiveIn(t) # {}
    <3>1. PICK c \in LiveIn(t) : retry' = [retry EXCEPT ![t] = RetryWith(t, c)]
      BY <1>4, <2>2 DEF RetryLoad
    <3>2. c \in Clients
      BY <1>1, <3>1 DEF LiveIn, Row
    <3> DEFINE has == Valid(file[t].payload)
               at == IF has THEN "querying" ELSE "exporting"
               who == IF has THEN Nobody ELSE c
               read == IF has THEN file[t].media ELSE None
               r1 == [NoRetry EXCEPT !.at = at, !.client = who, !.loaded = row[t].state]
               r == RetryWith(t, c)
    <3>3. /\ has \in BOOLEAN /\ at \in {"querying", "exporting"} /\ who \in Clients
          /\ read \in Scopes \cup {None} /\ row[t].state \in States /\ row[t].path \in BOOLEAN
          /\ has => Whole(file, t)
      BY <1>1, <3>2 DEF File, Row, Valid, Whole
    <3>4. r = [r1 EXCEPT !.path = row[t].path, !.stored = has, !.read = read]
      BY IdleTyped DEF RetryWith, Retry
    <3> HIDE DEF has, at, who, read, r
    <3>5. r1 \in Retry /\ r1.at = at
      BY <3>3, IdleTyped DEF Retry
    <3> HIDE DEF r1
    <3>6. r \in Retry /\ r.at = at /\ r.stored = has
      BY <3>3, <3>4, <3>5 DEF Retry
    <3>7. RetryHolds(r, t, file, spoiled)
      BY <3>3, <3>6 DEF RetryHolds
    <3>8. UNCHANGED <<row, file, qbit, client, writable, poll, restore, changes, spoiled, recorded, erased>>
      BY <1>4 DEF RetryLoad
    <3>9. retry' = [retry EXCEPT ![t] = r]
      BY <3>1 DEF r
    <3> QED
      BY <3>6, <3>7, <3>8, <3>9, RetryOnly
  <2> QED
    BY <2>1, <2>2
<1> QED
  BY <1>2, <1>3, <1>4

LEMMA RetryExportKeeps ==
  ASSUME AInv, NEW t \in Torrents, RetryExport(t)
  PROVE  AInv'
<1> DEFINE q == retry[t]
           c == q.client
           has == Storable(c, t)
           read == file[t].media
           r == [q EXCEPT !.at = "querying", !.client = Nobody, !.stored = has, !.read = read]
<1>1. ATypeOK /\ q \in Retry /\ c \in Clients /\ Nobody \in Clients
  BY DEF AInv, ATypeOK, Retry, Nobody
<1>2. has \in BOOLEAN /\ read \in Scopes \cup {None}
  BY <1>1 DEF ATypeOK, File, Storable, Valid
<1>3. /\ retry' = [retry EXCEPT ![t] = r] /\ file' = [file EXCEPT ![t] = Payload(file[t], c, t)]
      /\ UNCHANGED <<row, qbit, client, writable, poll, restore, changes, spoiled, recorded, erased>>
  BY DEF RetryExport
<1>c. c = q.client /\ has = Storable(c, t)
  OBVIOUS
<1> HIDE DEF has, read, c
<1>4. /\ file' \in [Torrents -> File] /\ Keeps(file, spoiled, file', spoiled')
      /\ \A u \in Torrents : MediaHolds(file'[u].media, recorded'[u], u, spoiled', erased')
      /\ has => Whole(file', t)
  BY <1>1, <1>3, <1>c, ExportKeeps
<1>5. r \in Retry /\ r.at = "querying" /\ r.stored = has
  <2> DEFINE r1 == [q EXCEPT !.at = "querying", !.client = Nobody]
  <2>1. r1 \in Retry /\ r1.at = "querying"
    BY <1>1 DEF Retry
  <2>2. r = [r1 EXCEPT !.stored = has, !.read = read]
    BY <1>1 DEF Retry
  <2> HIDE DEF r1
  <2> QED
    BY <1>2, <2>1, <2>2 DEF Retry
<1>6. \A u \in Torrents : retry'[u] = IF u = t THEN r ELSE retry[u]
  BY <1>1, <1>3 DEF ATypeOK
<1> HIDE DEF r, q
<1>7. RetryHolds(r, t, file', spoiled')
  BY <1>4, <1>5 DEF RetryHolds
<1>8. ATypeOK'
  BY <1>1, <1>3, <1>4, <1>5 DEF ATypeOK
<1> QED
  BY <1>3, <1>4, <1>6, <1>7, <1>8, StepKeeps

LEMMA RetryQueryKeeps ==
  ASSUME AInv, NEW t \in Torrents, RetryQuery(t)
  PROVE  AInv'
<1> DEFINE q == retry[t]
           r == [q EXCEPT !.at = "writing", !.links = row[t].links]
<1>1. q \in Retry /\ row[t].links \in SUBSET Scopes /\ RetryHolds(q, t, file, spoiled) /\ q.at = "querying"
  BY DEF AInv, ATypeOK, Row, RetryQuery
<1>2. r \in Retry /\ r.at = "writing" /\ r.stored = q.stored
  BY <1>1 DEF Retry
<1>3. /\ retry' = [retry EXCEPT ![t] = r]
      /\ UNCHANGED <<row, file, qbit, client, writable, poll, restore, changes, spoiled, recorded, erased>>
  BY DEF RetryQuery
<1> HIDE DEF r, q
<1>4. RetryHolds(r, t, file, spoiled)
  BY <1>1, <1>2 DEF RetryHolds
<1> QED
  BY <1>2, <1>3, <1>4, RetryOnly

LEMMA RetryStoreKeeps ==
  ASSUME AInv, NEW t \in Torrents, RetryStore(t)
  PROVE  AInv'
<1> DEFINE q == retry[t]
           read == q.read
           links == q.links
           state == NewState(file[t], q.stored)
           r == [q EXCEPT !.at = "committing", !.read = None, !.links = {}, !.state = state]
<1>1. ATypeOK /\ q \in Retry /\ RetryHolds(q, t, file, spoiled) /\ q.at = "writing"
  BY DEF AInv, ATypeOK, RetryStore
<1>2. /\ read \in Scopes \cup {None} /\ links \in SUBSET Scopes /\ state \in States /\ q.stored \in BOOLEAN
      /\ state = "archived" => q.stored /\ writable
  BY <1>1 DEF Retry, NewState, States
<1>3. /\ retry' = [retry EXCEPT ![t] = r] /\ WriteManifest(t, read, links)
      /\ UNCHANGED <<row, qbit, client, writable, poll, restore, changes, spoiled>>
  BY DEF RetryStore
<1> HIDE DEF read, links, state
<1>4. /\ file' \in [Torrents -> File]
      /\ recorded' \in [Torrents -> SUBSET Scopes] /\ erased' \subseteq Torrents
      /\ Keeps(file, spoiled, file', spoiled')
      /\ \A u \in Torrents : MediaHolds(file'[u].media, recorded'[u], u, spoiled', erased')
      /\ file'[t].payload = file[t].payload
      /\ writable => file'[t].manifest
  BY <1>2, <1>3, WriteKeeps
<1>5. r \in Retry /\ r.at = "committing" /\ r.stored = q.stored /\ r.state = state
  <2> DEFINE r1 == [q EXCEPT !.at = "committing", !.read = None]
  <2>1. r1 \in Retry /\ r1.at = "committing" /\ r1.stored = q.stored
    BY <1>1 DEF Retry
  <2>2. r = [r1 EXCEPT !.links = {}, !.state = state]
    BY <1>1 DEF Retry
  <2> HIDE DEF r1
  <2> QED
    BY <1>2, <2>1, <2>2 DEF Retry
<1>6. \A u \in Torrents : retry'[u] = IF u = t THEN r ELSE retry[u]
  BY <1>1, <1>3 DEF ATypeOK
<1> HIDE DEF r, q
<1>7. RetryHolds(r, t, file', spoiled')
  BY <1>1, <1>2, <1>3, <1>4, <1>5 DEF RetryHolds, Whole, Backed
<1>8. ATypeOK'
  BY <1>1, <1>3, <1>4, <1>5 DEF ATypeOK
<1> QED
  BY <1>3, <1>4, <1>6, <1>7, <1>8, StepKeeps

LEMMA RetryCommitKeeps ==
  ASSUME AInv, NEW t \in Torrents, RetryCommit(t)
  PROVE  AInv'
<1> DEFINE q == retry[t]
           state == Stands(row[t].state, Column(q.loaded, q.state))
           path == row[t].path \/ q.stored
           x == [row[t] EXCEPT !.state = state, !.path = path]
<1>1. ATypeOK /\ q \in Retry /\ row[t] \in Row /\ RetryHolds(q, t, file, spoiled) /\ q.at = "committing"
  BY DEF AInv, ATypeOK, RetryCommit
<1>2. /\ state \in States /\ path \in BOOLEAN
      /\ state = "archived" => row[t].state = "archived" \/ q.state = "archived"
  <2>1. row[t].state \in States /\ q.loaded \in States /\ q.state \in States
        /\ row[t].path \in BOOLEAN /\ q.stored \in BOOLEAN
    BY <1>1 DEF Row, Retry
  <2> HIDE DEF q
  <2> QED
    BY <2>1, ColumnStands
<1>3. /\ row' = [row EXCEPT ![t] = x] /\ retry' = [retry EXCEPT ![t] = NoRetry]
      /\ UNCHANGED <<file, qbit, client, writable, poll, restore, changes, spoiled, recorded, erased>>
  BY <1>1 DEF RetryCommit, ATypeOK
<1> HIDE DEF state, path
<1>4. x \in Row /\ x.state = state
  BY <1>1, <1>2 DEF Row
<1> HIDE DEF x
<1>5. \A u \in Torrents : /\ row'[u] = IF u = t THEN x ELSE row[u]
                          /\ retry'[u] = IF u = t THEN NoRetry ELSE retry[u]
  BY <1>1, <1>3 DEF ATypeOK
<1>6. RowHolds(row[t].state, t, file, spoiled)
  BY DEF AInv
<1>7. RowHolds(x.state, t, file', spoiled')
  BY <1>1, <1>2, <1>3, <1>4, <1>6 DEF RowHolds, RetryHolds
<1>8. ATypeOK'
  BY <1>1, <1>3, <1>4, IdleTyped DEF ATypeOK
<1>9. \A u \in Torrents : row'[u].state = row[u].state \/ RowHolds(row'[u].state, u, file', spoiled')
  BY <1>5, <1>7
<1>10. \A u \in Torrents : retry'[u] = retry[u] \/ RetryHolds(retry'[u], u, file', spoiled')
  BY <1>5, IdleHolds
<1> QED
  BY <1>3, <1>8, <1>9, <1>10, SameFiles, StepKeeps

-----------------------------------------------------------------------------
(* Restores write neither files nor rows, and one that looked keeps what   *)
(* the manifest had named.                                                 *)
LEMMA RestoreOnly ==
  ASSUME AInv, NEW t \in Torrents, NEW r \in Restore, RestoreHolds(r),
         restore' = [restore EXCEPT ![t] = r], qbit' \in [Clients -> SUBSET Torrents],
         UNCHANGED <<row, file, client, writable, poll, retry, spoiled, recorded, erased>>,
         Fault \/ UNCHANGED changes
  PROVE  AInv'
<1>1. ATypeOK /\ \A u \in Torrents : restore'[u] = IF u = t THEN r ELSE restore[u]
  BY DEF AInv, ATypeOK
<1>2. ATypeOK'
  BY <1>1, OneFault DEF ATypeOK
<1> QED
  BY <1>1, <1>2, SameFiles, StepKeeps

LEMMA RestoreKeeps ==
  ASSUME AInv, NEW t \in Torrents,
         \/ \E c \in Clients : RestoreAsk(t, c)
         \/ \E passes \in BOOLEAN : RestorePrepare(t, passes)
         \/ \E taken \in BOOLEAN : RestoreRun(t, taken)
  PROVE  AInv'
<1>1. /\ ATypeOK /\ restore[t] \in Restore /\ restore[t].client \in Clients
      /\ MediaHolds(file[t].media, recorded[t], t, spoiled, erased)
      /\ file[t].media \in Scopes \cup {None} /\ recorded[t] \in SUBSET Scopes /\ None \notin Scopes
  BY DEF AInv, ATypeOK, Restore, File, Scopes, None
<1>2. CASE \E c \in Clients : RestoreAsk(t, c)
  <2>1. PICK c \in Clients : RestoreAsk(t, c)
    BY <1>2
  <2> DEFINE r == [NoRestore EXCEPT !.at = "queued", !.client = c]
  <2>2. r \in Restore /\ r.at = "queued"
    BY IdleTyped DEF Restore
  <2>3. /\ restore' = [restore EXCEPT ![t] = r] /\ Fault
        /\ UNCHANGED <<row, file, qbit, client, writable, poll, retry, spoiled, recorded, erased>>
    BY <2>1 DEF RestoreAsk
  <2> HIDE DEF r
  <2>4. RestoreHolds(r) /\ qbit' \in [Clients -> SUBSET Torrents]
    BY <1>1, <2>2, <2>3 DEF RestoreHolds, ATypeOK
  <2> QED
    BY <2>2, <2>3, <2>4, RestoreOnly
<1>3. CASE \E passes \in BOOLEAN : RestorePrepare(t, passes)
  <2>1. PICK passes \in BOOLEAN : RestorePrepare(t, passes)
    BY <1>3
  <2> DEFINE c == restore[t].client
             knew == IF t \in spoiled \cup erased THEN {} ELSE recorded[t]
             r == IF passes THEN [at |-> "prepared", client |-> c, knew |-> knew] ELSE NoRestore
  <2>2. /\ restore' = [restore EXCEPT ![t] = r]
        /\ UNCHANGED <<row, file, qbit, client, writable, poll, retry, changes, spoiled, recorded, erased>>
    BY <2>1 DEF RestorePrepare
  <2>3. passes => file[t].media \in {None, ScopeOf[c]}
    BY <2>1 DEF RestorePrepare, Restorable
  <2>4. knew \in SUBSET Scopes /\ (passes /\ knew # {} => ScopeOf[c] \in knew)
    BY <1>1, <2>3 DEF MediaHolds
  <2> HIDE DEF knew
  <2>5. r \in Restore
    BY <1>1, <2>4, IdleTyped DEF Restore
  <2>6. RestoreHolds(r)
    BY <2>4, IdleHolds DEF RestoreHolds
  <2>7. qbit' \in [Clients -> SUBSET Torrents]
    BY <1>1, <2>2 DEF ATypeOK
  <2> HIDE DEF r
  <2> QED
    BY <2>2, <2>5, <2>6, <2>7, RestoreOnly
<1>4. CASE \E taken \in BOOLEAN : RestoreRun(t, taken)
  <2>1. /\ restore' = [restore EXCEPT ![t] = NoRestore]
        /\ UNCHANGED <<row, file, client, writable, poll, retry, changes, spoiled, recorded, erased>>
    BY <1>4 DEF RestoreRun
  <2>2. qbit' \in [Clients -> SUBSET Torrents]
    BY <1>1, <1>4 DEF RestoreRun, ATypeOK
  <2> QED
    BY <2>1, <2>2, IdleTyped, IdleHolds, RestoreOnly
<1> QED
  BY <1>2, <1>3, <1>4

-----------------------------------------------------------------------------
(* The world: only a hand on the files touches them, and spoils them.      *)
LEMMA RemoveTitleKeeps ==
  ASSUME AInv, NEW t \in Torrents, NEW s \in Scopes, RemoveTitle(t, s)
  PROVE  AInv'
<1> DEFINE x == [row[t] EXCEPT !.links = row[t].links \ {s}]
<1>1. ATypeOK /\ row[t] \in Row
  BY DEF AInv, ATypeOK
<1>2. x \in Row /\ x.state = row[t].state
  BY <1>1 DEF Row
<1>3. /\ row' = [row EXCEPT ![t] = x] /\ Fault
      /\ UNCHANGED <<file, qbit, client, writable, poll, retry, restore, spoiled, recorded, erased>>
  BY DEF RemoveTitle
<1> HIDE DEF x
<1>4. row' \in [Torrents -> Row] /\ \A u \in Torrents : row'[u].state = row[u].state
  BY <1>1, <1>2, <1>3 DEF ATypeOK
<1>5. ATypeOK'
  BY <1>1, <1>3, <1>4, OneFault DEF ATypeOK
<1> QED
  BY <1>3, <1>4, <1>5, SameFiles, StepKeeps

LEMMA ClientChangesKeeps ==
  ASSUME AInv, NEW c \in Clients, ClientChanges(c)
  PROVE  AInv'
<1> DEFINE Client == [enabled : BOOLEAN, gives : Gives]
<1>1. ATypeOK /\ client[c] \in Client
  BY DEF AInv, ATypeOK
<1>2. UNCHANGED <<row, file, writable, poll, retry, restore, spoiled, recorded, erased>> /\ Fault
  BY DEF ClientChanges
<1>3. \/ qbit' \in [Clients -> SUBSET Torrents] /\ client' = client
      \/ qbit' = qbit /\ \E x \in Client : client' = [client EXCEPT ![c] = x]
  <2>1. CASE \E ts \in SUBSET Torrents : qbit' = [qbit EXCEPT ![c] = ts] /\ UNCHANGED client
    BY <1>1, <2>1 DEF ATypeOK
  <2>2. CASE \E g \in Gives : client' = [client EXCEPT ![c].gives = g] /\ UNCHANGED qbit
    <3>1. PICK g \in Gives : client' = [client EXCEPT ![c].gives = g] /\ UNCHANGED qbit
      BY <2>2
    <3>2. [client[c] EXCEPT !.gives = g] \in Client
      BY <1>1
    <3> QED
      BY <3>1, <3>2
  <2>3. CASE client' = [client EXCEPT ![c].enabled = ~client[c].enabled] /\ UNCHANGED qbit
    <3>1. (~client[c].enabled) \in BOOLEAN
      BY <1>1
    <3>2. [client[c] EXCEPT !.enabled = ~client[c].enabled] \in Client
      BY <1>1, <3>1
    <3> QED
      BY <2>3, <3>2
  <2> QED
    BY <2>1, <2>2, <2>3 DEF ClientChanges
<1>4. qbit' \in [Clients -> SUBSET Torrents] /\ client' \in [Clients -> Client]
  BY <1>1, <1>3 DEF ATypeOK
<1>5. ATypeOK'
  BY <1>1, <1>2, <1>4, OneFault DEF ATypeOK
<1> QED
  BY <1>2, <1>5, SameFiles, StepKeeps

LEMMA MountChangesKeeps ==
  ASSUME AInv, MountChanges
  PROVE  AInv'
<1>1. ATypeOK
  BY DEF AInv
<1>2. /\ UNCHANGED <<row, file, qbit, client, poll, retry, restore, spoiled, recorded, erased>> /\ Fault
      /\ writable' \in BOOLEAN
  BY <1>1 DEF MountChanges, ATypeOK
<1>3. ATypeOK'
  BY <1>1, <1>2, OneFault DEF ATypeOK
<1> QED
  BY <1>2, <1>3, SameFiles, StepKeeps

LEMMA SpoilKeeps ==
  ASSUME AInv, NEW t \in Torrents, Spoil(t)
  PROVE  /\ AInv'
         /\ spoiled' = spoiled \cup {t} /\ \A u \in Torrents \ {t} : file'[u] = file[u]
<1>1. ATypeOK /\ file[t] \in File
  BY DEF AInv, ATypeOK
<1>2. /\ UNCHANGED <<row, qbit, client, writable, poll, retry, restore, recorded, erased>> /\ Fault
      /\ spoiled' = spoiled \cup {t}
  BY DEF Spoil
<1>3. \E f \in File : file' = [file EXCEPT ![t] = f]
  <2>1. CASE file' = [file EXCEPT ![t] = [payload |-> None, manifest |-> FALSE, media |-> None]]
    BY <2>1 DEF File
  <2>2. CASE file' = [file EXCEPT ![t].payload = "broken"]
    <3>1. [file[t] EXCEPT !.payload = "broken"] \in File
      BY <1>1 DEF File
    <3> QED
      BY <2>2, <3>1
  <2> QED
    BY <2>1, <2>2 DEF Spoil
<1>4. file' \in [Torrents -> File] /\ \A u \in Torrents \ {t} : file'[u] = file[u]
  BY <1>1, <1>3 DEF ATypeOK
<1>5. ATypeOK'
  BY <1>1, <1>2, <1>4, OneFault DEF ATypeOK
<1>6. Keeps(file, spoiled, file', spoiled')
  BY <1>2, <1>4 DEF Keeps, Whole
<1>7. \A u \in Torrents : MediaHolds(file'[u].media, recorded'[u], u, spoiled', erased')
  BY <1>2, <1>4 DEF AInv, MediaHolds
<1>8. AInv'
  BY <1>2, <1>5, <1>6, <1>7, StepKeeps
<1> QED
  BY <1>2, <1>4, <1>8

(* A restart forgets what was not committed.                               *)
LEMMA RestartKeeps ==
  ASSUME AInv, Restart
  PROVE  AInv'
<1>1. ATypeOK
  BY DEF AInv
<1>2. /\ poll' = [c \in Clients |-> Idle] /\ retry' = [t \in Torrents |-> NoRetry]
      /\ restore' = [t \in Torrents |-> NoRestore] /\ Fault
      /\ UNCHANGED <<row, file, qbit, client, writable, spoiled, recorded, erased>>
  BY DEF Restart
<1>3. ATypeOK'
  BY <1>1, <1>2, IdleTyped, OneFault DEF ATypeOK
<1> QED
  BY <1>2, <1>3, IdleHolds, SameFiles, StepKeeps

THEOREM ArchiveStep == AInv /\ [ANext]_avars => AInv'
<1> SUFFICES ASSUME AInv, [ANext]_avars PROVE AInv'
  OBVIOUS
<1>1. CASE UNCHANGED avars
  <2>1. /\ UNCHANGED <<row, file, qbit, client, writable, poll, retry, restore, changes, spoiled>>
        /\ UNCHANGED <<recorded, erased>>
    BY <1>1 DEF avars
  <2>2. ATypeOK'
    BY <2>1 DEF AInv, ATypeOK
  <2> QED
    BY <2>1, <2>2, SameFiles, StepKeeps
<1>2. ASSUME NEW c \in Clients, PollStep(c) PROVE AInv'
  BY <1>2, PollListKeeps, PollLoadKeeps, PollLockKeeps, PollCheckKeeps, PollExportKeeps, PollStoreKeeps,
     PollCommitKeeps DEF PollStep
<1>3. ASSUME NEW c \in Clients, PollFails(c) \/ PollStore(c, FALSE) PROVE AInv'
  BY <1>3, PollFailsKeeps, PollStoreKeeps
<1>4. ASSUME NEW t \in Torrents, RetryAsk(t) \/ RetryStep(t) \/ RetryFails(t) PROVE AInv'
  BY <1>4, RetryBegins, RetryExportKeeps, RetryQueryKeeps, RetryStoreKeeps, RetryCommitKeeps DEF RetryStep
<1>5. ASSUME NEW t \in Torrents, \/ \E c \in Clients : RestoreAsk(t, c)
                                 \/ \E passes \in BOOLEAN : RestorePrepare(t, passes)
                                 \/ \E taken \in BOOLEAN : RestoreRun(t, taken)
      PROVE  AInv'
  BY <1>5, RestoreKeeps
<1>6. CASE World
  BY <1>6, RemoveTitleKeeps, ClientChangesKeeps, MountChangesKeeps, SpoilKeeps DEF World
<1> QED
  BY <1>1, <1>2, <1>3, <1>4, <1>5, <1>6 DEF ANext

-----------------------------------------------------------------------------
(* The invariant holds of every state of the archive by itself, and with it *)
(* ArchivedIsBacked: it never promises a torrent that it cannot put back.  *)
THEOREM ArchiveInvariant == ASpec => []AInv
<1> QED
  BY ArchiveInit, ArchiveStep, PTL DEF ASpec

LEMMA BackedInAInv == AInv => ArchivedIsBacked
BY DEF AInv, RowHolds, Backed, ArchivedIsBacked

(* A torrent the database calls archived has its payload and its manifest  *)
(* on the mount, unless a hand touched them.                               *)
THEOREM ArchivedStaysBacked == ASpec => [](ATypeOK /\ ArchivedIsBacked)
<1>1. AInv => ATypeOK /\ ArchivedIsBacked
  BY BackedInAInv DEF AInv
<1> QED
  BY <1>1, ArchiveInvariant, PTL

-----------------------------------------------------------------------------
(* Recovery exports                                                        *)

(* What holds of an export whatever the archive is.                        *)
Tidy(x) ==
  /\ x.at \in {"free", "asked", "setup"} => x.work = "none" /\ x.bundle.age = "none"
  /\ x.at \in {"backup", "gather", "pack"} =>
       x.job = "running" /\ (~x.late => x.work = "fresh" /\ x.database)
  /\ x.bundle.age # "none" /\ ~x.late => x.bundle.database
  /\ x.at = "clean" /\ x.bundle.age # "none" => x.job = "completed"
  /\ x.at = "done" => x.work = "none" /\ (x.bundle.age # "none" => x.job = "completed")
  /\ x.at = "lost" => x.work = "none" /\ x.bundle.age = "none"

(* What was archived when the backup ended is there when the files are     *)
(* listed, and in the list, and in the bundle.                             *)
Covers(x) ==
  /\ x.at = "gather" => x.says \ spoiled \subseteq Payloads
  /\ x.at = "pack" => x.says \ spoiled \subseteq x.listed
  /\ x.bundle.says \ spoiled \subseteq x.bundle.payloads

Sound(x) == x \in State /\ Tidy(x) /\ Covers(x)

XInv == AInv /\ export \in [Exports -> State] /\ \A e \in Exports : Sound(export[e])

-----------------------------------------------------------------------------
LEMMA UnaskedSound == Sound(Unasked)
<1>1. Unasked \in State
  BY DEF Unasked, NoBundle, State, Bundle, Steps, Age
<1>2. Tidy(Unasked) /\ Covers(Unasked)
  BY DEF Unasked, NoBundle, Tidy, Covers
<1> QED
  BY <1>1, <1>2 DEF Sound

THEOREM ExportInit == XInit => XInv
BY ArchiveInit, UnaskedSound DEF XInit, XInv, Sound

(* A clean-up takes nothing from an export that is not late.               *)
LEMMA UnexpiredSound ==
  ASSUME NEW x, Sound(x)
  PROVE  Sound(Unexpired(x)) /\ Unexpired(x).at = x.at
<1> DEFINE b == IF x.bundle.age = "old" THEN NoBundle ELSE x.bundle
           w == IF x.work = "old" THEN "none" ELSE x.work
           d == x.database /\ x.work # "old"
           y == Unexpired(x)
<1>1. x \in State /\ Tidy(x) /\ Covers(x)
  BY DEF Sound
<1>2. b \in Bundle /\ w \in Age /\ d \in BOOLEAN
  BY <1>1 DEF State, Bundle, NoBundle, Age
<1>3. /\ y.at = x.at /\ y.job = x.job /\ y.work = w /\ y.database = d /\ y.says = x.says
      /\ y.listed = x.listed /\ y.bundle = b /\ y.late = x.late
      /\ y \in State
  BY <1>1, <1>2 DEF Unexpired, State
<1>4. /\ b = x.bundle \/ (b = NoBundle /\ b.age = "none")
      /\ x.work = "none" => w = "none"
      /\ x.work = "fresh" /\ x.database => w = "fresh" /\ d
  BY DEF NoBundle
<1> HIDE DEF b, w, d, y
<1>5. Tidy(y)
  BY <1>1, <1>3, <1>4 DEF Tidy
<1>6. Covers(y)
  BY <1>1, <1>3, <1>4 DEF Covers, NoBundle
<1> QED
  BY <1>3, <1>5, <1>6 DEF Sound, y

(* A step of one export, beside which nothing but a clean-up happens.      *)
LEMMA OneExport ==
  ASSUME XInv, NEW e \in Exports, NEW x, Sound(x), UNCHANGED <<file, spoiled>>, AInv',
         \/ export' = [export EXCEPT ![e] = x]
         \/ export' = [Cleaned EXCEPT ![e] = x]
  PROVE  XInv'
<1>1. \A d \in Exports : Sound(export'[d])
  BY UnexpiredSound DEF XInv, Cleaned, Sound
<1>2. export' \in [Exports -> State]
  BY UnexpiredSound DEF XInv, Cleaned, Sound
<1>3. \A d \in Exports : Sound(export[d])'
  BY <1>1 DEF Sound, Covers, Payloads
<1> QED
  BY <1>2, <1>3 DEF XInv

-----------------------------------------------------------------------------
(* No step of the archive loses the payload of a torrent that no hand has  *)
(* touched.                                                                *)
PayloadsStay == spoiled \subseteq spoiled' /\ Payloads \ spoiled' \subseteq Payloads'

LEMMA SomethingStays ==
  ASSUME spoiled' = spoiled, \A t \in Torrents : file[t].payload # None => file'[t].payload # None
  PROVE  PayloadsStay
BY DEF PayloadsStay, Payloads

LEMMA ExportStays ==
  ASSUME ATypeOK, NEW t \in Torrents, NEW c \in Clients,
         file' = [file EXCEPT ![t] = Payload(file[t], c, t)], spoiled' = spoiled
  PROVE  PayloadsStay
<1> DEFINE f == Payload(file[t], c, t)
<1>1. file[t].payload # None => f.payload # None
  BY PayloadKeeps DEF ATypeOK
<1>2. file' = [file EXCEPT ![t] = f]
  OBVIOUS
<1> HIDE DEF f
<1>3. \A u \in Torrents : file'[u] = IF u = t THEN f ELSE file[u]
  BY <1>2 DEF ATypeOK
<1> QED
  BY <1>1, <1>3, SomethingStays

LEMMA WriteStays ==
  ASSUME AInv, NEW t \in Torrents, NEW read \in Scopes \cup {None}, NEW links \in SUBSET Scopes,
         WriteManifest(t, read, links), spoiled' = spoiled
  PROVE  PayloadsStay
BY WriteKeeps, SomethingStays

LEMMA ArchiveKeepsPayloads ==
  ASSUME AInv, [ANext]_avars \/ Restart
  PROVE  PayloadsStay
<1>1. ATypeOK
  BY DEF AInv
<1>2. CASE UNCHANGED file /\ UNCHANGED spoiled
  BY <1>2, SomethingStays
<1>3. ASSUME NEW t \in Torrents, Spoil(t)
      PROVE  PayloadsStay
  BY <1>3, SpoilKeeps DEF PayloadsStay, Payloads
<1>4. ASSUME NEW c \in Clients, PollExport(c)
      PROVE  PayloadsStay
  <2> DEFINE t == poll[c].cur
  <2>1. t \in Torrents
    BY <1>4 DEF AInv, PollHolds, PollExport
  <2>2. spoiled' = spoiled /\ file' = [file EXCEPT ![t] = Payload(file[t], c, t)]
    BY <1>4 DEF PollExport
  <2> HIDE DEF t
  <2> QED
    BY <1>1, <2>1, <2>2, ExportStays
<1>5. ASSUME NEW c \in Clients, NEW kept \in BOOLEAN, PollStore(c, kept)
      PROVE  PayloadsStay
  <2> DEFINE t == poll[c].cur
             read == poll[c].read
             links == row[t].links \cup poll[c].link
  <2>1. t \in Torrents
    BY <1>5 DEF AInv, PollHolds, PollStore
  <2>2. read \in Scopes \cup {None} /\ links \in SUBSET Scopes
    BY <1>1, <2>1 DEF ATypeOK, Poll, Row
  <2>3. spoiled' = spoiled /\ WriteManifest(t, read, links)
    BY <1>5 DEF PollStore
  <2> HIDE DEF t, read, links
  <2> QED
    BY <2>1, <2>2, <2>3, WriteStays
<1>6. ASSUME NEW t \in Torrents, RetryExport(t)
      PROVE  PayloadsStay
  <2> DEFINE c == retry[t].client
  <2>1. c \in Clients
    BY <1>1 DEF ATypeOK, Retry
  <2>2. spoiled' = spoiled /\ file' = [file EXCEPT ![t] = Payload(file[t], c, t)]
    BY <1>6 DEF RetryExport
  <2> HIDE DEF c
  <2> QED
    BY <1>1, <2>1, <2>2, ExportStays
<1>7. ASSUME NEW t \in Torrents, RetryStore(t)
      PROVE  PayloadsStay
  <2> DEFINE read == retry[t].read
             links == retry[t].links
  <2>1. read \in Scopes \cup {None} /\ links \in SUBSET Scopes
    BY <1>1 DEF ATypeOK, Retry
  <2>2. spoiled' = spoiled /\ WriteManifest(t, read, links)
    BY <1>7 DEF RetryStore
  <2> HIDE DEF read, links
  <2> QED
    BY <2>1, <2>2, WriteStays
<1>8. \/ UNCHANGED file /\ UNCHANGED spoiled
      \/ \E t \in Torrents : Spoil(t) \/ RetryExport(t) \/ RetryStore(t)
      \/ \E c \in Clients : PollExport(c) \/ \E kept \in BOOLEAN : PollStore(c, kept)
  BY DEF ANext, avars, World, PollStep, PollList, PollLock, PollCheck, PollCommit, PollLoad, PollFails,
         RetryStep, RetryAsk, RetryLoad, RetryQuery, RetryCommit, RetryFails, RestoreAsk, RestorePrepare,
         RestoreRun, RemoveTitle, ClientChanges, MountChanges, Restart
<1> QED
  BY <1>2, <1>3, <1>4, <1>5, <1>6, <1>7, <1>8

(* So what an export has collected stays covered.                          *)
LEMMA CoversStays ==
  ASSUME NEW x, Covers(x), spoiled \subseteq spoiled', Payloads \ spoiled' \subseteq Payloads'
  PROVE  (x.at = "gather" => x.says \ spoiled' \subseteq Payloads')
         /\ (x.at = "pack" => x.says \ spoiled' \subseteq x.listed)
         /\ x.bundle.says \ spoiled' \subseteq x.bundle.payloads
BY DEF Covers

LEMMA ArchiveBeside ==
  ASSUME XInv, [ANext]_avars, UNCHANGED export
  PROVE  XInv'
<1>1. AInv' /\ spoiled \subseteq spoiled' /\ Payloads \ spoiled' \subseteq Payloads'
  BY ArchiveStep, ArchiveKeepsPayloads DEF XInv, PayloadsStay
<1>2. \A e \in Exports : Covers(export[e])'
  BY <1>1, CoversStays DEF XInv, Sound, Covers
<1>3. \A e \in Exports : Sound(export[e])'
  BY <1>2 DEF XInv, Sound, Tidy
<1> QED
  BY <1>1, <1>3 DEF XInv

-----------------------------------------------------------------------------
(* What is left of the archive by a step of an export that may count as a  *)
(* change of the world.                                                    *)
LEMMA ArchiveStands ==
  ASSUME AInv, Fault \/ UNCHANGED changes,
         UNCHANGED <<row, file, qbit, client, writable, poll, retry, restore, spoiled, recorded, erased>>
  PROVE  AInv'
<1>1. ATypeOK'
  BY OneFault DEF AInv, ATypeOK
<1> QED
  BY <1>1, SameFiles, StepKeeps

(* The records that the steps of one export's task make are sound again.   *)
LEMMA TaskKeeps ==
  ASSUME XInv, NEW e \in Exports,
         \/ Ask(e) \/ ExportStep(e) \/ TimePasses(e)
         \/ SetupFails(e) \/ StepFails(e) \/ FinishUnheard(e) \/ FailsUnheard(e)
  PROVE  XInv'
<1> DEFINE x == export[e]
<1>1. x \in State /\ Tidy(x) /\ Covers(x) /\ AInv /\ x.bundle \in Bundle
  BY DEF XInv, Sound, State
<1>2. AInv' /\ UNCHANGED <<file, spoiled>>
  <2>1. /\ UNCHANGED <<row, file, qbit, client, writable, poll, retry, restore, spoiled, recorded, erased>>
        /\ Fault \/ UNCHANGED changes
    BY DEF Ask, ExportStep, TimePasses, SetupFails, StepFails, FinishUnheard, FailsUnheard, Create,
           Setup, BackupStarts, BackupEnds, Gather, Pack, Finish, Fails, CleanUp, Quiet, avars
  <2> QED
    BY <1>1, <2>1, ArchiveStands
<1>3. SUFFICES \E y : /\ Sound(y)
                      /\ \/ export' = [export EXCEPT ![e] = y]
                         \/ export' = [Cleaned EXCEPT ![e] = y]
  BY <1>2, OneExport
<1>u. Sound(Cleaned[e]) /\ Cleaned[e].at = x.at
  BY UnexpiredSound DEF XInv, Cleaned
<1>4. CASE Ask(e)
  <2> DEFINE z == Cleaned[e]
             y == [z EXCEPT !.at = "asked"]
  <2>1. z \in State /\ Tidy(z) /\ Covers(z) /\ z.at = "free"
    BY <1>4, <1>u DEF Ask, At, Sound
  <2> HIDE DEF z
  <2>2. Sound(y)
    BY <2>1 DEF Sound, Tidy, Covers, State, Steps
  <2> QED
    BY <1>4, <2>2 DEF Ask, z
<1>5. CASE Create(e)
  <2> DEFINE y == [x EXCEPT !.at = "setup", !.job = "queued"]
  <2>1. x.at = "asked"
    BY <1>5 DEF Create, At
  <2>2. export' = [export EXCEPT ![e] = y]
    BY <1>5 DEF Create, Becomes
  <2> HIDE DEF x
  <2>3. Sound(y)
    BY <1>1, <2>1 DEF Sound, Tidy, Covers, State, Steps
  <2> QED
    BY <2>2, <2>3
<1>6. CASE Setup(e)
  <2> DEFINE z == Cleaned[e]
             y == [Touched(z) EXCEPT !.at = "ready"]
  <2>1. z \in State /\ Tidy(z) /\ Covers(z) /\ z.at = "setup"
    BY <1>6, <1>u DEF Setup, At, Sound
  <2>2. export' = [Cleaned EXCEPT ![e] = y]
    BY <1>6 DEF Setup
  <2> HIDE DEF z
  <2>3. Sound(y)
    BY <2>1 DEF Sound, Tidy, Covers, State, Steps, Touched, Age
  <2> QED
    BY <2>2, <2>3
<1>7. CASE SetupFails(e)
  <2> DEFINE y == [x EXCEPT !.at = "lost"]
  <2>1. x.at = "setup"
    BY <1>7 DEF SetupFails, At
  <2>2. export' = [export EXCEPT ![e] = y]
    BY <1>7 DEF SetupFails, Becomes
  <2> HIDE DEF x
  <2>3. Sound(y)
    BY <1>1, <2>1 DEF Sound, Tidy, Covers, State, Steps
  <2> QED
    BY <2>2, <2>3
<1>8. CASE BackupStarts(e)
  <2> DEFINE y == [Touched(x) EXCEPT !.at = "backup", !.job = "running", !.database = TRUE]
  <2>1. x.at = "ready"
    BY <1>8 DEF BackupStarts, At
  <2>2. export' = [export EXCEPT ![e] = y]
    BY <1>8 DEF BackupStarts, Becomes
  <2> HIDE DEF x
  <2>3. Sound(y)
    BY <1>1, <2>1 DEF Sound, Tidy, Covers, State, Steps, Touched, Age
  <2> QED
    BY <2>2, <2>3
<1>9. CASE BackupEnds(e)
  <2> DEFINE y == [x EXCEPT !.at = "gather", !.says = Archived]
  <2>1. x.at = "backup"
    BY <1>9 DEF BackupEnds, At
  <2>2. export' = [export EXCEPT ![e] = y]
    BY <1>9 DEF BackupEnds, Becomes
  <2>3. Archived \ spoiled \subseteq Payloads /\ Archived \subseteq Torrents
    BY <1>1, BackedInAInv DEF Archived, Payloads, ArchivedIsBacked, None
  <2> HIDE DEF x
  <2>4. Sound(y)
    BY <1>1, <2>1, <2>3 DEF Sound, Tidy, Covers, State, Steps
  <2> QED
    BY <2>2, <2>4
<1>10. CASE Gather(e)
  <2> DEFINE y == [Touched(x) EXCEPT !.at = "pack", !.listed = Payloads]
  <2>1. x.at = "gather"
    BY <1>10 DEF Gather, At
  <2>2. export' = [export EXCEPT ![e] = y]
    BY <1>10 DEF Gather, Becomes
  <2>3. Payloads \subseteq Torrents
    BY DEF Payloads
  <2> HIDE DEF x
  <2>4. Sound(y)
    BY <1>1, <2>1, <2>3 DEF Sound, Tidy, Covers, State, Steps, Touched, Age
  <2> QED
    BY <2>2, <2>4
<1>11. CASE Pack(e)
  <2> DEFINE b == [age |-> "fresh", database |-> x.database, says |-> x.says, payloads |-> x.listed]
             packed == [x EXCEPT !.at = "finish", !.says = {}, !.listed = {}, !.bundle = b]
             failed == [x EXCEPT !.at = "failing"]
  <2>1. x.at = "pack"
    BY <1>11 DEF Pack, At
  <2>2. export' = [export EXCEPT ![e] = packed] \/ export' = [export EXCEPT ![e] = failed]
    BY <1>11 DEF Pack, Becomes
  <2>3. b \in Bundle
    BY <1>1 DEF State, Bundle, Age
  <2> HIDE DEF x
  <2>4. Sound(failed)
    BY <1>1, <2>1 DEF Sound, Tidy, Covers, State, Steps
  <2>5. packed \in State /\ Tidy(packed)
    BY <1>1, <2>1, <2>3 DEF Tidy, State, Steps
  <2>6. Covers(packed)
    BY <1>1, <2>1 DEF Covers, State
  <2> QED
    BY <2>2, <2>4, <2>5, <2>6 DEF Sound
<1>12. CASE Finish(e)
  <2> DEFINE y == [x EXCEPT !.at = "clean", !.job = "completed"]
  <2>1. x.at = "finish" /\ export' = [export EXCEPT ![e] = y]
    BY <1>12 DEF Finish, At, Becomes
  <2> HIDE DEF x
  <2>2. Sound(y)
    BY <1>1, <2>1 DEF Sound, Tidy, Covers, State, Steps
  <2> QED
    BY <2>1, <2>2
<1>13. CASE FinishUnheard(e)
  <2> DEFINE y == [x EXCEPT !.at = "failing", !.job = "completed"]
  <2>1. x.at = "finish" /\ export' = [export EXCEPT ![e] = y]
    BY <1>13 DEF FinishUnheard, At, Becomes
  <2> HIDE DEF x
  <2>2. Sound(y)
    BY <1>1, <2>1 DEF Sound, Tidy, Covers, State, Steps
  <2> QED
    BY <2>1, <2>2
<1>14. CASE StepFails(e)
  <2> DEFINE y == [x EXCEPT !.at = "failing"]
  <2>1. export' = [export EXCEPT ![e] = y]
    BY <1>14 DEF StepFails, Becomes
  <2> HIDE DEF x
  <2>2. Sound(y)
    BY <1>1 DEF Sound, Tidy, Covers, State, Steps
  <2> QED
    BY <2>1, <2>2
<1>15. CASE Fails(e)
  <2> DEFINE y == [Withdrawn(x) EXCEPT !.job = "failed"]
  <2>1. export' = [export EXCEPT ![e] = y]
    BY <1>15 DEF Fails, Becomes
  <2> HIDE DEF x
  <2>2. Sound(y)
    BY <1>1 DEF Sound, Tidy, Covers, State, Steps, Withdrawn, NoBundle, Bundle, Age
  <2> QED
    BY <2>1, <2>2
<1>16. CASE FailsUnheard(e)
  <2> DEFINE y == [Withdrawn(x) EXCEPT !.at = "lost", !.work = "none", !.database = FALSE]
  <2>1. export' = [export EXCEPT ![e] = y]
    BY <1>16 DEF FailsUnheard, Becomes
  <2> HIDE DEF x
  <2>2. Sound(y)
    BY <1>1 DEF Sound, Tidy, Covers, State, Steps, Withdrawn, NoBundle, Bundle, Age
  <2> QED
    BY <2>1, <2>2
<1>17. CASE CleanUp(e)
  <2> DEFINE y == [x EXCEPT !.at = "done", !.work = "none", !.database = FALSE]
  <2>1. x.at = "clean" /\ export' = [export EXCEPT ![e] = y]
    BY <1>17 DEF CleanUp, At, Becomes
  <2> HIDE DEF x
  <2>2. Sound(y)
    BY <1>1, <2>1 DEF Sound, Tidy, Covers, State, Steps, Age
  <2> QED
    BY <2>1, <2>2
<1>18. CASE TimePasses(e)
  <2> DEFINE b == [x.bundle EXCEPT !.age = Older(x.bundle.age)]
             y == [x EXCEPT !.work = Older(x.work), !.bundle = b,
                            !.late = x.late \/ x.job \in Unfinished]
  <2>1. export' = [export EXCEPT ![e] = y]
    BY <1>18 DEF TimePasses, Becomes
  <2>2. /\ Older(x.work) \in Age /\ (Older(x.work) = "none" <=> x.work = "none")
        /\ b \in Bundle /\ (b.age = "none" <=> x.bundle.age = "none")
        /\ b.database = x.bundle.database /\ b.says = x.bundle.says
        /\ b.payloads = x.bundle.payloads
    BY <1>1 DEF State, Bundle, Older, Age
  <2>3. (x.late \/ x.job \in Unfinished) \in BOOLEAN /\ "running" \in Unfinished
    BY DEF Unfinished
  <2> HIDE DEF x, b
  <2>4. y \in State
    BY <1>1, <2>2, <2>3 DEF State
  <2>5. Tidy(y) /\ Covers(y)
    BY <1>1, <2>2, <2>3 DEF Tidy, Covers, State
  <2> QED
    BY <2>1, <2>4, <2>5 DEF Sound
<1> QED
  BY <1>4, <1>5, <1>6, <1>7, <1>8, <1>9, <1>10, <1>11, <1>12, <1>13, <1>14, <1>15, <1>16, <1>17,
     <1>18 DEF ExportStep

(* A refused request cleans up all the same.                               *)
LEMMA RefuseKeeps ==
  ASSUME XInv, Refuse
  PROVE  XInv'
<1>1. AInv'
  BY ArchiveStands DEF XInv, Refuse, Quiet, avars
<1>2. \A e \in Exports : Sound(export'[e])
  BY UnexpiredSound DEF XInv, Refuse, Cleaned
<1> QED
  BY <1>1, <1>2 DEF XInv, Refuse, Cleaned, Quiet, avars, Sound, Covers, Payloads

(* A restart stops every task that had not ended.                          *)
LEMMA RestartsKeep ==
  ASSUME XInv, Restarts
  PROVE  XInv'
<1>1. AInv' /\ UNCHANGED <<file, spoiled>>
  BY RestartKeeps DEF XInv, Restarts, Restart
<1>2. ASSUME NEW e \in Exports PROVE Sound(Unexpired(Interrupted(export[e])))
  <2> DEFINE x == export[e]
             at == IF x.at \in {"free", "asked"} THEN "free" ELSE IF x.at = "done" THEN x.at ELSE "stopped"
             job == IF x.job \in Unfinished THEN "interrupted" ELSE x.job
             y == Interrupted(x)
  <2>1. x \in State /\ Tidy(x) /\ Covers(x)
    BY DEF XInv, Sound
  <2>2. at \in Steps /\ job \in {"none", "queued", "running", "completed", "failed", "interrupted"}
    BY <2>1 DEF State, Steps
  <2>3. /\ y.at = at /\ y.job = job /\ y.work = x.work /\ y.database = x.database /\ y.says = {}
        /\ y.listed = {} /\ y.bundle = x.bundle /\ y.late = x.late
        /\ y \in State
    BY <2>1, <2>2 DEF Interrupted, State
  <2>4. job = "completed" <=> x.job = "completed"
    BY DEF Unfinished
  <2>5. at \in {"free", "done", "stopped"} /\ (at = "free" => x.at \in {"free", "asked"})
        /\ (at = "done" => x.at = "done")
    OBVIOUS
  <2> HIDE DEF x, at, job
  <2>6. Tidy(y) /\ Covers(y)
    BY <2>1, <2>3, <2>4, <2>5 DEF Tidy, Covers
  <2> QED
    BY <2>3, <2>6, UnexpiredSound DEF Sound, x
<1>3. \A e \in Exports : Sound(export'[e])
  BY <1>2 DEF Restarts
<1> QED
  BY <1>1, <1>3 DEF XInv, Restarts, Sound, Covers, Payloads

THEOREM ExportStepKeeps == XInv /\ [XNext]_xvars => XInv'
<1> SUFFICES ASSUME XInv, [XNext]_xvars PROVE XInv'
  OBVIOUS
<1>1. CASE UNCHANGED xvars
  BY <1>1, ArchiveBeside DEF xvars
<1>2. CASE ANext /\ UNCHANGED export
  BY <1>2, ArchiveBeside
<1>3. CASE Refuse \/ Restarts
  BY <1>3, RefuseKeeps, RestartsKeep
<1>4. CASE \E e \in Exports : \/ Ask(e) \/ ExportStep(e) \/ TimePasses(e)
                              \/ SetupFails(e) \/ StepFails(e) \/ FinishUnheard(e) \/ FailsUnheard(e)
  BY <1>4, TaskKeeps
<1> QED
  BY <1>1, <1>2, <1>3, <1>4 DEF XNext

-----------------------------------------------------------------------------
THEOREM ExportInvariant == XSpec => []XInv
<1> QED
  BY ExportInit, ExportStepKeeps, PTL DEF XSpec

(* Exports beside it, the archive still never promises what it cannot put  *)
(* back.                                                                   *)
THEOREM ArchivedStaysBackedBeside == XSpec => []ArchivedIsBacked
<1>1. XInv => ArchivedIsBacked
  BY BackedInAInv DEF XInv
<1> QED
  BY <1>1, ExportInvariant, PTL

(* A restore hands a torrent to no client of another media type than the   *)
(* manifest had named when it looked, whatever runs beside it.             *)
THEOREM RestoresKeepScope == XSpec => RestoreKeepsScope
<1>1. XInv /\ [XNext]_xvars =>
        [\A t \in Torrents, c \in Clients :
           restore[t].at = "prepared" /\ restore'[t].at = "idle" /\ restore[t].client = c
             /\ t \in qbit'[c] \ qbit[c] /\ restore[t].knew # {}
           => ScopeOf[c] \in restore[t].knew]_avars
  BY DEF XInv, AInv, RestoreHolds
<1> QED
  BY <1>1, ExportInvariant, PTL DEF XSpec, RestoreKeepsScope

(* A bundle can put back every torrent that its database calls archived.   *)
THEOREM BundlesCoverArchive == XSpec => []BundleCoversArchive
<1>1. XInv => BundleCoversArchive
  BY DEF XInv, Sound, Covers, BundleCoversArchive
<1> QED
  BY <1>1, ExportInvariant, PTL

(* A bundle offered for download holds the database, unless its export     *)
(* took longer than the retention.                                         *)
THEOREM BundlesAreWhole == XSpec => []BundleIsWhole
<1>1. XInv => BundleIsWhole
  BY DEF XInv, Sound, Tidy, BundleIsWhole
<1> QED
  BY <1>1, ExportInvariant, PTL

(* Together: an offered bundle restores what it says it does. *)
THEOREM BundlesRestore == XSpec => []BundleRestores
<1>1. BundleIsWhole /\ BundleCoversArchive => BundleRestores
  BY DEF BundleRestores
<1> QED
  BY <1>1, BundlesAreWhole, BundlesCoverArchive, PTL

(* A task that ended left no work directory and no bundle of a Job that    *)
(* does not say COMPLETED.                                                 *)
THEOREM NothingIsLeftBehind == XSpec => []NothingLeftBehind
<1>1. XInv => NothingLeftBehind
  BY DEF XInv, Sound, Tidy, NothingLeftBehind
<1> QED
  BY <1>1, ExportInvariant, PTL

=============================================================================

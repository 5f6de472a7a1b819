-------------------------- MODULE InteractiveSearch --------------------------
(***************************************************************************)
(* Interactive search and download (services/search.py, api/search.py):    *)
(* a Job that asks every indexer for releases of a title and stores what   *)
(* it gets, judged by the settings of ReleaseScores as they were when it   *)
(* began, and the request that hands one result to qBittorrent and, for a  *)
(* title that is not in the library, adds the title.                       *)
(*                                                                         *)
(* The request locks its result, submits the torrent and commits last: the *)
(* torrent is out when the commit fails.  A show is added in the same      *)
(* transaction before the torrent is submitted, a movie after it.          *)
(*                                                                         *)
(* Each release is offered by one indexer.  What an indexer finds after    *)
(* the filters for seeders and season packs is any part of what it offers. *)
(* Categories, client options, results without a link and refused requests *)
(* that change nothing are left out.  The reads of set-up are one step, so *)
(* a cancel during them, which the code loses, is in JobLifecycle.         *)
(***************************************************************************)
EXTENDS ReleaseScores

CONSTANTS
  Movies,                \* the titles that are movies; the others are shows
  Indexers, IndexerOf,   \* the indexer that offers a release
  Clients,               \* download clients, enabled and of the right media type
  Searches, Requests     \* searches and download requests that may ever be made, in their order;
                         \* searches, failures and changes of the world are changes, as edits are

ASSUME InteractiveSearchAssumption ==
  /\ Movies \subseteq Titles /\ IndexerOf \in [Releases -> Indexers]
  /\ Searches \subseteq Nat /\ Requests \subseteq Nat

VARIABLES
  title,       \* how each title came into the library, if it did
  configured,  \* the indexers that are configured
  search,      \* each search: its task, its Job and what it froze
  result,      \* the row of each search and release
  request,     \* each download request
  sent, lost   \* for each row, torrents submitted, and those whose selection was not committed

vars == <<svars, title, configured, search, result, request, sent, lost>>
Settings == <<format, profile, assignment, release, reading, suspect>>

Rows == Searches \X Releases

\* The frozen profile and formats, by what they make of each release
Policy  == [score : [Releases -> Int], allowed : SUBSET Releases, profile : Profiles \cup {None}]
Search  == [at : {"free", "scheduled", "asking", "nobody", "done", "lost", "stopped"},
            job : {"none", "queued", "running", "completed", "failed", "cancelled", "interrupted"},
            title : Titles \cup {None}, added : BOOLEAN, chosen : Profiles \cup {None},
            pending : SUBSET Indexers, policy : Policy \cup {None}]
Result  == [state : {"none", "offered", "selected"}, fresh : BOOLEAN, allowed : BOOLEAN, score : Int,
            profile : Profiles \cup {None}, entity : BOOLEAN, client : Clients \cup {None}]
Request == [at : {"free", "ready", "submitted", "done"}, row : Rows \cup {None},
            client : Clients \cup {None}, staged : BOOLEAN, assigns : BOOLEAN]

NoSearch  == [at |-> "free", job |-> "none", title |-> None, added |-> FALSE, chosen |-> None,
              pending |-> {}, policy |-> None]
NoResult  == [state |-> "none", fresh |-> FALSE, allowed |-> FALSE, score |-> 0, profile |-> None,
              entity |-> FALSE, client |-> None]
NoRequest == [at |-> "free", row |-> None, client |-> None, staged |-> FALSE, assigns |-> FALSE]
Done      == [NoRequest EXCEPT !.at = "done"]

Init ==
  /\ SInit
  /\ title \in [Titles -> {"absent", "found"}] /\ configured = Indexers
  /\ search = [j \in Searches |-> NoSearch] /\ result = [w \in Rows |-> NoResult]
  /\ request = [d \in Requests |-> NoRequest]
  /\ sent = [w \in Rows |-> 0] /\ lost = [w \in Rows |-> 0]

Known        == {t \in Titles : title[t] # "absent"}
Becomes(j, s) == search' = [search EXCEPT ![j] = s]
Job(j, status) == Becomes(j, [search[j] EXCEPT !.job = status, !.at = "done", !.pending = {}])

LockedNot == {}

Locked == {request[d].row : d \in {q \in Requests : request[q].at \in {"ready", "submitted"}}}

\* cleanup_expired_search_results.  Deleting a row that a request has locked waits for it.
Expired(w)  == ~result[w].fresh /\ result[w].state = "offered"
CanCleanUp  == \A w \in Rows : Expired(w) => w \notin Locked
Cleaned     == [w \in Rows |-> IF Expired(w) THEN NoResult ELSE result[w]]

-----------------------------------------------------------------------------
(* The search                                                              *)

\* The endpoints: a title of the library is searched under its own settings; one that is not, or a
\* season of a show that may be, under a profile that the request names.
Start(j, t, p) ==
  /\ Change /\ search[j].at = "free" /\ CanCleanUp
  /\ \A i \in Searches : i < j => search[i].at # "free"
  /\ IF p = None THEN t \in Known ELSE profile[p] # None /\ (t \in Movies => t \notin Known)
  /\ result' = Cleaned
  /\ Becomes(j, [NoSearch EXCEPT !.at = "scheduled", !.job = "queued", !.title = t, !.added = p = None,
                                 !.chosen = p])
  /\ UNCHANGED <<Settings, title, configured, request, sent, lost>>

\* load_quality_profile_for_search or load_effective_profile, and the enabled formats
PolicyNow(t, p) ==
  LET used  == IF p # None THEN p ELSE IF assignment[t] = None THEN None ELSE assignment[t].profile
      score == IF p # None THEN BaseScore(profile[p]) ELSE EffectiveScore(profile, assignment[t])
      order == Allowed(IF used = None THEN None ELSE profile[used])
  IN  [score |-> [r \in Releases |-> Evaluate(format, score, r)],
       allowed |-> {r \in Releases : QualityOf[r] \in order}, profile |-> used]

\* A profile that is gone raises where nobody handles it: the Job stays QUEUED.
SetUp(j) ==
  LET s == search[j] IN
  /\ s.at = "scheduled"
  /\ IF s.job # "queued"
     THEN Job(j, s.job) /\ UNCHANGED result
     ELSE IF s.chosen # None /\ profile[s.chosen] = None
     THEN Becomes(j, [s EXCEPT !.at = "lost"]) /\ UNCHANGED result
     ELSE /\ CanCleanUp /\ result' = Cleaned
          /\ Becomes(j, [s EXCEPT !.at = IF configured = {} THEN "nobody" ELSE "asking", !.job = "running", !.pending = configured,
                                  !.policy = PolicyNow(s.title, s.chosen)])
  /\ UNCHANGED <<Settings, title, configured, request, sent, lost, changes>>

Offers(x, t) == {r \in Releases : IndexerOf[r] = x /\ TitleOf[r] = t}

JudgedNow(s, r) ==
  [state |-> "offered", fresh |-> TRUE, client |-> None, entity |-> s.added,
   allowed |-> r \in s.policy.allowed, profile |-> s.policy.profile,
   score |-> Current(format, profile, assignment, r)]

Judged(s, r) ==
  [state |-> "offered", fresh |-> TRUE, client |-> None, entity |-> s.added,
   allowed |-> r \in s.policy.allowed, profile |-> s.policy.profile, score |-> s.policy.score[r]]

\* _store_results
Stored(j, found) ==
  [w \in Rows |-> IF w[1] = j /\ w[2] \in found THEN Judged(search[j], w[2]) ELSE result[w]]

\* An answer, a refusal or a timeout of an indexer.  Results of an indexer that was deleted meanwhile
\* cannot be stored: their foreign key fails, and with it the whole search.
Answer(j, x, found) ==
  LET s == search[j] IN
  /\ s.at = "asking" /\ x \in s.pending /\ found \subseteq Offers(x, s.title)
  /\ IF s.job = "cancelled"
     THEN Job(j, "cancelled") /\ UNCHANGED result
     ELSE IF found # {} /\ x \notin configured
     THEN Job(j, "failed") /\ UNCHANGED result
     ELSE /\ Becomes(j, [s EXCEPT !.pending = @ \ {x}])
          /\ result' = Stored(j, found)
  /\ UNCHANGED <<Settings, title, configured, request, sent, lost, changes>>

\* A commit fails: FAILED, unless the Job was cancelled; or that commit fails too.
SearchFails(j) ==
  /\ Change /\ search[j].at \in {"asking", "nobody"}
  /\ \/ Job(j, IF search[j].job = "cancelled" THEN "cancelled" ELSE "failed")
     \/ Becomes(j, [search[j] EXCEPT !.at = "lost"])
  /\ UNCHANGED <<Settings, title, configured, result, request, sent, lost>>

\* Without indexers nobody looks whether the Job was cancelled.
Finish(j) ==
  LET s == search[j] IN
  /\ s.at \in {"asking", "nobody"} /\ s.pending = {}
  /\ Job(j, IF s.job = "cancelled" /\ s.at = "asking" THEN "cancelled" ELSE "completed")
  /\ UNCHANGED <<Settings, title, configured, result, request, sent, lost, changes>>

Cancel(j) ==
  /\ Change /\ search[j].job \in {"queued", "running"}
  /\ Becomes(j, [search[j] EXCEPT !.job = "cancelled"])
  /\ UNCHANGED <<Settings, title, configured, result, request, sent, lost>>

-----------------------------------------------------------------------------
(* The download                                                            *)

Goto(d, q) == request' = [request EXCEPT ![d] = q]

\* A title outside the library that the row was found for is added with the row's selection.
Adds(w)     == ~result[w].entity
TitleOfRow(w) == search[w[1]].title

\* A show that another transaction has added and not committed cannot be added beside it: the insert
\* waits, and then fails.
Staging(t) == \E d \in Requests : request[d].staged /\ TitleOfRow(request[d].row) = t

\* The checks of download_search_result under the row's lock, up to the submission.  A request for a
\* row that is selected already is answered and changes nothing.
Prepare(d, w, c) ==
  /\ request[d].at = "free" /\ \A i \in Requests : i < d => request[i].at # "free"
  /\ w \notin Locked /\ result[w].state = "offered"
  /\ result[w].fresh /\ result[w].allowed /\ IndexerOf[w[2]] \in configured
  /\ LET t == TitleOfRow(w)
         show == Adds(w) /\ t \notin Movies
     IN  /\ Adds(w) /\ t \in Movies => t \notin Known
         /\ show => ~Staging(t)
         /\ Goto(d, [at |-> "ready", row |-> w, client |-> c, staged |-> show /\ t \notin Known,
                     assigns |-> Adds(w) /\ (show => assignment[t] = None)])
  /\ UNCHANGED <<Settings, title, configured, search, result, sent, lost, changes>>

Submit(d) ==
  /\ request[d].at = "ready"
  /\ Goto(d, [request[d] EXCEPT !.at = "submitted"])
  /\ sent' = [sent EXCEPT ![request[d].row] = @ + 1]
  /\ UNCHANGED <<Settings, title, configured, search, result, lost, changes>>

SubmitFailsKept(d) ==
  /\ Change /\ request[d].at = "ready" /\ Goto(d, Done)
  /\ title' = IF request[d].staged THEN [title EXCEPT ![TitleOfRow(request[d].row)] = "acquired"] ELSE title
  /\ UNCHANGED <<Settings, configured, search, result, sent, lost>>

\* The submission fails, or is accepted and its answer lost: everything staged is rolled back.
SubmitFails(d) ==
  /\ Change /\ request[d].at = "ready" /\ Goto(d, Done)
  /\ \E n \in {0, 1} : /\ sent' = [sent EXCEPT ![request[d].row] = @ + n]
                       /\ lost' = [lost EXCEPT ![request[d].row] = @ + n]
  /\ UNCHANGED <<Settings, title, configured, search, result>>

\* The assignment of a title is unique, and its profile has to exist still.
Conflict(q) ==
  LET p == result[q.row].profile IN
  q.assigns /\ (assignment[TitleOfRow(q.row)] # None \/ profile[p] = None)

\* create_movie_from_metadata uses a movie that came in meanwhile.  No release is refreshed for the
\* new assignment.
Select(d) ==
  LET q == request[d]
      w == q.row
      t == TitleOfRow(w)
  IN
  /\ q.at = "submitted" /\ ~Conflict(q)
  /\ Goto(d, Done)
  /\ result' = [result EXCEPT ![w] = [result[w] EXCEPT !.state = "selected", !.entity = TRUE, !.client = q.client]]
  /\ title' = IF Adds(w) /\ t \notin Known THEN [title EXCEPT ![t] = "acquired"] ELSE title
  /\ IF q.assigns
     THEN /\ assignment' = [assignment EXCEPT ![t] = [profile |-> result[w].profile, override |-> NoOverride]]
          /\ suspect' = suspect \cup {r \in Releases : TitleOf[r] = t /\ release[r] # None}
          /\ reading' = Late
     ELSE UNCHANGED <<assignment, suspect, reading>>
  /\ UNCHANGED <<format, profile, release, changes, configured, search, sent, lost>>

\* The commit fails after the torrent is out, and the row stays as it was.
SelectFails(d) ==
  LET q == request[d] IN
  /\ q.at = "submitted"
  /\ IF Conflict(q) THEN UNCHANGED changes ELSE Change
  /\ Goto(d, Done)
  /\ lost' = [lost EXCEPT ![q.row] = @ + 1]
  /\ UNCHANGED <<Settings, title, configured, search, result, sent>>

-----------------------------------------------------------------------------
(* Settings, scans and polls, the clock, and restarts                      *)

ChangeSettings ==
  /\ EditStep(Known)
  /\ UNCHANGED <<title, configured, search, result, request, sent, lost>>

\* A scan or a poll registers a release of a title, and the title with it.
Register(r) ==
  /\ (TitleOf[r] \in Known /\ Evaluates(r)) \/ Stores(r)
  /\ UNCHANGED <<title, configured, search, result, request, sent, lost>>

\* A poll associates a torrent that is downloading; the release of a show is registered as any other.
Incoming(r) ==
  /\ TitleOf[r] \in Known \cap Movies /\ Arrives(r)
  /\ UNCHANGED <<title, configured, search, result, request, sent, lost>>

Discover(t) ==
  /\ Change /\ t \notin Known /\ ~Staging(t)
  /\ title' = [title EXCEPT ![t] = "found"]
  /\ UNCHANGED <<Settings, configured, search, result, request, sent, lost>>

DeleteIndexer(x) ==
  /\ Change /\ x \in configured /\ configured' = configured \ {x}
  /\ UNCHANGED <<Settings, title, search, result, request, sent, lost>>

\* A row of 24 hours
TimePasses(w) ==
  /\ Change /\ result[w].fresh
  /\ result' = [result EXCEPT ![w] = [result[w] EXCEPT !.fresh = FALSE]]
  /\ UNCHANGED <<Settings, title, configured, search, request, sent, lost>>

\* mark_running_jobs_interrupted, after the built-in formats; tasks and requests are gone with the
\* program, which may start as another version.
Interrupted(s) ==
  [s EXCEPT !.job = IF @ \in {"queued", "running"} THEN "interrupted" ELSE @,
            !.at = IF @ \in {"free", "done"} THEN @ ELSE "stopped"]

Restart ==
  /\ Change
  /\ search' = [j \in Searches |-> Interrupted(search[j])]
  /\ request' = [d \in Requests |-> IF request[d].at = "free" THEN NoRequest ELSE Done]
  /\ lost' = [w \in Rows |-> lost[w] + IF \E d \in Requests : request[d].at = "submitted" /\ request[d].row = w
                                      THEN 1 ELSE 0]
  /\ \E now \in Shipped : Resync(now)
  /\ reading' = [r \in Releases |-> None]
  /\ UNCHANGED <<release, title, configured, result, sent>>

-----------------------------------------------------------------------------

SearchStep(j) ==
  SetUp(j) \/ Finish(j) \/ \E x \in Indexers, found \in SUBSET Releases : Answer(j, x, found)

Next ==
  \/ \E j \in Searches : \/ \E t \in Titles, p \in Profiles \cup {None} : Start(j, t, p)
                         \/ SearchStep(j) \/ SearchFails(j) \/ Cancel(j)
  \/ \E d \in Requests : \/ \E w \in Rows, c \in Clients : Prepare(d, w, c)
                         \/ Submit(d) \/ SubmitFails(d) \/ Select(d) \/ SelectFails(d)
  \/ ChangeSettings
  \/ \E r \in Releases : Register(r) \/ Incoming(r)
  \/ \E t \in Titles : Discover(t)
  \/ \E x \in Indexers : DeleteIndexer(x)
  \/ \E w \in Rows : TimePasses(w)
  \/ Restart

Spec == Init /\ [][Next]_vars

-----------------------------------------------------------------------------
(* Properties                                                              *)

TypeOK ==
  /\ STypeOK
  /\ title \in [Titles -> {"absent", "found", "acquired"}] /\ configured \subseteq Indexers
  /\ search \in [Searches -> Search] /\ result \in [Rows -> Result]
  /\ request \in [Requests -> Request]
  /\ sent \in [Rows -> Nat] /\ lost \in [Rows -> Nat]

\* Every result of a search is judged by the settings it began with, those of a slow indexer too, and
\* its evidence is never rewritten: two results of one search can be compared.
OnePolicy ==
  \A w \in Rows : result[w].state # "none" =>
    LET policy == search[w[1]].policy IN
    /\ result[w].score = policy.score[w[2]]
    /\ result[w].allowed = (w[2] \in policy.allowed)
    /\ result[w].profile = policy.profile

\* Each torrent that was submitted is the one of the row's selection, is about to be, or its selection
\* was not committed: no row is submitted twice unless a commit or an answer was lost in between.
SubmissionsAccounted ==
  \A w \in Rows :
    sent[w] = lost[w] + IF \/ result[w].state = "selected"
                           \/ \E d \in Requests : request[d].at = "submitted" /\ request[d].row = w
                        THEN 1 ELSE 0

\* A title that a download brought into the library has a selected result whose torrent is out.
AcquiredHasTorrent ==
  \A t \in Titles : title[t] = "acquired" =>
    \E w \in Rows : result[w].state = "selected" /\ TitleOfRow(w) = t /\ sent[w] > lost[w]

\* A result's evidence is not rewritten once it is judged, and a selected result stays.
SelectedStays ==
  [][\A w \in Rows :
       /\ result[w].state = "selected" => result'[w].state = "selected" /\ result'[w].client = result[w].client
       /\ result[w].state # "none" /\ result'[w].state # "none" =>
            /\ result'[w].score = result[w].score /\ result'[w].allowed = result[w].allowed
            /\ result'[w].profile = result[w].profile]_vars

=============================================================================

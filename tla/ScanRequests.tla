---------------------------- MODULE ScanRequests ----------------------------
(***************************************************************************)
(* Who asks for a scan of a storage root, and who waits for it.  A request *)
(* looks for a live scan Job of the root, creates one if there is none,    *)
(* commits and launches it, each in a step of its own; scans of one root   *)
(* queue behind an asyncio lock; a finished scan may leave a Plex Job to   *)
(* follow it; a recheck of a Problem asks like the others and then waits   *)
(* for its Jobs and for what follows them.                                 *)
(*                                                                         *)
(* What a worker does between its commits, and how a cancel request races  *)
(* it, is in JobLifecycle: here a cancel is one step that writes CANCELLED *)
(* and asks the task to stop.                                              *)
(***************************************************************************)
EXTENDS Naturals

CONSTANTS
  Root,
  Scanner,     \* POST /storage-roots/{id}/scan requests
  Sweeper,     \* POST /reconciliation/run requests
  Recheck,     \* problem_recheck parent Jobs
  MaxJob,      \* bound: scan and Plex Jobs ever created
  MaxCancels,  \* bound: cancel requests accepted
  MaxRestarts  \* bound: restarts of the process

Asker == Scanner \cup Sweeper \cup Recheck
Job == 1..MaxJob
None == 0

ASSUME RootAssumption == Root # {}
ASSUME AskerAssumption ==
  Scanner \cap Sweeper = {} /\ Scanner \cap Recheck = {} /\ Sweeper \cap Recheck = {}
ASSUME BoundAssumption ==
  MaxJob \in Nat /\ MaxCancels \in Nat /\ MaxRestarts \in Nat

VARIABLES
  root,      \* root[r]: "enabled", "disabled" or "deleted"
  scanned,   \* roots whose first scan succeeded (last_scan_at)
  job,       \* the Job rows of scans and Plex checks
  task,      \* task[j]: the asyncio task of row j
  stop,      \* Jobs on whose task cancel() was called
  asker,     \* asker[q]: a request, or the worker of a recheck
  cancels,
  restarts

vars == <<root, scanned, job, task, stop, asker, cancels, restarts>>

Live     == {"queued", "running"}
Terminal == {"completed", "failed", "cancelled", "interrupted"}

Row == [kind : {"scan", "plex"}, root : Root,
        status : Live \cup Terminal \cup {"absent"}, next : Job \cup {None}]

(* "waiting": for the root lock.  "loaded": has the lock and a QUEUED row. *)
Task == {"none", "waiting", "loaded", "running", "done"}
Holding == {"loaded", "running"}

(* todo: roots to look at.  new: roots to create a Job for.  launch: its   *)
(* Jobs still to launch.  Of a recheck, asked: the enabled roots it looked *)
(* at; seen, wait: the Jobs it follows and those it still awaits; failed:  *)
(* one of them did not complete.                                           *)
AskerState ==
  [pc : {"new", "checking", "launching", "waiting", "answered",
         "completed", "failed", "interrupted"},
   todo : SUBSET Root, new : SUBSET Root, asked : SUBSET Root,
   launch : SUBSET Job, seen : SUBSET Job, wait : SUBSET Job, failed : BOOLEAN]

TypeOK ==
  /\ root \in [Root -> {"enabled", "disabled", "deleted"}]
  /\ scanned \subseteq Root
  /\ job \in [Job -> Row]
  /\ task \in [Job -> Task]
  /\ stop \subseteq Job
  /\ asker \in [Asker -> AskerState]
  /\ cancels \in 0..MaxCancels
  /\ restarts \in 0..MaxRestarts

Over(pc) ==
  [pc |-> pc, todo |-> {}, new |-> {}, asked |-> {}, launch |-> {}, seen |-> {},
   wait |-> {}, failed |-> FALSE]

Init ==
  /\ root = [r \in Root |-> "enabled"]
  /\ scanned \in SUBSET Root
  /\ job \in [Job -> [kind : {"scan"}, root : {CHOOSE r \in Root : TRUE},
                      status : {"absent"}, next : {None}]]
  /\ task = [j \in Job |-> "none"]
  /\ stop = {}
  /\ asker = [q \in Asker |-> Over("new")]
  /\ cancels = 0
  /\ restarts = 0

Unused == {j \in Job : job[j].status = "absent"}
Enabled == {r \in Root : root[r] = "enabled"}
LiveScans(r) ==
  {j \in Job : job[j].kind = "scan" /\ job[j].root = r /\ job[j].status \in Live}

(* storage_root_scan_running *)
Locked(r) ==
  \E j \in Job : job[j].kind = "scan" /\ job[j].root = r /\ task[j] \in Holding

-----------------------------------------------------------------------------
(* Asking                                                                  *)

(* One enabled root; one or all enabled roots that were scanned before;    *)
(* the roots of the media a Problem is about.                              *)
Wanted(q) ==
  IF q \in Scanner THEN {{r} : r \in Enabled}
  ELSE IF q \in Sweeper
    THEN {Enabled \cap scanned} \cup {{r} \cap scanned : r \in Enabled}
  ELSE SUBSET Root

(* The record of q becomes a. *)
Becomes(q, a) == asker' = [asker EXCEPT ![q] = a]

Ask(q) ==
  /\ asker[q].pc = "new"
  /\ \E R \in Wanted(q) :
       Becomes(q, [asker[q] EXCEPT !.pc = "checking", !.todo = R])
  /\ UNCHANGED <<root, scanned, job, task, stop, cancels, restarts>>

(* /reconciliation/run leaves a root alone while its lock is held; the     *)
(* other two queue behind the lock.                                        *)
SkipsAnyLocked(q, r) == LiveScans(r) = {} /\ Locked(r)

Skips(q, r) == q \in Sweeper /\ LiveScans(r) = {} /\ Locked(r)

(* A recheck also remembers what it has to follow. *)
Remember(q, S) == IF q \in Recheck THEN S ELSE {}

PassOver(q, r) ==
  /\ Skips(q, r) \/ (q \in Recheck /\ root[r] # "enabled")
  /\ Becomes(q, [asker[q] EXCEPT
       !.todo = @ \ {r}, !.asked = @ \cup Remember(q, {r} \cap Enabled)])

(* Follow the newest live scan of r, or plan one. *)
Plan(q, r) ==
  /\ ~Skips(q, r)
  /\ q \in Recheck => root[r] = "enabled"
  /\ \/ /\ LiveScans(r) = {}
        /\ Becomes(q, [asker[q] EXCEPT
             !.todo = @ \ {r}, !.asked = @ \cup Remember(q, {r}), !.new = @ \cup {r}])
     \/ \E j \in LiveScans(r) :
          /\ \A i \in LiveScans(r) : i <= j
          /\ Becomes(q, [asker[q] EXCEPT
               !.todo = @ \ {r}, !.asked = @ \cup Remember(q, {r}),
               !.seen = @ \cup Remember(q, {j})])

Check(q, r) ==
  /\ asker[q].pc = "checking"
  /\ r \in asker[q].todo
  /\ PassOver(q, r) \/ Plan(q, r)
  /\ UNCHANGED <<root, scanned, job, task, stop, cancels, restarts>>

(* A recheck that fails before it has created anything. *)
RecheckFails(q) ==
  /\ q \in Recheck
  /\ asker[q].pc = "checking"
  /\ Becomes(q, Over("failed"))
  /\ UNCHANGED <<root, scanned, job, task, stop, cancels, restarts>>

After(q) == IF q \in Recheck THEN "waiting" ELSE "answered"

(* The planned rows appear together, with the lowest unused ids. *)
Commit(q) ==
  /\ asker[q].pc = "checking"
  /\ asker[q].todo = {}
  /\ \E id \in [asker[q].new -> Unused] :
       LET ids == {id[r] : r \in asker[q].new}
       IN  /\ \A r, s \in asker[q].new : id[r] = id[s] => r = s
           /\ \A i \in Unused \ ids, j \in ids : j < i
           /\ job' = [j \in Job |->
                IF j \in ids
                THEN [kind |-> "scan", root |-> CHOOSE r \in asker[q].new : id[r] = j,
                      status |-> "queued", next |-> None]
                ELSE job[j]]
           /\ Becomes(q, [asker[q] EXCEPT
                !.pc = IF ids = {} THEN After(q) ELSE "launching",
                !.new = {}, !.launch = ids,
                !.seen = @ \cup Remember(q, ids),
                !.wait = Remember(q, asker[q].seen \cup ids)])
  /\ UNCHANGED <<root, scanned, task, stop, cancels, restarts>>

Launch(q, j) ==
  /\ asker[q].pc = "launching"
  /\ j \in asker[q].launch
  /\ task' = [task EXCEPT ![j] = "waiting"]
  /\ Becomes(q, [asker[q] EXCEPT
       !.launch = @ \ {j},
       !.pc = IF asker[q].launch = {j} THEN After(q) ELSE "launching"])
  /\ UNCHANGED <<root, scanned, job, stop, cancels, restarts>>

-----------------------------------------------------------------------------
(* A scan (run_storage_root_scan), with the lock of its root               *)

(* The lock of the root lets one scan in. *)
LockFree(r) == ~Locked(r)

(* With the lock it loads its row and root, and returns if the row has     *)
(* ended or the root is gone.                                              *)
Acquire(j) ==
  /\ job[j].kind = "scan"
  /\ task[j] = "waiting"
  /\ j \notin stop
  /\ LockFree(job[j].root)
  /\ task' = [task EXCEPT ![j] =
       IF job[j].status \in Terminal \/ root[job[j].root] = "deleted"
       THEN "done" ELSE "loaded"]
  /\ UNCHANGED <<root, scanned, job, stop, asker, cancels, restarts>>

(* The RUNNING commit; one in flight when the task is stopped lands.  *)
Begin(j) ==
  /\ task[j] = "loaded"
  /\ job' = [job EXCEPT ![j].status = "running"]
  /\ task' = [task EXCEPT ![j] = IF j \in stop THEN "done" ELSE "running"]
  /\ UNCHANGED <<root, scanned, stop, asker, cancels, restarts>>

SeesCancel(j) ==
  /\ task[j] = "running"
  /\ job[j].status = "cancelled"
  /\ task' = [task EXCEPT ![j] = "done"]
  /\ UNCHANGED <<root, scanned, job, stop, asker, cancels, restarts>>

(* COMPLETED, with the id of the Plex Job it created, in one transaction.  *)
(* A stopped task does not get to launch that Job.                         *)
Finish(j) ==
  /\ task[j] = "running"
  /\ root[job[j].root] # "deleted"
  /\ scanned' = scanned \cup {job[j].root}
  /\ \/ /\ job' = [job EXCEPT ![j].status = "completed"]
        /\ task' = [task EXCEPT ![j] = "done"]
     \/ \E k \in Unused :
          /\ \A i \in Unused : k <= i
          /\ job' = [job EXCEPT
               ![j].status = "completed", ![j].next = k,
               ![k] = [kind |-> "plex", root |-> job[j].root,
                       status |-> "queued", next |-> None]]
          /\ task' = [task EXCEPT ![j] = "done",
                                  ![k] = IF j \in stop THEN "done" ELSE "waiting"]
  /\ UNCHANGED <<root, stop, asker, cancels, restarts>>

(* An exception gives way to CANCELLED; a root that is not mounted fails   *)
(* the Job without a second look at its row.                               *)
Fail(j) ==
  /\ task[j] = "running"
  /\ j \notin stop
  /\ \E end \in {"failed"} \cup ({job[j].status} \cap {"cancelled"}) :
       job' = [job EXCEPT ![j].status = end]
  /\ task' = [task EXCEPT ![j] = "done"]
  /\ UNCHANGED <<root, scanned, stop, asker, cancels, restarts>>

(* CancelledError at the await the task is in. *)
Stop(j) ==
  /\ j \in stop
  /\ task[j] \in {"waiting"} \cup Holding
  /\ task' = [task EXCEPT ![j] = "done"]
  /\ UNCHANGED <<root, scanned, job, stop, asker, cancels, restarts>>

(* run_plex_library_sync, as far as others see it: it ends, or its commit  *)
(* in flight lands over the CANCELLED of a task that was stopped.          *)
PlexEnds(j) ==
  /\ job[j].kind = "plex"
  /\ task[j] = "waiting"
  /\ \E end \in {"completed", "failed"} \cup {"running" : i \in stop \cap {j}} :
       job' = [job EXCEPT ![j].status = end]
  /\ task' = [task EXCEPT ![j] = "done"]
  /\ UNCHANGED <<root, scanned, stop, asker, cancels, restarts>>

-----------------------------------------------------------------------------
(* The wait of a recheck, which looks at its Jobs every quarter of a second*)

(* A Job that ended in whatever way is no longer waited for. *)
EndedByItself(j) == job[j].status \in {"completed", "failed"}

Ended(j) == job[j].status \in Terminal

(* followup_job_ids: what has to end as well. *)
FollowsNone(j) == {}

Follows(j) == {job[j].next} \ {None}

Settle(q, j) ==
  /\ asker[q].pc = "waiting"
  /\ j \in asker[q].wait
  /\ Ended(j)
  /\ Becomes(q, [asker[q] EXCEPT
       !.wait = (@ \ {j}) \cup (Follows(j) \ asker[q].seen),
       !.seen = @ \cup Follows(j),
       !.failed = @ \/ job[j].status # "completed"])
  /\ UNCHANGED <<root, scanned, job, task, stop, cancels, restarts>>

(* A client or a service that did not answer makes it FAILED as well. *)
Conclude(q) ==
  /\ asker[q].pc = "waiting"
  /\ asker[q].wait = {}
  /\ \E end \in {"completed", "failed"} :
       /\ asker[q].failed => end = "failed"
       /\ Becomes(q, [asker[q] EXCEPT !.pc = end])
  /\ UNCHANGED <<root, scanned, job, task, stop, cancels, restarts>>

-----------------------------------------------------------------------------
(* Administrators and the end of the process                               *)

ToggleRoot(r) ==
  /\ root[r] # "deleted"
  /\ root' = [root EXCEPT ![r] = IF @ = "enabled" THEN "disabled" ELSE "enabled"]
  /\ UNCHANGED <<scanned, job, task, stop, asker, cancels, restarts>>

DeleteRoot(r) ==
  /\ root[r] # "deleted"
  /\ root' = [root EXCEPT ![r] = "deleted"]
  /\ UNCHANGED <<scanned, job, task, stop, asker, cancels, restarts>>

(* The row, and the task if it runs already. *)
Cancel(j) ==
  /\ cancels < MaxCancels
  /\ cancels' = cancels + 1
  /\ job[j].status \in Live
  /\ job' = [job EXCEPT ![j].status = "cancelled"]
  /\ stop' = IF task[j] \in {"none", "done"} THEN stop ELSE stop \cup {j}
  /\ UNCHANGED <<root, scanned, task, asker, restarts>>

(* QUEUED rows lose their task as well. *)
InterruptedRunning(j) == job[j].status = "running"

Interrupted(j) == job[j].status \in Live

Restart ==
  /\ restarts < MaxRestarts
  /\ restarts' = restarts + 1
  /\ job' = [j \in Job |-> IF Interrupted(j)
                           THEN [job[j] EXCEPT !.status = "interrupted"] ELSE job[j]]
  /\ task' = [j \in Job |-> IF task[j] = "none" THEN "none" ELSE "done"]
  /\ asker' = [q \in Asker |->
       IF asker[q].pc \in {"checking", "launching", "waiting"}
       THEN Over("interrupted") ELSE asker[q]]
  /\ UNCHANGED <<root, scanned, stop, cancels>>

-----------------------------------------------------------------------------
TaskStep(j) ==
  Acquire(j) \/ Begin(j) \/ SeesCancel(j) \/ Finish(j) \/ Fail(j) \/ Stop(j) \/ PlexEnds(j)

AskerStep(q) ==
  \/ \E r \in Root : Check(q, r)
  \/ RecheckFails(q) \/ Commit(q) \/ Conclude(q)
  \/ \E j \in Job : Launch(q, j) \/ Settle(q, j)

Next ==
  \/ \E q \in Asker : Ask(q) \/ AskerStep(q)
  \/ \E j \in Job : TaskStep(j) \/ Cancel(j)
  \/ \E r \in Root : ToggleRoot(r) \/ DeleteRoot(r)
  \/ Restart

Spec == Init /\ [][Next]_vars

(* The event loop runs what is ready, and scans and Plex checks end.  *)
FairSpec ==
  /\ Spec
  /\ \A q \in Asker : WF_vars(AskerStep(q))
  /\ \A j \in Job : WF_vars(TaskStep(j))

-----------------------------------------------------------------------------
(* Properties                                                              *)

(* A QUEUED or RUNNING row that nobody works on would answer every later   *)
(* scan request of its root.  There is none, unless its root was deleted   *)
(* or a cancel caught the task of it, or of the scan it follows, in the    *)
(* middle of a COMMIT.                                                     *)
Attended(j) ==
  \/ task[j] \in {"waiting"} \cup Holding
  \/ \E q \in Asker : asker[q].pc = "launching" /\ j \in asker[q].launch
Excused(j) ==
  \/ root[job[j].root] = "deleted"
  \/ j \in stop
  \/ \E i \in stop : job[i].next = j
LiveRowIsAttended == \A j \in Job : job[j].status \in Live => Attended(j) \/ Excused(j)

(* "so Plex presence/episode evidence is settled before the button reports *)
(* completion" (library_scan.py): when a recheck says COMPLETED, the scans *)
(* it followed and every Plex check that followed them have COMPLETED.     *)
EvidenceIsSettled ==
  \A q \in Recheck : asker[q].pc = "completed" =>
    \A j \in asker[q].seen :
      /\ job[j].status = "completed"
      /\ \A k \in Job : job[k].kind = "plex" /\ job[j].next = k => k \in asker[q].seen

(* "a recheck can never silently claim success without examining the root" *)
(* (problems.py): each root that was enabled when the recheck looked at it *)
(* has a scan among those the recheck followed to their COMPLETED.         *)
RecheckExaminesRoots ==
  \A q \in Recheck : asker[q].pc = "completed" =>
    \A r \in asker[q].asked :
      \E j \in asker[q].seen :
        job[j].kind = "scan" /\ job[j].root = r /\ job[j].status = "completed"

(* What a recheck may claim when it says COMPLETED. *)
RecheckIsHonest == EvidenceIsSettled /\ RecheckExaminesRoots

(* A recheck cannot be cancelled, so it must end by itself: it does, unless*)
(* it waits for a row that nobody attends any more.                        *)
RecheckEnds ==
  \A q \in Recheck :
    asker[q].pc = "checking" ~>
      \/ asker[q].pc \in {"completed", "failed", "interrupted"}
      \/ \E j \in asker[q].wait : job[j].status \in Live /\ ~Attended(j)

(* The inductive invariant behind the four safety properties.  What a row  *)
(* says of its task: nobody works on an absent row, a COMPLETED one, or one*)
(* that has a follow-up.                                                   *)
RowFitsTask ==
  \A j \in Job :
    /\ job[j].status = "absent" => task[j] = "none"
    /\ job[j].status = "completed" => task[j] = "done"
    /\ job[j].next # None => /\ task[j] = "done"
                             /\ job[job[j].next].status # "absent"
    /\ task[j] \in Holding => job[j].kind = "scan"

(* Each Job is launched once, by the asker that created it. *)
LaunchedOnce ==
  /\ \A q \in Asker : \A j \in asker[q].launch :
       task[j] = "none" /\ job[j].status # "absent"
  /\ \A p, q \in Asker : p # q => asker[p].launch \cap asker[q].launch = {}

(* What a recheck has stopped waiting for completed, and what follows it is*)
(* followed, or the recheck knows that something failed.                   *)
SettledSoFar ==
  \A q \in Recheck :
    /\ \A j \in asker[q].seen : job[j].status # "absent"
    /\ asker[q].pc = "launching" => asker[q].seen \subseteq asker[q].wait
    /\ asker[q].pc = "completed" => asker[q].wait = {} /\ ~asker[q].failed
    /\ asker[q].pc \in {"waiting", "completed"} /\ ~asker[q].failed =>
         \A j \in asker[q].seen \ asker[q].wait :
           job[j].status = "completed" /\ Follows(j) \subseteq asker[q].seen

(* Every enabled root it looked at has a scan it follows or is to create. *)
ExaminedSoFar ==
  \A q \in Recheck :
    /\ asker[q].pc # "checking" => asker[q].new = {}
    /\ \A r \in asker[q].asked \ asker[q].new :
         \E j \in asker[q].seen : job[j].kind = "scan" /\ job[j].root = r

IndInv ==
  /\ TypeOK /\ RowFitsTask /\ LaunchedOnce /\ SettledSoFar /\ ExaminedSoFar
  /\ LiveRowIsAttended

=============================================================================

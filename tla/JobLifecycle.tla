---------------------------- MODULE JobLifecycle ----------------------------
(***************************************************************************)
(* The life of a persisted Job row: created by a request handler, executed *)
(* by an asyncio worker that keeps its own copy of the row in its database *)
(* session, cancelled by another request through another session, and      *)
(* interrupted by a restart of the process.                                *)
(*                                                                         *)
(* One step is what happens between two awaits of one coroutine, or one    *)
(* committed transaction.  update_job flushes and its callers commit right *)
(* after, so a write is one step at the instant of its COMMIT; no session  *)
(* locks the row when it reads, and no version column guards the UPDATE,   *)
(* so a write never depends on the status it overwrites.                   *)
(***************************************************************************)
EXTENDS Naturals

CONSTANTS
  Sweep,        \* Jobs that loop over items and refresh the row before each
                \* (storage scan, bulk action, poll of all clients, Plex sync)
  Single,       \* Jobs of one indivisible item, the row never re-read
                \* (poll of one client, archive retry, duplicate resolution)
  Search,       \* interactive searches: not in the task registry
  Cancellable,  \* Jobs created with cancellable=True
  Request,      \* cancel requests
  MaxItems,     \* bound: items of a Sweep or indexers of a Search
  MaxRestarts   \* bound: restarts of the process

Job == Sweep \cup Single \cup Search

ASSUME KindAssumption ==
  /\ Sweep \cap Single = {} /\ Sweep \cap Search = {} /\ Single \cap Search = {}
  /\ Cancellable \subseteq Job
ASSUME BoundAssumption == MaxItems \in Nat /\ MaxRestarts \in Nat

VARIABLES
  row,       \* row[j]: the committed Job.status
  worker,    \* worker[j]: phase of the worker, items done and to do
  stop,      \* Jobs on whose asyncio task cancel() was called
  request,   \* request[r]: phase of the cancel request, its Job, the status read
  overrun,   \* observer: items the worker of j finished on a CANCELLED row
  restarts   \* restarts so far

vars == <<row, worker, stop, request, overrun, restarts>>

Live     == {"queued", "running"}
Terminal == {"completed", "failed", "cancelled", "interrupted"}
Status   == Live \cup Terminal \cup {"absent"}

(***************************************************************************)
(* Worker phases.  "submitted": the row is committed, the task not yet     *)
(* created.  "task": created, row not loaded.  "setup": loaded, RUNNING    *)
(* not written.  "idle": between items.  "item": in one.  "closing" and    *)
(* "failing": about to write COMPLETED or FAILED.  "abandoned": returned   *)
(* without touching the row because its subject is gone.                   *)
(***************************************************************************)
Active  == {"task", "setup", "idle", "item", "closing", "failing"}
Stopped == {"none", "abandoned", "done"}
Phase   == Active \cup Stopped \cup {"submitted"}

Worker == [pc : Phase, item : Nat, total : Nat]
CancelRequest == [pc : {"new", "read", "stop", "answered"},
                  job : Job, seen : Status]

TypeOK ==
  /\ row \in [Job -> Status]
  /\ worker \in [Job -> Worker]
  /\ stop \subseteq Job
  /\ request \in [Request -> CancelRequest]
  /\ overrun \in [Job -> Nat]
  /\ restarts \in 0..MaxRestarts

Init ==
  /\ row = [j \in Job |-> "absent"]
  /\ worker = [j \in Job |-> [pc |-> "none", item |-> 0, total |-> 0]]
  /\ stop = {}
  /\ request \in [Request -> [pc : {"new"}, job : Job, seen : {"absent"}]]
  /\ overrun = [j \in Job |-> 0]
  /\ restarts = 0

Goto(j, pc) == worker' = [worker EXCEPT ![j].pc = pc]
Write(j, status) == row' = [row EXCEPT ![j] = status]

(* Where a worker goes after a COMMIT that was in flight when its task was *)
(* cancelled: the write landed, the next await raises CancelledError.      *)
AfterCommit(j, pc) == IF j \in stop THEN "done" ELSE pc

-----------------------------------------------------------------------------
(* Creation                                                                *)

Submit(j) ==
  /\ row[j] = "absent"
  /\ Write(j, "queued")
  /\ Goto(j, "submitted")
  /\ UNCHANGED <<stop, request, overrun, restarts>>

Launch(j) ==
  /\ worker[j].pc = "submitted"
  /\ Goto(j, "task")
  /\ UNCHANGED <<row, stop, request, overrun, restarts>>

-----------------------------------------------------------------------------
(* The worker                                                              *)

(* run_job and the scans ignore a terminal row; a search starts only when  *)
(* the row is still QUEUED.                                                *)
MayRun(j) == IF j \in Search THEN row[j] = "queued" ELSE row[j] \notin Terminal

Load(j) ==
  /\ worker[j].pc = "task"
  /\ j \notin stop
  /\ Goto(j, IF MayRun(j) THEN "setup" ELSE "done")
  /\ UNCHANGED <<row, stop, request, overrun, restarts>>

(* The storage root or client was deleted, or the search has no usable     *)
(* profile: the worker returns (or raises outside every handler) and the   *)
(* row keeps its status.                                                   *)
Abandon(j) ==
  /\ worker[j].pc = "setup"
  /\ j \notin stop
  /\ Goto(j, "abandoned")
  /\ UNCHANGED <<row, stop, request, overrun, restarts>>

Begin(j) ==
  /\ worker[j].pc = "setup"
  /\ \E n \in IF j \in Single THEN {1} ELSE 0..MaxItems :
       worker' = [worker EXCEPT ![j] = [pc |-> AfterCommit(j, "idle"),
                                        item |-> 0, total |-> n]]
  /\ Write(j, "running")
  /\ UNCHANGED <<stop, request, overrun, restarts>>

(* Before each item a Sweep refreshes its copy and a Search re-reads the   *)
(* row in a new session; a Single does neither.                            *)
SeesCancelNever(j) == FALSE

SeesCancel(j) == j \notin Single /\ row[j] = "cancelled"

Check(j) ==
  /\ worker[j].pc = "idle"
  /\ worker[j].item < worker[j].total
  /\ j \notin stop
  /\ Goto(j, IF SeesCancel(j) THEN "done" ELSE "item")
  /\ UNCHANGED <<row, stop, request, overrun, restarts>>

(* The item's work and its progress commit, which writes progress and      *)
(* summary and leaves the status column alone.                             *)
Checkpoint(j) ==
  /\ worker[j].pc = "item"
  /\ worker' = [worker EXCEPT ![j].pc = AfterCommit(j, "idle"),
                              ![j].item = @ + 1]
  /\ overrun' = [overrun EXCEPT ![j] = IF row[j] = "cancelled" THEN @ + 1 ELSE @]
  /\ UNCHANGED <<row, stop, request, restarts>>

(* All items done.  Only a search that had indexers looks at the row again.*)
Close(j) ==
  /\ worker[j].pc = "idle"
  /\ worker[j].item = worker[j].total
  /\ j \notin stop
  /\ Goto(j, IF j \in Search /\ worker[j].total > 0 /\ SeesCancel(j)
             THEN "done" ELSE "closing")
  /\ UNCHANGED <<row, stop, request, overrun, restarts>>

Complete(j) ==
  /\ worker[j].pc = "closing"
  /\ Write(j, "completed")
  /\ Goto(j, "done")
  /\ UNCHANGED <<stop, request, overrun, restarts>>

(* An exception in the worker: roll back, re-read, give way to CANCELLED   *)
(* and INTERRUPTED.  A search catches exceptions of its result loop only.  *)
Raise(j) ==
  /\ worker[j].pc \in IF j \in Search THEN {"item"} ELSE {"setup", "idle", "item"}
  /\ j \notin stop
  /\ Goto(j, IF row[j] \in {"cancelled", "interrupted"} THEN "done" ELSE "failing")
  /\ UNCHANGED <<row, stop, request, overrun, restarts>>

(* The storage root turns out not to be there, or Plex does not answer: the*)
(* Job fails with no second look at the row.                               *)
Unreachable(j) ==
  /\ j \in Sweep
  /\ worker[j].pc = "idle"
  /\ worker[j].item = 0
  /\ j \notin stop
  /\ Goto(j, "failing")
  /\ UNCHANGED <<row, stop, request, overrun, restarts>>

FailSilently(j) ==
  /\ worker[j].pc = "failing"
  /\ Goto(j, "done")
  /\ UNCHANGED <<row, stop, request, overrun, restarts>>

Fail(j) ==
  /\ worker[j].pc = "failing"
  /\ Write(j, "failed")
  /\ Goto(j, "done")
  /\ UNCHANGED <<stop, request, overrun, restarts>>

(* CancelledError at the await the worker is in; no handler writes. *)
Abort(j) ==
  /\ worker[j].pc \in Active
  /\ j \in stop
  /\ Goto(j, "done")
  /\ UNCHANGED <<row, stop, request, overrun, restarts>>

-----------------------------------------------------------------------------
(* POST /jobs/{id}/cancel                                                  *)

CancelRead(r) ==
  /\ request[r].pc = "new"
  /\ row[request[r].job] # "absent"
  /\ request' = [request EXCEPT ![r].pc = "read", ![r].seen = row[request[r].job]]
  /\ UNCHANGED <<row, worker, stop, overrun, restarts>>

(* cancel_job decides on the copy the request read. *)
AcceptsAnyLive(r) == request[r].seen \in Live

Accepts(r) == request[r].job \in Cancellable /\ request[r].seen \in Live

CancelWrite(r) ==
  /\ request[r].pc = "read"
  /\ \/ /\ Accepts(r)
        /\ Write(request[r].job, "cancelled")
        /\ request' = [request EXCEPT ![r].pc = "stop"]
     \/ /\ ~Accepts(r)
        /\ request' = [request EXCEPT ![r].pc = "answered"]
        /\ UNCHANGED row
  /\ UNCHANGED <<worker, stop, overrun, restarts>>

(* The runtime registry knows the live tasks of launch_runtime_job; a      *)
(* search runs as a background task of the request that created it.        *)
RegisteredNever(j) == FALSE

Registered(j) == j \notin Search /\ worker[j].pc \in Active

CancelTask(r) ==
  /\ request[r].pc = "stop"
  /\ request' = [request EXCEPT ![r].pc = "answered"]
  /\ stop' = IF Registered(request[r].job) THEN stop \cup {request[r].job} ELSE stop
  /\ UNCHANGED <<row, worker, overrun, restarts>>

-----------------------------------------------------------------------------
(* The process ends: workers, registry and requests are gone.  Bootstrap   *)
(* marks every QUEUED or RUNNING row INTERRUPTED before serving again.     *)

RestartedRunningOnly == {"running"}

RestartedStatus == {"queued", "running"}

Restart ==
  /\ restarts < MaxRestarts
  /\ restarts' = restarts + 1
  /\ row' = [j \in Job |-> IF row[j] \in RestartedStatus THEN "interrupted" ELSE row[j]]
  /\ worker' = [j \in Job |->
       IF worker[j].pc = "none" THEN worker[j] ELSE [worker[j] EXCEPT !.pc = "done"]]
  /\ request' = [r \in Request |->
       IF request[r].pc = "new" THEN request[r] ELSE [request[r] EXCEPT !.pc = "answered"]]
  /\ stop' = {}
  /\ UNCHANGED overrun

WorkerStep(j) ==
  \/ Launch(j) \/ Load(j) \/ Begin(j) \/ Check(j) \/ Close(j)
  \/ Complete(j) \/ Fail(j) \/ Abort(j)

Next ==
  \/ \E j \in Job :
       \/ Submit(j) \/ WorkerStep(j) \/ Checkpoint(j)
       \/ Abandon(j) \/ Raise(j) \/ Unreachable(j)
  \/ \E r \in Request : CancelRead(r) \/ CancelWrite(r) \/ CancelTask(r)
  \/ Restart

Spec == Init /\ [][Next]_vars

(***************************************************************************)
(* The event loop keeps scheduling coroutines that are ready, so every     *)
(* worker step and both halves of a cancel request are weakly fair.  An    *)
(* item may hang in a remote call for ever: Checkpoint is not fair.        *)
(***************************************************************************)
FairSpec ==
  /\ Spec
  /\ \A j \in Job : WF_vars(WorkerStep(j))
  /\ \A r \in Request : WF_vars(CancelWrite(r)) /\ WF_vars(CancelTask(r))

-----------------------------------------------------------------------------
(* Properties                                                              *)

(* The inductive invariant behind the properties.  What each phase of a    *)
(* worker knows about its row: only a cancel can have changed it since.    *)
Cancel(j) == IF j \in Cancellable THEN {"cancelled"} ELSE {}

RowFitsPhase ==
  \A j \in Job :
    /\ worker[j].pc = "none" <=> row[j] = "absent"
    /\ worker[j].pc \in {"submitted", "task", "setup"} => row[j] \in {"queued"} \cup Cancel(j)
    /\ worker[j].pc \in {"idle", "item", "closing"} => row[j] \in {"running"} \cup Cancel(j)
    /\ worker[j].pc = "failing" => row[j] \in Live \cup Cancel(j)
    /\ j \notin Cancellable => /\ row[j] # "cancelled"
                              /\ j \notin stop
                              /\ (worker[j].pc = "done" => row[j] \notin Live)

(* No cancel request is in flight for a row it may not overwrite. *)
RequestFitsRow ==
  \A r \in Request :
    /\ request[r].pc = "read" /\ request[r].seen \in Live
         => row[request[r].job] \notin {"absent", "interrupted"}
    /\ request[r].pc = "stop" => request[r].job \in Cancellable

(* The one item that may be finished on a cancelled row is the last. *)
OverrunIsLast ==
  \A j \in Job :
    /\ overrun[j] \in {0, 1}
    /\ worker[j].pc \in {"none", "submitted", "task", "setup", "item"} => overrun[j] = 0
    /\ worker[j].pc = "item" => worker[j].item < worker[j].total
    /\ j \in Single /\ worker[j].pc \in {"idle", "item"} => worker[j].total = 1
    /\ worker[j].pc = "idle" /\ overrun[j] = 1
         => \/ j \notin Single /\ row[j] = "cancelled"
            \/ worker[j].item = worker[j].total

IndInv == TypeOK /\ RowFitsPhase /\ RequestFitsRow /\ OverrunIsLast

(* A worker finishes at most one item on a row that already says CANCELLED:*)
(* the copy it works from is never more than one item old when it decides  *)
(* to go on (library_scan, bulk, plex_sync, qbittorrent and search loops). *)
CancelStopsWithinOneItem == \A j \in Job : overrun[j] <= 1

(* A Job that cannot be cancelled is never left QUEUED or RUNNING with no  *)
(* code responsible for it, except by a worker that found its subject gone *)
(* and returned: the handlers of run_job, and the restart, cover the rest. *)
UncancellableRowHasWorker ==
  \A j \in Job \ Cancellable :
    row[j] \in Live => worker[j].pc \notin {"none", "done"}

(* Once the cancel endpoint has committed CANCELLED for a Job of the task  *)
(* registry, its worker stops, even one that hangs in a remote call and    *)
(* even one that is only launched after the request.                       *)
CancelStopsHungWorker ==
  \A r \in Request :
    request[r].pc = "stop" /\ request[r].job \notin Search
      ~> worker[request[r].job].pc \in Stopped

(* Every Job that cannot be cancelled ends, if none of its items hangs: its*)
(* row becomes terminal, or its worker abandoned it.                       *)
UncancellableJobEnds ==
  \A j \in Job \ Cancellable :
    []<>(worker[j].pc # "item") =>
      (worker[j].pc = "submitted"
         ~> row[j] \in Terminal \/ worker[j].pc = "abandoned")

(* The rows and workers behave as the job board says: only a cancel, a     *)
(* worker still running and a restart change a status, and each only from  *)
(* the statuses listed there.                                              *)
Board == INSTANCE JobBoard
           WITH status  <- row,
                working <- {j \in Job : worker[j].pc \in Active}

ImplementsBoard == Board!Spec

=============================================================================

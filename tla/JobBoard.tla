------------------------------ MODULE JobBoard ------------------------------
(***************************************************************************)
(* What Medialogue promises about a persisted Job, seen from outside: the  *)
(* committed status of every Job, and the set of Jobs that still have code *)
(* running for them in the current process.                                *)
(*                                                                         *)
(* The board is deliberately honest about cancellation.  A worker that is  *)
(* still running may overwrite CANCELLED, and a cancel request that read   *)
(* the row early may overwrite an outcome; nothing else may be overwritten.*)
(* JobLifecycle implements this specification.                             *)
(***************************************************************************)
CONSTANTS
  Job,          \* identifiers of the Jobs that may be created
  Cancellable   \* those created with cancellable=True

VARIABLES
  status,       \* status[j]: committed Job.status, "absent" before creation
  working       \* Jobs with a worker in the current process

vars == <<status, working>>

Live     == {"queued", "running"}
Outcome  == {"completed", "failed"}
Status   == Live \cup Outcome \cup {"absent", "cancelled", "interrupted"}

(* Statuses a worker of j may still overwrite, besides its own earlier one. *)
Overwritten(j) == IF j \in Cancellable THEN {"cancelled"} ELSE {}

TypeOK ==
  /\ status \in [Job -> Status]
  /\ working \subseteq Job

Init ==
  /\ status = [j \in Job |-> "absent"]
  /\ working = {}

(* A request handler commits a new QUEUED row. *)
Submit(j) ==
  /\ status[j] = "absent"
  /\ status' = [status EXCEPT ![j] = "queued"]
  /\ UNCHANGED working

(* The worker of j is started, whatever happened to the row meanwhile. *)
Engage(j) ==
  /\ status[j] \in {"queued", "cancelled"}
  /\ j \notin working
  /\ working' = working \cup {j}
  /\ UNCHANGED status

(* The worker ends without writing. *)
Retire(j) ==
  /\ j \in working
  /\ working' = working \ {j}
  /\ UNCHANGED status

(* The worker's RUNNING transition; it may be the last thing it does. *)
Start(j) ==
  /\ j \in working
  /\ status[j] \in {"queued"} \cup Overwritten(j)
  /\ status' = [status EXCEPT ![j] = "running"]
  /\ working' \in {working, working \ {j}}

(* The worker's outcome.  A Job can fail before it ever ran, not complete. *)
Finish(j) ==
  /\ j \in working
  /\ \/ /\ status[j] \in {"running"} \cup Overwritten(j)
        /\ status' = [status EXCEPT ![j] = "completed"]
     \/ /\ status[j] \in Live \cup Overwritten(j)
        /\ status' = [status EXCEPT ![j] = "failed"]
  /\ working' = working \ {j}

(* A cancel request takes effect. *)
Cancel(j) ==
  /\ j \in Cancellable
  /\ status[j] \in Live \cup Outcome
  /\ status' = [status EXCEPT ![j] = "cancelled"]
  /\ UNCHANGED working

(* The process ends and starts again. *)
Restart ==
  /\ status' = [j \in Job |-> IF status[j] \in Live THEN "interrupted"
                                                    ELSE status[j]]
  /\ working' = {}

Next ==
  \/ \E j \in Job : \/ Submit(j) \/ Engage(j) \/ Retire(j)
                    \/ Start(j) \/ Finish(j) \/ Cancel(j)
  \/ Restart

Spec == Init /\ [][Next]_vars
=============================================================================

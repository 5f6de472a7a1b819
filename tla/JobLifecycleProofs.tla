------------------------ MODULE JobLifecycleProofs -------------------------
(***************************************************************************)
(* IndInv is an inductive invariant of JobLifecycle; the safety properties *)
(* of the module and the implementation of JobBoard follow from it.        *)
(***************************************************************************)
EXTENDS JobLifecycle, TLAPS

(* The actions of one worker or request, as one case split. *)
JobStep(j) ==
  \/ Submit(j) \/ WorkerStep(j) \/ Checkpoint(j)
  \/ Abandon(j) \/ Raise(j) \/ Unreachable(j)

RequestStep(r) == CancelRead(r) \/ CancelWrite(r) \/ CancelTask(r)

(* In the initial states nothing exists yet, so every part of IndInv holds.*)
LEMMA IndInvInit == Init => IndInv
  BY BoundAssumption
  DEF Init, IndInv, TypeOK, RowFitsPhase, RequestFitsRow, OverrunIsLast,
      Status, Live, Terminal, Worker, Phase, Active, Stopped, CancelRequest, Cancel

(* Every step of a Job's creator or worker keeps the values in their types.*)
LEMMA JobStepType == ASSUME TypeOK, NEW j \in Job, JobStep(j) PROVE TypeOK'
<1> USE DEF TypeOK, Status, Live, Terminal, Worker, Phase, Active, Stopped,
            Goto, Write, AfterCommit
<1>1. CASE Submit(j)      BY <1>1 DEF Submit
<1>2. CASE Launch(j)      BY <1>2 DEF Launch
<1>3. CASE Load(j)        BY <1>3 DEF Load
<1>4. CASE Begin(j)
  <2> PICK n \in (IF j \in Single THEN {1} ELSE 0..MaxItems) :
        worker' = [worker EXCEPT ![j] = [pc |-> AfterCommit(j, "idle"),
                                         item |-> 0, total |-> n]]
    BY <1>4 DEF Begin
  <2>1. n \in Nat  BY BoundAssumption
  <2> QED  BY <1>4, <2>1 DEF Begin
<1>5. CASE Check(j)       BY <1>5 DEF Check
<1>6. CASE Checkpoint(j)  BY <1>6 DEF Checkpoint
<1>7. CASE Close(j)       BY <1>7 DEF Close
<1>8. CASE Complete(j)    BY <1>8 DEF Complete
<1>9. CASE Fail(j)        BY <1>9 DEF Fail
<1>10. CASE Abort(j)      BY <1>10 DEF Abort
<1>11. CASE Abandon(j)    BY <1>11 DEF Abandon
<1>12. CASE Raise(j)      BY <1>12 DEF Raise
<1>13. CASE Unreachable(j) BY <1>13 DEF Unreachable
<1> QED  BY <1>1, <1>2, <1>3, <1>4, <1>5, <1>6, <1>7, <1>8, <1>9, <1>10,
            <1>11, <1>12, <1>13 DEF JobStep, WorkerStep

(* Every step of a Job's worker keeps what each phase knows about the row. *)
LEMMA JobStepRow ==
  ASSUME IndInv, NEW j \in Job, JobStep(j) PROVE RowFitsPhase'
<1> USE DEF IndInv, TypeOK, RowFitsPhase, Cancel, Status, Live, Terminal,
            Worker, Phase, Active, Stopped, Goto, Write, AfterCommit
<1>1. CASE Submit(j)      BY <1>1 DEF Submit
<1>2. CASE Launch(j)      BY <1>2 DEF Launch
<1>3. CASE Load(j)        BY <1>3 DEF Load, MayRun
<1>4. CASE Begin(j)       BY <1>4 DEF Begin
<1>5. CASE Check(j)       BY <1>5 DEF Check, SeesCancel
<1>6. CASE Checkpoint(j)  BY <1>6 DEF Checkpoint
<1>7. CASE Close(j)       BY <1>7 DEF Close, SeesCancel
<1>8. CASE Complete(j)    BY <1>8 DEF Complete
<1>9. CASE Fail(j)        BY <1>9 DEF Fail
<1>10. CASE Abort(j)      BY <1>10 DEF Abort
<1>11. CASE Abandon(j)    BY <1>11 DEF Abandon
<1>12. CASE Raise(j)      BY <1>12 DEF Raise
<1>13. CASE Unreachable(j) BY <1>13 DEF Unreachable
<1> QED  BY <1>1, <1>2, <1>3, <1>4, <1>5, <1>6, <1>7, <1>8, <1>9, <1>10,
            <1>11, <1>12, <1>13 DEF JobStep, WorkerStep

(* A worker never returns its row to "absent" or writes "interrupted", so  *)
(* it never invalidates what a cancel request in flight relies on.         *)
LEMMA JobStepRequest ==
  ASSUME IndInv, NEW j \in Job, JobStep(j) PROVE RequestFitsRow'
<1> USE DEF IndInv, TypeOK, RequestFitsRow, Goto, Write, CancelRequest
<1>1. /\ request' = request
      /\ \/ row' = row
         \/ \E s \in {"queued", "running", "completed", "failed"} :
              row' = [row EXCEPT ![j] = s]
  BY DEF JobStep, WorkerStep, Submit, Launch, Load, Begin, Check, Checkpoint,
         Close, Complete, Fail, Abort, Abandon, Raise, Unreachable
<1> QED  BY <1>1

(* The overrun count only grows on the last item of a worker. *)
LEMMA JobStepOverrun ==
  ASSUME IndInv, NEW j \in Job, JobStep(j) PROVE OverrunIsLast'
<1> USE DEF IndInv, TypeOK, OverrunIsLast, RowFitsPhase, Cancel, Worker, Phase,
            Active, Stopped, Status, Live, Terminal, Goto, Write, AfterCommit
<1>1. CASE Submit(j)      BY <1>1 DEF Submit
<1>2. CASE Launch(j)      BY <1>2 DEF Launch
<1>3. CASE Load(j)        BY <1>3 DEF Load
<1>4. CASE Begin(j)
  <2> PICK n \in (IF j \in Single THEN {1} ELSE 0..MaxItems) :
        worker' = [worker EXCEPT ![j] = [pc |-> AfterCommit(j, "idle"),
                                         item |-> 0, total |-> n]]
    BY <1>4 DEF Begin
  <2> QED  BY <1>4 DEF Begin
<1>5. CASE Check(j)       BY <1>5 DEF Check, SeesCancel
<1>6. CASE Checkpoint(j)  BY <1>6 DEF Checkpoint
<1>7. CASE Close(j)       BY <1>7 DEF Close
<1>8. CASE Complete(j)    BY <1>8 DEF Complete
<1>9. CASE Fail(j)        BY <1>9 DEF Fail
<1>10. CASE Abort(j)      BY <1>10 DEF Abort
<1>11. CASE Abandon(j)    BY <1>11 DEF Abandon
<1>12. CASE Raise(j)      BY <1>12 DEF Raise
<1>13. CASE Unreachable(j) BY <1>13 DEF Unreachable
<1> QED  BY <1>1, <1>2, <1>3, <1>4, <1>5, <1>6, <1>7, <1>8, <1>9, <1>10,
            <1>11, <1>12, <1>13 DEF JobStep, WorkerStep

(* Every step of a cancel request keeps the values in their types. *)
LEMMA RequestStepType ==
  ASSUME TypeOK, NEW r \in Request, RequestStep(r) PROVE TypeOK'
<1> USE DEF TypeOK, CancelRequest
<1>0. request[r].job \in Job  OBVIOUS
<1>1. CASE CancelRead(r)
  <2>1. row[request[r].job] \in Status  BY <1>0
  <2> QED  BY <1>1, <2>1 DEF CancelRead
<1>2. CASE CancelWrite(r)
  <2>1. "cancelled" \in Status  BY DEF Status, Terminal
  <2> QED  BY <1>0, <1>2, <2>1 DEF CancelWrite, Write
<1>3. CASE CancelTask(r)  BY <1>0, <1>3 DEF CancelTask
<1> QED  BY <1>1, <1>2, <1>3 DEF RequestStep

(* A cancel request writes CANCELLED only over a row of a cancellable Job  *)
(* that exists and was not interrupted.                                    *)
LEMMA RequestStepInv ==
  ASSUME IndInv, NEW r \in Request, RequestStep(r) PROVE IndInv'
<1> USE DEF IndInv, TypeOK, RowFitsPhase, RequestFitsRow, OverrunIsLast, Cancel,
            Status, Live, Terminal, Worker, Phase, Active, Stopped,
            CancelRequest, Write
<1>1. CASE CancelRead(r)
  <2>1. TypeOK'          BY RequestStepType
  <2>2. RowFitsPhase'    BY <1>1 DEF CancelRead
  <2>3. RequestFitsRow'  BY <1>1 DEF CancelRead
  <2>4. OverrunIsLast'   BY <1>1 DEF CancelRead
  <2> QED  BY <2>1, <2>2, <2>3, <2>4
<1>2. CASE CancelWrite(r) /\ Accepts(r)
  <2> DEFINE j == request[r].job
  <2>1. /\ j \in Cancellable /\ j \in Job
        /\ row' = [row EXCEPT ![j] = "cancelled"]
        /\ request' = [request EXCEPT ![r].pc = "stop"]
        /\ UNCHANGED <<worker, stop, overrun, restarts>>
        /\ row[j] \notin {"absent", "interrupted"}
    BY <1>2 DEF CancelWrite, Accepts
  <2>2. TypeOK'          BY RequestStepType
  <2>3. RowFitsPhase'    BY <2>1
  <2>4. RequestFitsRow'  BY <2>1
  <2>5. OverrunIsLast'   BY <2>1
  <2> QED  BY <2>2, <2>3, <2>4, <2>5
<1>3. CASE CancelWrite(r) /\ ~Accepts(r)
  <2>1. TypeOK'          BY RequestStepType
  <2>2. RowFitsPhase'    BY <1>3 DEF CancelWrite
  <2>3. RequestFitsRow'  BY <1>3 DEF CancelWrite
  <2>4. OverrunIsLast'   BY <1>3 DEF CancelWrite
  <2> QED  BY <2>1, <2>2, <2>3, <2>4
<1>4. CASE CancelTask(r)
  <2>1. request[r].job \in Cancellable /\ request[r].job \in Job
    BY <1>4 DEF CancelTask
  <2>2. TypeOK'  BY RequestStepType
  <2> QED  BY <1>4, <2>1, <2>2 DEF CancelTask
<1> QED  BY <1>1, <1>2, <1>3, <1>4 DEF RequestStep

(* A restart leaves no worker, no request and no live row behind. *)
LEMMA RestartInv == ASSUME IndInv, Restart PROVE IndInv'
<1> USE DEF IndInv, TypeOK, RowFitsPhase, RequestFitsRow, OverrunIsLast, Cancel,
            Status, Live, Terminal, Worker, Phase, Active, Stopped,
            CancelRequest, Restart, RestartedStatus
<1>1. TypeOK'          BY BoundAssumption
<1>2. RowFitsPhase'    OBVIOUS
<1>3. RequestFitsRow'  OBVIOUS
<1>4. OverrunIsLast'   OBVIOUS
<1> QED  BY <1>1, <1>2, <1>3, <1>4

(* Every step of the specification keeps the invariant. *)
LEMMA IndInvStep == IndInv /\ [Next]_vars => IndInv'
<1> SUFFICES ASSUME IndInv, [Next]_vars PROVE IndInv'
  OBVIOUS
<1>1. ASSUME NEW j \in Job, JobStep(j) PROVE IndInv'
  BY <1>1, JobStepType, JobStepRow, JobStepRequest, JobStepOverrun DEF IndInv
<1>2. ASSUME NEW r \in Request, RequestStep(r) PROVE IndInv'
  BY <1>2, RequestStepInv
<1>3. CASE Restart
  BY <1>3, RestartInv
<1>4. CASE UNCHANGED vars
  BY <1>4 DEF vars, IndInv, TypeOK, RowFitsPhase, RequestFitsRow, OverrunIsLast,
              Cancel
<1> QED  BY <1>1, <1>2, <1>3, <1>4 DEF Next, JobStep, RequestStep

(* The invariant holds in every reachable state, for any number of Jobs,   *)
(* requests, items and restarts.                                           *)
THEOREM Invariance == Spec => []IndInv
  BY IndInvInit, IndInvStep, PTL DEF Spec

(* Every variable keeps its type. *)
THEOREM TypeCorrect == Spec => []TypeOK
<1>1. IndInv => TypeOK  BY DEF IndInv
<1> QED  BY <1>1, Invariance, PTL

(* A cancelled Job's worker finishes at most one more item: the refresh    *)
(* before each item is enough to stop a loop that cancel() cannot reach.   *)
THEOREM OverrunBound == Spec => []CancelStopsWithinOneItem
<1>1. IndInv => CancelStopsWithinOneItem
  BY DEF IndInv, OverrunIsLast, CancelStopsWithinOneItem
<1> QED  BY <1>1, Invariance, PTL

(* A Job that cannot be cancelled never keeps a live row without a worker  *)
(* or a pending launch, unless its worker abandoned it.                    *)
THEOREM NoOrphan == Spec => []UncancellableRowHasWorker
<1>1. IndInv => UncancellableRowHasWorker
  BY DEF IndInv, RowFitsPhase, UncancellableRowHasWorker, Live, Job
<1> QED  BY <1>1, Invariance, PTL

-----------------------------------------------------------------------------
(* JobLifecycle implements JobBoard                                        *)

(* A worker step is the step of the board its phase allows, or a stutter.  *)
LEMMA JobStepRefines ==
  ASSUME IndInv, NEW j \in Job, JobStep(j) PROVE [Board!Next]_Board!vars
<1> USE DEF IndInv, TypeOK, RowFitsPhase, Cancel, Status, Live, Worker, Phase,
            Active, Stopped, Goto, Write, AfterCommit
<1> DEFINE Wk == {k \in Job : worker[k].pc \in Active}
<1>1. CASE Submit(j)
  <2>1. Wk' = Wk  BY <1>1 DEF Submit
  <2> QED  BY <1>1, <2>1 DEF Submit, Board!Next, Board!Submit
<1>2. CASE Launch(j)
  <2>1. Wk' = Wk \cup {j} /\ j \notin Wk  BY <1>2 DEF Launch
  <2> QED  BY <1>2, <2>1 DEF Launch, Board!Next, Board!Engage
<1>3. CASE Begin(j)
  <2>1. Wk' \in {Wk, Wk \ {j}} /\ j \in Wk  BY <1>3 DEF Begin
  <2>2. row[j] \in {"queued"} \cup Board!Overwritten(j)
    BY <1>3 DEF Begin, Board!Overwritten
  <2> QED  BY <1>3, <2>1, <2>2 DEF Begin, Board!Next, Board!Start
<1>4. CASE Complete(j)
  <2>1. Wk' = Wk \ {j} /\ j \in Wk  BY <1>4 DEF Complete
  <2>2. row[j] \in {"running"} \cup Board!Overwritten(j)
    BY <1>4 DEF Complete, Board!Overwritten
  <2> QED  BY <1>4, <2>1, <2>2 DEF Complete, Board!Next, Board!Finish
<1>5. CASE Fail(j)
  <2>1. Wk' = Wk \ {j} /\ j \in Wk  BY <1>5 DEF Fail
  <2>2. row[j] \in Board!Live \cup Board!Overwritten(j)
    BY <1>5 DEF Fail, Board!Overwritten, Board!Live
  <2> QED  BY <1>5, <2>1, <2>2 DEF Fail, Board!Next, Board!Finish
<1>6. CASE Load(j) \/ Check(j) \/ Checkpoint(j) \/ Close(j)
           \/ Abort(j) \/ Abandon(j) \/ Raise(j) \/ Unreachable(j)
  <2>1. Wk' \in {Wk, Wk \ {j}} /\ j \in Wk /\ row' = row
    BY <1>6 DEF Load, Check, Checkpoint, Close, Abort, Abandon, Raise, Unreachable
  <2>2. CASE Wk' = Wk
    BY <2>1, <2>2 DEF Board!vars
  <2>3. CASE Wk' = Wk \ {j}
    BY <2>1, <2>3 DEF Board!Next, Board!Retire
  <2> QED  BY <2>1, <2>2, <2>3
<1> QED  BY <1>1, <1>2, <1>3, <1>4, <1>5, <1>6 DEF JobStep, WorkerStep

(* A cancel request changes a row only as Board!Cancel does. *)
LEMMA RequestStepRefines ==
  ASSUME IndInv, NEW r \in Request, RequestStep(r) PROVE [Board!Next]_Board!vars
<1> USE DEF IndInv, TypeOK, RequestFitsRow, CancelRequest
<1> DEFINE Wk == {k \in Job : worker[k].pc \in Active}
           j  == request[r].job
<1>1. CASE CancelWrite(r) /\ Accepts(r)
  <2>1. /\ j \in Cancellable /\ j \in Job
        /\ row' = [row EXCEPT ![j] = "cancelled"]
        /\ Wk' = Wk
        /\ row[j] \notin {"absent", "interrupted"}
    BY <1>1 DEF CancelWrite, Accepts, Write
  <2>2. CASE row[j] = "cancelled"
    <3>1. row' = row  BY <2>1, <2>2
    <3> QED  BY <2>1, <3>1 DEF Board!vars
  <2>3. CASE row[j] # "cancelled"
    <3>1. row[j] \in Board!Live \cup Board!Outcome
      BY <2>1, <2>3 DEF Status, Live, Terminal, Board!Live, Board!Outcome
    <3> QED  BY <2>1, <3>1 DEF Board!Next, Board!Cancel
  <2> QED  BY <2>2, <2>3
<1>2. CASE CancelRead(r) \/ (CancelWrite(r) /\ ~Accepts(r)) \/ CancelTask(r)
  BY <1>2 DEF CancelRead, CancelWrite, CancelTask, Board!vars
<1> QED  BY <1>1, <1>2 DEF RequestStep

(* A restart interrupts exactly the live rows and leaves nobody working. *)
LEMMA RestartRefines == ASSUME IndInv, Restart PROVE Board!Restart
<1>1. {k \in Job : worker'[k].pc \in Active} = {}
  BY DEF Restart, Active, IndInv, TypeOK, Worker
<1> QED  BY <1>1 DEF Restart, RestartedStatus, Board!Restart, Board!Live

(* Every behaviour of the code's model is one the job board allows. *)
THEOREM Refinement == Spec => ImplementsBoard
<1>1. Init => Board!Init
  BY DEF Init, Board!Init, Active
<1>2. IndInv /\ [Next]_vars => [Board!Next]_Board!vars
  <2> SUFFICES ASSUME IndInv, [Next]_vars PROVE [Board!Next]_Board!vars
    OBVIOUS
  <2>1. ASSUME NEW j \in Job, JobStep(j) PROVE [Board!Next]_Board!vars
    BY <2>1, JobStepRefines
  <2>2. ASSUME NEW r \in Request, RequestStep(r) PROVE [Board!Next]_Board!vars
    BY <2>2, RequestStepRefines
  <2>3. CASE Restart
    BY <2>3, RestartRefines DEF Board!Next
  <2>4. CASE UNCHANGED vars
    BY <2>4 DEF vars, Board!vars
  <2> QED  BY <2>1, <2>2, <2>3, <2>4 DEF Next, JobStep, RequestStep
<1> QED  BY <1>1, <1>2, Invariance, PTL DEF Spec, ImplementsBoard, Board!Spec
=============================================================================

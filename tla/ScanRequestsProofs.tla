------------------------ MODULE ScanRequestsProofs -------------------------
(***************************************************************************)
(* IndInv is an inductive invariant of ScanRequests: for any number of     *)
(* roots, requests, rechecks, cancels and restarts the safety properties   *)
(* of the module hold.                                                     *)
(***************************************************************************)
EXTENDS ScanRequests, TLAPS

(* The step of one task, one asker, or an administrator, as a case split.  *)
AnyTask(j) == TaskStep(j) \/ Cancel(j)
AnyRoot(r) == ToggleRoot(r) \/ DeleteRoot(r)

(* In the initial states there is no row, no task and nobody has asked.    *)
LEMMA IndInvInit == Init => IndInv
<1> SUFFICES ASSUME Init PROVE IndInv
  OBVIOUS
<1> USE DEF Init, Over
<1>1. (CHOOSE r \in Root : TRUE) \in Root
  BY RootAssumption
<1>2. \A j \in Job : /\ job[j].status = "absent" /\ job[j].next = None
                     /\ job[j].kind = "scan" /\ job[j].root \in Root
                     /\ task[j] = "none"
  BY <1>1
<1>3. job \in [Job -> Row]
  BY <1>1 DEF Row, Live, Terminal
<1>4. TypeOK
  BY <1>3, BoundAssumption DEF TypeOK, Task, Holding, AskerState
<1> QED
  BY <1>2, <1>4 DEF IndInv, RowFitsTask, LaunchedOnce, SettledSoFar, ExaminedSoFar,
     LiveRowIsAttended, Holding, Live, Asker

(* A record is changed by a step of its own asker alone. *)
Others(q) == \A p \in Asker \ {q} : asker'[p] = asker[p]

LEMMA Becoming ==
  ASSUME TypeOK, NEW q \in Asker, NEW a \in AskerState, Becomes(q, a)
  PROVE  asker' \in [Asker -> AskerState] /\ asker'[q] = a /\ Others(q)
BY DEF TypeOK, Becomes, Others

(* The record of an asker that has not begun, or whose work is thrown away.*)
LEMMA OverRecord ==
  ASSUME NEW pc \in {"new", "failed", "interrupted"}
  PROVE  LET b == Over(pc)
         IN  b \in AskerState /\ b.pc = pc /\ b.asked = {} /\ b.new = {}
             /\ b.launch = {} /\ b.seen = {} /\ b.wait = {} /\ ~b.failed
BY DEF AskerState, Over

(* The steps of an asker that touch no Job: it was not launching, and it   *)
(* launches nothing new.                                                   *)
Quiet(q) ==
  /\ UNCHANGED <<root, scanned, job, task, stop, cancels, restarts>>
  /\ asker' \in [Asker -> AskerState]
  /\ Others(q)
  /\ asker[q].pc # "launching" /\ asker'[q].pc # "launching"
  /\ asker'[q].launch \subseteq asker[q].launch

LEMMA AskEffect ==
  ASSUME TypeOK, NEW q \in Asker, Ask(q)
  PROVE  /\ Quiet(q)
         /\ asker'[q].pc = "checking"
         /\ asker'[q].new = asker[q].new /\ asker'[q].asked = asker[q].asked
         /\ asker'[q].seen = asker[q].seen
<1>1. PICK R \in Wanted(q) : Becomes(q, [asker[q] EXCEPT !.pc = "checking", !.todo = R])
  BY DEF Ask
<1>2. R \in SUBSET Root
  BY DEF Wanted, Enabled
<1>3. asker[q] \in AskerState
  BY DEF TypeOK
<1> DEFINE b == [asker[q] EXCEPT !.pc = "checking", !.todo = R]
<1>4. Becomes(q, b)
  BY <1>1
<1>5. /\ b \in AskerState /\ b.pc = "checking" /\ b.new = asker[q].new
      /\ b.asked = asker[q].asked /\ b.launch = asker[q].launch /\ b.seen = asker[q].seen
  BY <1>2, <1>3 DEF AskerState
<1> HIDE DEF b
<1> QED
  BY <1>4, <1>5, Becoming DEF Ask, Quiet

(* A root it looked at: passed over, followed or planned. *)
Looks(q) ==
  /\ Quiet(q)
  /\ asker[q].pc = "checking" /\ asker'[q].pc = "checking"
  /\ asker[q].new \subseteq asker'[q].new /\ asker[q].seen \subseteq asker'[q].seen
  /\ \A j \in asker'[q].seen \ asker[q].seen : job[j].status # "absent"
  /\ q \in Recheck =>
       \A r \in asker'[q].asked \ asker[q].asked :
         \/ r \in asker'[q].new
         \/ \E j \in asker'[q].seen : job[j].kind = "scan" /\ job[j].root = r

LEMMA CheckEffect ==
  ASSUME TypeOK, NEW q \in Asker, NEW r \in Root, Check(q, r)
  PROVE  Looks(q)
<1>1. asker[q] \in AskerState
  BY DEF TypeOK
<1>2. asker[q].pc = "checking" /\ UNCHANGED <<root, scanned, job, task, stop, cancels, restarts>>
  BY DEF Check
<1>3. CASE PassOver(q, r)
  <2> DEFINE R == Remember(q, {r} \cap Enabled)
  <2>1. R \in SUBSET Root
    BY DEF Remember
  <2>2. Becomes(q, [asker[q] EXCEPT !.todo = @ \ {r}, !.asked = @ \cup R])
    BY <1>3 DEF PassOver
  <2>3. R = {}
    BY <1>3, AskerAssumption DEF PassOver, Skips, Remember, Enabled
  <2> DEFINE b == [asker[q] EXCEPT !.todo = @ \ {r}, !.asked = @ \cup R]
  <2>4. Becomes(q, b)
    BY <2>2
  <2> HIDE DEF R
  <2>5. /\ b \in AskerState /\ b.pc = asker[q].pc /\ b.asked = asker[q].asked \cup R
        /\ b.new = asker[q].new /\ b.launch = asker[q].launch /\ b.seen = asker[q].seen
    BY <1>1, <2>1 DEF AskerState
  <2> HIDE DEF b
  <2> QED
    BY <1>2, <2>3, <2>4, <2>5, Becoming DEF Looks, Quiet
<1>4. CASE Plan(q, r)
  <2> DEFINE R == Remember(q, {r})
  <2>1. R \in SUBSET {r} /\ R \in SUBSET Root
    BY DEF Remember
  <2>2. CASE Becomes(q, [asker[q] EXCEPT !.todo = @ \ {r}, !.asked = @ \cup R,
                                         !.new = @ \cup {r}])
    <3> DEFINE b == [asker[q] EXCEPT !.todo = @ \ {r}, !.asked = @ \cup R,
                                     !.new = @ \cup {r}]
    <3>1. Becomes(q, b)
      BY <2>2
    <3> HIDE DEF R
    <3>2. /\ b \in AskerState /\ b.pc = asker[q].pc /\ b.asked = asker[q].asked \cup R
          /\ b.new = asker[q].new \cup {r} /\ b.launch = asker[q].launch
          /\ b.seen = asker[q].seen
      BY <1>1, <2>1 DEF AskerState
    <3> HIDE DEF b
    <3> QED
      BY <1>2, <2>1, <3>1, <3>2, Becoming DEF Looks, Quiet
  <2>3. ASSUME NEW j \in LiveScans(r),
               Becomes(q, [asker[q] EXCEPT !.todo = @ \ {r}, !.asked = @ \cup R,
                                           !.seen = @ \cup Remember(q, {j})])
        PROVE  Looks(q)
    <3> DEFINE S == Remember(q, {j})
    <3>1. j \in Job /\ job[j].kind = "scan" /\ job[j].root = r /\ job[j].status # "absent"
      BY DEF LiveScans, Live
    <3>2. S \in SUBSET Job /\ S \subseteq {j} /\ (q \in Recheck => S = {j})
      BY <3>1 DEF Remember
    <3> DEFINE b == [asker[q] EXCEPT !.todo = @ \ {r}, !.asked = @ \cup R,
                                     !.seen = @ \cup S]
    <3>3. Becomes(q, b)
      BY <2>3
    <3> HIDE DEF R, S
    <3>4. /\ b \in AskerState /\ b.pc = asker[q].pc /\ b.asked = asker[q].asked \cup R
          /\ b.new = asker[q].new /\ b.launch = asker[q].launch
          /\ b.seen = asker[q].seen \cup S
      BY <1>1, <2>1, <3>2 DEF AskerState
    <3> HIDE DEF b
    <3> QED
      BY <1>2, <2>1, <3>1, <3>2, <3>3, <3>4, Becoming DEF Looks, Quiet
  <2> QED
    BY <1>4, <2>2, <2>3 DEF Plan
<1> QED
  BY <1>3, <1>4 DEF Check

LEMMA RecheckFailsEffect ==
  ASSUME TypeOK, NEW q \in Asker, RecheckFails(q)
  PROVE  /\ Quiet(q) 
         /\ asker'[q].pc = "failed"
         /\ asker'[q].new = {} /\ asker'[q].asked = {} /\ asker'[q].seen = {}
BY OverRecord, Becoming DEF RecheckFails, Quiet

LEMMA ConcludeEffect ==
  ASSUME TypeOK, NEW q \in Asker, Conclude(q)
  PROVE  /\ Quiet(q)
         /\ asker[q].pc = "waiting" /\ asker[q].wait = {}
         /\ (asker'[q].pc = "completed" /\ ~asker[q].failed) \/ asker'[q].pc = "failed"
         /\ asker'[q].new = asker[q].new /\ asker'[q].asked = asker[q].asked
         /\ asker'[q].seen = asker[q].seen /\ asker'[q].wait = asker[q].wait
         /\ asker'[q].failed = asker[q].failed
<1>1. PICK end \in {"completed", "failed"} :
        /\ asker[q].failed => end = "failed"
        /\ Becomes(q, [asker[q] EXCEPT !.pc = end])
  BY DEF Conclude
<1>2. asker[q] \in AskerState
  BY DEF TypeOK
<1> DEFINE b == [asker[q] EXCEPT !.pc = end]
<1>3. Becomes(q, b)
  BY <1>1
<1>4. /\ b \in AskerState /\ b.pc = end /\ b.asked = asker[q].asked
      /\ b.new = asker[q].new /\ b.launch = asker[q].launch
      /\ b.seen = asker[q].seen /\ b.wait = asker[q].wait /\ b.failed = asker[q].failed
  BY <1>2 DEF AskerState
<1> HIDE DEF b
<1> QED
  BY <1>1, <1>3, <1>4, Becoming DEF Conclude, Quiet

LEMMA SettleEffect ==
  ASSUME TypeOK, NEW q \in Asker, NEW j \in Job, Settle(q, j)
  PROVE  /\ Quiet(q)
         /\ asker[q].pc = "waiting" /\ asker'[q].pc = "waiting"
         /\ asker'[q].new = asker[q].new /\ asker'[q].asked = asker[q].asked
         /\ asker'[q].seen = asker[q].seen \cup Follows(j)
         /\ asker'[q].wait = (asker[q].wait \ {j}) \cup (Follows(j) \ asker[q].seen)
         /\ asker'[q].failed = (asker[q].failed \/ job[j].status # "completed")
<1>1. Follows(j) \in SUBSET Job
  BY DEF TypeOK, Follows, Row
<1>2. asker[q] \in AskerState
  BY DEF TypeOK
<1>3. Becomes(q, [asker[q] EXCEPT
        !.wait = (@ \ {j}) \cup (Follows(j) \ asker[q].seen),
        !.seen = @ \cup Follows(j),
        !.failed = @ \/ job[j].status # "completed"])
  BY DEF Settle
<1>4. (job[j].status # "completed") \in BOOLEAN
  OBVIOUS
<1> DEFINE F == Follows(j)
           f == job[j].status # "completed"
<1> HIDE DEF F, f
<1>5. F \in SUBSET Job /\ f \in BOOLEAN
  BY <1>1, <1>4 DEF F, f
<1>6. Becomes(q, [asker[q] EXCEPT !.wait = (@ \ {j}) \cup (F \ asker[q].seen),
                                  !.seen = @ \cup F, !.failed = @ \/ f])
  BY <1>3 DEF F, f
<1> DEFINE b == [asker[q] EXCEPT !.wait = (@ \ {j}) \cup (F \ asker[q].seen),
                                 !.seen = @ \cup F, !.failed = @ \/ f]
<1>7. /\ b \in AskerState /\ b.pc = asker[q].pc /\ b.asked = asker[q].asked
      /\ b.new = asker[q].new /\ b.launch = asker[q].launch
      /\ b.seen = asker[q].seen \cup F
      /\ b.wait = (asker[q].wait \ {j}) \cup (F \ asker[q].seen)
      /\ b.failed = (asker[q].failed \/ f)
  BY <1>2, <1>5 DEF AskerState
<1>8. Becomes(q, b)
  BY <1>6
<1> HIDE DEF b
<1>9. asker' \in [Asker -> AskerState] /\ Others(q) /\ asker'[q] = b
  BY <1>7, <1>8, Becoming
<1> QED
  BY <1>7, <1>9 DEF Settle, Quiet, F, f

(* The rows of Commit: new ids for new roots, one each. *)
Creates(q, ids) ==
  /\ ids \subseteq Unused
  /\ job' \in [Job -> Row]
  /\ \A j \in Job \ ids : job'[j] = job[j]
  /\ \A j \in ids : /\ job'[j].kind = "scan" /\ job'[j].status = "queued"
                    /\ job'[j].next = None
  /\ \A r \in asker[q].new : \E j \in ids : job'[j].root = r

LEMMA CommitEffect ==
  ASSUME TypeOK, NEW q \in Asker, Commit(q)
  PROVE  \E ids \in SUBSET Job :
           /\ Creates(q, ids)
           /\ asker' \in [Asker -> AskerState] /\ Others(q)
           /\ asker[q].pc = "checking"
           /\ asker'[q].pc = IF ids = {} THEN After(q) ELSE "launching"
           /\ asker'[q].new = {} /\ asker'[q].asked = asker[q].asked
           /\ asker'[q].launch = ids
           /\ asker'[q].seen = asker[q].seen \cup Remember(q, ids)
           /\ asker'[q].wait = Remember(q, asker[q].seen \cup ids)
           /\ asker'[q].failed = asker[q].failed
           /\ UNCHANGED <<root, scanned, task, stop, cancels, restarts>>
<1> DEFINE new == asker[q].new
           ids(id) == {id[r] : r \in new}
           b(id) == [asker[q] EXCEPT
             !.pc = IF ids(id) = {} THEN After(q) ELSE "launching",
             !.new = {}, !.launch = ids(id),
             !.seen = @ \cup Remember(q, ids(id)),
             !.wait = Remember(q, asker[q].seen \cup ids(id))]
<1>1. PICK id \in [new -> Unused] :
        /\ \A r, s \in new : id[r] = id[s] => r = s
        /\ job' = [j \in Job |->
             IF j \in ids(id)
             THEN [kind |-> "scan", root |-> CHOOSE r \in new : id[r] = j,
                   status |-> "queued", next |-> None]
             ELSE job[j]]
        /\ Becomes(q, b(id))
  BY DEF Commit
<1> DEFINE I == ids(id)
           pc == IF I = {} THEN After(q) ELSE "launching"
           S == Remember(q, I)
           W == Remember(q, asker[q].seen \cup I)
           a == [asker[q] EXCEPT !.pc = pc, !.new = {}, !.launch = I,
                                 !.seen = @ \cup S, !.wait = W]
<1>2. asker[q] \in AskerState /\ new \subseteq Root /\ asker[q].seen \subseteq Job
  BY DEF TypeOK, AskerState
<1>3. I \subseteq Unused /\ Unused \subseteq Job
  BY DEF Unused
<1>4. pc \in {"launching", "waiting", "answered"} /\ S \in SUBSET Job /\ W \in SUBSET Job
  BY <1>2, <1>3 DEF After, Remember
<1>5. Becomes(q, a)
  BY <1>1
<1>6. Creates(q, I)
  <2> DEFINE Owner(j) == CHOOSE r \in new : id[r] = j
  <2>1. \A r \in new : id[r] \in I /\ Owner(id[r]) = r
    BY <1>1
  <2>2. \A j \in I : Owner(j) \in Root
    BY <1>2
  <2>3. \A j \in Job : job'[j] = IF j \in I
          THEN [kind |-> "scan", root |-> Owner(j), status |-> "queued", next |-> None]
          ELSE job[j]
    BY <1>1
  <2>4. job' = [j \in Job |-> job'[j]]
    BY <1>1
  <2> HIDE DEF I, Owner
  <2>5. \A j \in I :
          /\ job'[j] \in Row /\ job'[j].kind = "scan" /\ job'[j].root = Owner(j)
          /\ job'[j].status = "queued" /\ job'[j].next = None
    <3> TAKE j \in I
    <3>1. PICK r \in Root : r = Owner(j)
      BY <2>2
    <3>2. job'[j] = [kind |-> "scan", root |-> r, status |-> "queued", next |-> None]
      BY <1>3, <2>3, <3>1
    <3> QED
      BY <3>1, <3>2 DEF Row, Live
  <2>6. \A j \in Job \ I : job'[j] = job[j] /\ job[j] \in Row
    BY <2>3 DEF TypeOK
  <2>7. job' \in [Job -> Row]
    <3>1. \A j \in Job : job'[j] \in Row
      BY <2>5, <2>6
    <3> QED
      BY <2>4, <3>1
  <2>8. \A r \in new : id[r] \in I /\ job'[id[r]].root = r
    BY <2>1, <2>5
  <2> QED
    BY <1>3, <2>5, <2>6, <2>7, <2>8 DEF Creates
<1> HIDE DEF I, pc, S, W
<1>7. /\ a \in AskerState /\ a.pc = pc /\ a.new = {} /\ a.asked = asker[q].asked
      /\ a.launch = I /\ a.seen = asker[q].seen \cup S /\ a.wait = W
      /\ a.failed = asker[q].failed
  BY <1>2, <1>3, <1>4 DEF AskerState
<1> HIDE DEF a
<1>8. asker' \in [Asker -> AskerState] /\ Others(q) /\ asker'[q] = a
  BY <1>5, <1>7, Becoming
<1>9. asker[q].pc = "checking" /\ UNCHANGED <<root, scanned, task, stop, cancels, restarts>>
  BY DEF Commit
<1> QED
  BY <1>3, <1>6, <1>7, <1>8, <1>9 DEF pc, S, W

LEMMA LaunchEffect ==
  ASSUME TypeOK, NEW q \in Asker, NEW j \in Job, Launch(q, j)
  PROVE  /\ UNCHANGED <<root, scanned, job, stop, cancels, restarts>>
         /\ task' \in [Job -> Task]
         /\ task'[j] = "waiting" /\ \A i \in Job \ {j} : task'[i] = task[i]
         /\ asker' \in [Asker -> AskerState] /\ Others(q)
         /\ asker[q].pc = "launching" /\ j \in asker[q].launch
         /\ asker'[q].pc = IF asker[q].launch = {j} THEN After(q) ELSE "launching"
         /\ asker'[q].launch = asker[q].launch \ {j}
         /\ asker'[q].new = asker[q].new /\ asker'[q].asked = asker[q].asked
         /\ asker'[q].seen = asker[q].seen /\ asker'[q].wait = asker[q].wait
         /\ asker'[q].failed = asker[q].failed
<1> DEFINE pc == IF asker[q].launch = {j} THEN After(q) ELSE "launching"
           b == [asker[q] EXCEPT !.launch = @ \ {j}, !.pc = pc]
<1>1. asker[q] \in AskerState
  BY DEF TypeOK
<1>2. pc \in {"launching", "waiting", "answered"}
  BY DEF After
<1>3. Becomes(q, b)
  BY DEF Launch
<1> HIDE DEF pc
<1>4. /\ b \in AskerState /\ b.pc = pc /\ b.asked = asker[q].asked
      /\ b.new = asker[q].new /\ b.launch = asker[q].launch \ {j}
      /\ b.seen = asker[q].seen /\ b.wait = asker[q].wait /\ b.failed = asker[q].failed
  BY <1>1, <1>2 DEF AskerState
<1> HIDE DEF b
<1>5. asker' \in [Asker -> AskerState] /\ Others(q) /\ asker'[q] = b
  BY <1>3, <1>4, Becoming
<1>6. /\ task' \in [Job -> Task]
      /\ task'[j] = "waiting" /\ \A i \in Job \ {j} : task'[i] = task[i]
  BY DEF TypeOK, Launch, Task
<1> QED
  BY <1>4, <1>5, <1>6 DEF Launch, pc

(* So does every step of a task and every cancel. *)
LEMMA TaskType == ASSUME TypeOK, NEW j \in Job, AnyTask(j) PROVE TypeOK'
<1> USE DEF TypeOK, Task, Holding, Row, Live, Terminal
<1>1. CASE Acquire(j)     BY <1>1 DEF Acquire
<1>2. CASE Begin(j)       BY <1>2 DEF Begin
<1>3. CASE SeesCancel(j)  BY <1>3 DEF SeesCancel
<1>4. CASE Finish(j)      BY <1>4 DEF Finish, Unused
<1>5. CASE Fail(j)        BY <1>5 DEF Fail
<1>6. CASE Stop(j)        BY <1>6 DEF Stop
<1>7. CASE PlexEnds(j)    BY <1>7 DEF PlexEnds
<1>8. CASE Cancel(j)      BY <1>8, BoundAssumption DEF Cancel
<1> QED
  BY <1>1, <1>2, <1>3, <1>4, <1>5, <1>6, <1>7, <1>8 DEF AnyTask, TaskStep

(* So do the changes of a root and a restart. *)
LEMMA OtherType ==
  ASSUME TypeOK, (\E r \in Root : AnyRoot(r)) \/ Restart PROVE TypeOK'
<1> USE DEF TypeOK
<1>1. ASSUME NEW r \in Root, AnyRoot(r) PROVE TypeOK'
  BY <1>1 DEF AnyRoot, ToggleRoot, DeleteRoot
<1>2. CASE Restart
  BY <1>2, BoundAssumption DEF Restart, Task, Row, Terminal, AskerState, Over
<1> QED  BY <1>1, <1>2

-----------------------------------------------------------------------------
(* The steps of an asker that touch no Job. *)
LEMMA QuietKeeps ==
  ASSUME IndInv, NEW q \in Asker, Quiet(q)
  PROVE  TypeOK' /\ RowFitsTask' /\ LaunchedOnce' /\ LiveRowIsAttended'
<1> USE DEF IndInv
<1>1. TypeOK'
  BY DEF Quiet, TypeOK
<1>2. RowFitsTask'
  BY DEF Quiet, RowFitsTask
<1>3. \A p \in Asker : asker'[p].launch \subseteq asker[p].launch
  BY DEF Quiet, Others
<1>4. LaunchedOnce'
  BY <1>3 DEF Quiet, LaunchedOnce
<1>5. \A p \in Asker : asker[p].pc = "launching" => asker'[p] = asker[p]
  BY DEF Quiet, Others
<1>6. LiveRowIsAttended'
  BY <1>5 DEF Quiet, LiveRowIsAttended, Attended, Excused
<1> QED
  BY <1>1, <1>2, <1>4, <1>6

(* To keep what the rechecks know, it is enough to look at the one that    *)
(* took the step.                                                          *)
SettledOf(q) ==
  /\ \A j \in asker[q].seen : job[j].status # "absent"
  /\ asker[q].pc = "launching" => asker[q].seen \subseteq asker[q].wait
  /\ asker[q].pc = "completed" => asker[q].wait = {} /\ ~asker[q].failed
  /\ asker[q].pc \in {"waiting", "completed"} /\ ~asker[q].failed =>
       \A j \in asker[q].seen \ asker[q].wait :
         job[j].status = "completed" /\ Follows(j) \subseteq asker[q].seen

ExaminedOf(q) ==
  /\ asker[q].pc # "checking" => asker[q].new = {}
  /\ \A r \in asker[q].asked \ asker[q].new :
       \E j \in asker[q].seen : job[j].kind = "scan" /\ job[j].root = r

LEMMA QuietRecheck ==
  ASSUME IndInv, NEW q \in Asker, Quiet(q),
         q \in Recheck => SettledOf(q)' /\ ExaminedOf(q)'
  PROVE  SettledSoFar' /\ ExaminedSoFar'
<1>1. \A p \in Recheck : SettledOf(p) /\ ExaminedOf(p)
  BY DEF IndInv, SettledSoFar, ExaminedSoFar, SettledOf, ExaminedOf
<1>2. \A p \in Recheck \ {q} : asker'[p] = asker[p]
  BY DEF Quiet, Others, Asker
<1>3. \A p \in Recheck \ {q} : SettledOf(p)' /\ ExaminedOf(p)'
  BY <1>1, <1>2 DEF Quiet, SettledOf, ExaminedOf, Follows
<1> QED
  BY <1>3 DEF SettledSoFar, ExaminedSoFar, SettledOf, ExaminedOf

LEMMA AskKeeps ==
  ASSUME IndInv, NEW q \in Asker, Ask(q) PROVE IndInv'
<1>1. q \in Recheck => SettledOf(q) /\ ExaminedOf(q)
  BY DEF IndInv, SettledSoFar, ExaminedSoFar, SettledOf, ExaminedOf
<1>2. asker[q].pc = "new"
  BY DEF Ask
<1>3. q \in Recheck => SettledOf(q)' /\ ExaminedOf(q)'
  BY <1>1, <1>2, AskEffect DEF IndInv, Quiet, SettledOf, ExaminedOf
<1> QED
  BY <1>3, AskEffect, QuietKeeps, QuietRecheck DEF IndInv

LEMMA CheckKeeps ==
  ASSUME IndInv, NEW q \in Asker, NEW r \in Root, Check(q, r) PROVE IndInv'
<1>1. q \in Recheck => SettledOf(q) /\ ExaminedOf(q)
  BY DEF IndInv, SettledSoFar, ExaminedSoFar, SettledOf, ExaminedOf
<1>2. Looks(q)
  BY CheckEffect DEF IndInv
<1>3. q \in Recheck => SettledOf(q)'
  BY <1>1, <1>2 DEF Looks, Quiet, SettledOf
<1>4. q \in Recheck => ExaminedOf(q)'
  BY <1>1, <1>2 DEF Looks, Quiet, ExaminedOf
<1> QED
  BY <1>2, <1>3, <1>4, QuietKeeps, QuietRecheck DEF Looks, IndInv

LEMMA RecheckFailsKeeps ==
  ASSUME IndInv, NEW q \in Asker, RecheckFails(q) PROVE IndInv'
<1>1. SettledOf(q)' /\ ExaminedOf(q)'
  BY RecheckFailsEffect DEF IndInv, SettledOf, ExaminedOf
<1> QED
  BY <1>1, RecheckFailsEffect, QuietKeeps, QuietRecheck DEF IndInv

LEMMA ConcludeKeeps ==
  ASSUME IndInv, NEW q \in Asker, Conclude(q) PROVE IndInv'
<1>1. q \in Recheck => SettledOf(q) /\ ExaminedOf(q)
  BY DEF IndInv, SettledSoFar, ExaminedSoFar, SettledOf, ExaminedOf
<1>2. q \in Recheck => SettledOf(q)' /\ ExaminedOf(q)'
  BY <1>1, ConcludeEffect DEF IndInv, Quiet, SettledOf, ExaminedOf, Follows
<1> QED
  BY <1>2, ConcludeEffect, QuietKeeps, QuietRecheck DEF IndInv

LEMMA SettleKeeps ==
  ASSUME IndInv, NEW q \in Asker, NEW j \in Job, Settle(q, j) PROVE IndInv'
<1>1. q \in Recheck => SettledOf(q) /\ ExaminedOf(q)
  BY DEF IndInv, SettledSoFar, ExaminedSoFar, SettledOf, ExaminedOf
<1>2. \A k \in Follows(j) : job[k].status # "absent"
  BY DEF IndInv, RowFitsTask, Follows
<1>3. ASSUME q \in Recheck PROVE SettledOf(q)'
  <2>1. /\ Quiet(q) /\ asker[q].pc = "waiting" /\ asker'[q].pc = "waiting"
        /\ asker'[q].seen = asker[q].seen \cup Follows(j)
        /\ asker'[q].wait = (asker[q].wait \ {j}) \cup (Follows(j) \ asker[q].seen)
        /\ asker'[q].failed = (asker[q].failed \/ job[j].status # "completed")
    BY SettleEffect DEF IndInv
  <2>2. job' = job /\ \A i : Follows(i)' = Follows(i)
    BY <2>1 DEF Quiet, Follows
  <2>3. \A i \in asker'[q].seen : job'[i].status # "absent"
    BY <1>1, <1>2, <1>3, <2>1, <2>2 DEF SettledOf
  <2>4. ASSUME ~asker'[q].failed, NEW i \in asker'[q].seen \ asker'[q].wait
        PROVE  job[i].status = "completed" /\ Follows(i) \subseteq asker'[q].seen
    <3>1. ~asker[q].failed /\ job[j].status = "completed"
      BY <2>1, <2>4
    <3>2. i = j \/ i \in asker[q].seen \ asker[q].wait
      BY <2>1, <2>4
    <3> QED
      BY <1>1, <1>3, <2>1, <3>1, <3>2 DEF SettledOf
  <2> QED
    BY <2>1, <2>2, <2>3, <2>4 DEF SettledOf
<1>4. q \in Recheck => ExaminedOf(q)'
  BY <1>1, SettleEffect DEF IndInv, Quiet, ExaminedOf
<1> QED
  BY <1>3, <1>4, SettleEffect, QuietKeeps, QuietRecheck DEF IndInv

-----------------------------------------------------------------------------
(* The steps of an asker that create and launch Jobs. *)
LEMMA CommitKeeps ==
  ASSUME IndInv, NEW q \in Asker, Commit(q) PROVE IndInv'
<1> USE DEF IndInv
<1>1. PICK ids \in SUBSET Job :
        /\ Creates(q, ids)
        /\ asker' \in [Asker -> AskerState] /\ Others(q)
        /\ asker[q].pc = "checking"
        /\ asker'[q].pc = IF ids = {} THEN After(q) ELSE "launching"
        /\ asker'[q].new = {} /\ asker'[q].asked = asker[q].asked
        /\ asker'[q].launch = ids
        /\ asker'[q].seen = asker[q].seen \cup Remember(q, ids)
        /\ asker'[q].wait = Remember(q, asker[q].seen \cup ids)
        /\ asker'[q].failed = asker[q].failed
        /\ UNCHANGED <<root, scanned, task, stop, cancels, restarts>>
  BY CommitEffect
<1> /\ job' \in [Job -> Row] /\ job \in [Job -> Row]
    /\ \A p \in Asker \ {q} : asker'[p] = asker[p]
  BY <1>1 DEF Creates, Others, TypeOK
<1>2. \A j \in ids : /\ job[j].status = "absent" /\ task[j] = "none" /\ job[j].next = None
                     /\ job'[j].kind = "scan" /\ job'[j].status = "queued"
                     /\ job'[j].next = None
  BY <1>1 DEF Creates, Unused, RowFitsTask, TypeOK, Task
<1>3. \A j \in Job \ ids : job'[j] = job[j]
  BY <1>1 DEF Creates
<1>4. \A j \in Job : job[j].status # "absent" => job'[j] = job[j] /\ j \notin ids
  BY <1>2, <1>3
<1>5. TypeOK'
  BY <1>1 DEF TypeOK
<1>6. RowFitsTask'
  <2>1. \A j \in Job : job[j].next # None => job[j].next \in Job
    BY DEF Row, None
  <2> QED
    BY <1>1, <1>2, <1>3, <1>4, <2>1 DEF RowFitsTask, Holding
<1>8. LaunchedOnce'
  <2>1. \A p \in Asker \ {q} : \A j \in asker'[p].launch :
          j \in Job /\ task[j] = "none" /\ job'[j].status # "absent" /\ j \notin ids
    BY <1>4 DEF LaunchedOnce, TypeOK, AskerState
  <2>2. \A j \in asker'[q].launch : task[j] = "none" /\ job'[j].status # "absent"
    BY <1>1, <1>2
  <2>3. ASSUME NEW p1 \in Asker, NEW p2 \in Asker, p1 # p2
        PROVE  asker'[p1].launch \cap asker'[p2].launch = {}
    BY <1>1, <2>1, <2>3 DEF LaunchedOnce
  <2> QED
    BY <1>1, <2>1, <2>2, <2>3 DEF LaunchedOnce
<1>9. LiveRowIsAttended'
  <2>1. ASSUME NEW j \in Job, job'[j].status \in Live PROVE (Attended(j) \/ Excused(j))'
    <3>1. CASE j \in ids
      BY <1>1, <3>1 DEF Attended
    <3>2. CASE j \notin ids /\ Attended(j)
      <4>1. \A p \in Asker : asker[p].pc = "launching" => asker'[p] = asker[p]
        BY <1>1
      <4> QED
        BY <1>1, <3>2, <4>1 DEF Attended
    <3>3. CASE j \notin ids /\ Excused(j)
      <4>1. job'[j] = job[j]
        BY <1>3, <3>3
      <4>2. \A i \in stop : i \in Job /\ (job[i].next = j => job'[i].next = j)
        BY <1>2, <1>3 DEF None, TypeOK
      <4> QED
        BY <1>1, <3>3, <4>1, <4>2 DEF Excused
    <3> QED
      BY <1>3, <2>1, <3>1, <3>2, <3>3 DEF LiveRowIsAttended
  <2> QED
    BY <2>1 DEF LiveRowIsAttended
<1>10. \A p \in Recheck : /\ SettledOf(p) /\ ExaminedOf(p) /\ p \in Asker
                          /\ asker[p].seen \subseteq Job
  BY DEF SettledSoFar, ExaminedSoFar, SettledOf, ExaminedOf, Asker, TypeOK, AskerState
<1>11. ASSUME NEW p \in Recheck, p # q PROVE SettledOf(p)' /\ ExaminedOf(p)'
  <2>1. \A j \in asker[p].seen : job'[j] = job[j] /\ Follows(j)' = Follows(j)
    BY <1>4, <1>10 DEF SettledOf, Follows
  <2>2. asker'[p] = asker[p]
    BY <1>10, <1>11
  <2> QED
    BY <1>10, <2>1, <2>2 DEF SettledOf, ExaminedOf
<1>12. ASSUME q \in Recheck PROVE SettledOf(q)' /\ ExaminedOf(q)'
  <2>1. asker'[q].seen = asker[q].seen \cup ids /\ asker'[q].wait = asker'[q].seen
    BY <1>1, <1>12 DEF Remember
  <2>2. asker'[q].pc \in {"launching", "waiting"}
    BY <1>1, <1>12 DEF After
  <2>3. \A j \in asker[q].seen : job'[j] = job[j]
    BY <1>4, <1>10, <1>12 DEF SettledOf
  <2>4. SettledOf(q)'
    BY <1>2, <1>10, <1>12, <2>1, <2>2, <2>3 DEF SettledOf
  <2>5. \A r \in asker[q].new : \E j \in ids : job'[j].kind = "scan" /\ job'[j].root = r
    BY <1>1, <1>2 DEF Creates
  <2> QED
    BY <1>1, <1>10, <1>12, <2>1, <2>3, <2>4, <2>5 DEF ExaminedOf
<1>13. SettledSoFar' /\ ExaminedSoFar'
  BY <1>11, <1>12 DEF SettledSoFar, ExaminedSoFar, SettledOf, ExaminedOf
<1> QED
  BY <1>5, <1>6, <1>8, <1>9, <1>13

LEMMA LaunchKeeps ==
  ASSUME IndInv, NEW q \in Asker, NEW j \in Job, Launch(q, j) PROVE IndInv'
<1> USE DEF IndInv
<1>1. /\ UNCHANGED <<root, scanned, job, stop, cancels, restarts>>
      /\ task' \in [Job -> Task]
      /\ task'[j] = "waiting" /\ \A i \in Job \ {j} : task'[i] = task[i]
      /\ asker' \in [Asker -> AskerState] /\ Others(q)
      /\ asker[q].pc = "launching" /\ j \in asker[q].launch
      /\ asker'[q].pc = IF asker[q].launch = {j} THEN After(q) ELSE "launching"
      /\ asker'[q].launch = asker[q].launch \ {j}
      /\ asker'[q].new = asker[q].new /\ asker'[q].asked = asker[q].asked
      /\ asker'[q].seen = asker[q].seen /\ asker'[q].wait = asker[q].wait
      /\ asker'[q].failed = asker[q].failed
  BY LaunchEffect
<1>2. \A p \in Asker \ {q} : asker'[p] = asker[p]
  BY <1>1 DEF Others
<1>3. task[j] = "none" /\ job[j].status # "absent"
  BY <1>1 DEF LaunchedOnce
<1>4. TypeOK'
  BY <1>1 DEF TypeOK
<1>5. RowFitsTask'
  BY <1>1, <1>3 DEF RowFitsTask, Holding
<1>7. LaunchedOnce'
  <2>1. \A p \in Asker : asker'[p].launch \subseteq asker[p].launch \ {j}
    BY <1>1, <1>2 DEF LaunchedOnce
  <2> QED
    BY <1>1, <2>1 DEF LaunchedOnce, TypeOK, AskerState
<1>8. LiveRowIsAttended'
  <2>1. ASSUME NEW i \in Job, Attended(i) PROVE Attended(i)'
    <3>1. CASE i = j
      BY <1>1, <3>1 DEF Attended
    <3>2. CASE i # j /\ \E p \in Asker : asker[p].pc = "launching" /\ i \in asker[p].launch
      BY <1>1, <1>2, <3>2 DEF Attended
    <3>3. CASE i # j /\ task[i] \in {"waiting"} \cup Holding
      BY <1>1, <3>3 DEF Attended
    <3> QED
      BY <2>1, <3>1, <3>2, <3>3 DEF Attended
  <2> QED
    BY <1>1, <2>1 DEF LiveRowIsAttended, Excused
<1>9. \A p \in Recheck : SettledOf(p) /\ ExaminedOf(p) /\ p \in Asker
  BY DEF SettledSoFar, ExaminedSoFar, SettledOf, ExaminedOf, Asker
<1>10. \A i : Follows(i)' = Follows(i)
  BY <1>1 DEF Follows
<1>11. ASSUME NEW p \in Recheck, p # q PROVE SettledOf(p)' /\ ExaminedOf(p)'
  <2>1. asker'[p] = asker[p]
    BY <1>2, <1>9, <1>11
  <2> QED
    BY <1>1, <1>9, <1>10, <2>1 DEF SettledOf, ExaminedOf
<1>12. ASSUME q \in Recheck PROVE SettledOf(q)' /\ ExaminedOf(q)'
  <2>1. asker'[q].pc \in {"launching", "waiting"}
    BY <1>1, <1>12 DEF After
  <2> QED
    BY <1>1, <1>9, <1>10, <1>12, <2>1 DEF SettledOf, ExaminedOf
<1>13. SettledSoFar' /\ ExaminedSoFar'
  BY <1>11, <1>12 DEF SettledSoFar, ExaminedSoFar, SettledOf, ExaminedOf
<1> QED
  BY <1>4, <1>5, <1>7, <1>8, <1>13

-----------------------------------------------------------------------------
(* The steps of a task, and a cancel.  What the askers know outlasts every *)
(* step that leaves the rows that ended and the tasks not yet launched.    *)
Outlasts ==
  /\ asker' = asker
  /\ \A i \in Job :
       /\ job[i].status # "absent" => /\ job'[i].status # "absent"
                                      /\ job'[i].kind = job[i].kind
                                      /\ job'[i].root = job[i].root
       /\ job[i].status = "completed" => job'[i] = job[i]
       /\ task[i] = "none" /\ job[i].status # "absent" => task'[i] = "none"

LEMMA OutlastsKeeps ==
  ASSUME IndInv, Outlasts PROVE LaunchedOnce' /\ SettledSoFar' /\ ExaminedSoFar'
<1> USE DEF IndInv
<1>1. \A q \in Asker : asker[q].launch \subseteq Job
  BY DEF TypeOK, AskerState
<1>2. LaunchedOnce'
  BY <1>1 DEF LaunchedOnce, Outlasts
<1>3. \A q \in Recheck : SettledOf(q) /\ ExaminedOf(q) /\ asker[q].seen \subseteq Job
  BY DEF SettledSoFar, ExaminedSoFar, SettledOf, ExaminedOf, Asker, TypeOK, AskerState
<1>4. \A i \in Job : job[i].status = "completed" =>
        job'[i].status = "completed" /\ Follows(i)' = Follows(i)
  BY DEF Outlasts, Follows
<1>5. ASSUME NEW q \in Recheck PROVE SettledOf(q)'
  BY <1>3, <1>4 DEF Outlasts, SettledOf
<1>6. ASSUME NEW q \in Recheck PROVE ExaminedOf(q)'
  BY <1>3 DEF Outlasts, SettledOf, ExaminedOf
<1> QED
  BY <1>2, <1>5, <1>6 DEF SettledSoFar, ExaminedSoFar, SettledOf, ExaminedOf

(* The steps that change one row and its task. *)
Alone(j) ==
  /\ asker' = asker /\ root' = root
  /\ stop \subseteq stop'
  /\ \A i \in Job \ {j} : job'[i] = job[i] /\ task'[i] = task[i]
  /\ job'[j].kind = job[j].kind /\ job'[j].root = job[j].root /\ job'[j].next = job[j].next

LEMMA AloneKeeps ==
  ASSUME IndInv, TypeOK', NEW j \in Job, Alone(j),
         job[j].status \notin {"absent", "completed"} \/ job'[j] = job[j],
         job'[j].status # "absent", task[j] # "none" \/ task'[j] = "none",
         job'[j].status = "completed" => task'[j] = "done",
         task[j] = "done" => task'[j] = "done",
         task'[j] \in Holding => job[j].kind = "scan",
         job'[j].status \in Live => (Attended(j) \/ Excused(j))'
  PROVE  IndInv'
<1> USE DEF IndInv
<1>1. Outlasts
  BY DEF Outlasts, Alone, RowFitsTask
<1>2. RowFitsTask'
  <2>1. \A i \in Job : job[i].next # None => job[i].next \in Job
    BY DEF TypeOK, Row, None
  <2>2. \A i \in Job : job[i].status # "absent" => job'[i].status # "absent"
    BY DEF Alone
  <2> QED
    BY <2>1, <2>2 DEF Alone, RowFitsTask
<1>4. LiveRowIsAttended'
  <2>1. ASSUME NEW i \in Job, i # j, job'[i].status \in Live
        PROVE  (Attended(i) \/ Excused(i))'
    <3>1. job[i].status \in Live /\ (Attended(i) \/ Excused(i))
      BY <2>1 DEF Alone, LiveRowIsAttended
    <3>2. Attended(i) => Attended(i)'
      BY <2>1 DEF Alone, Attended
    <3>3. \A k \in stop : job[k].next = i => job'[k].next = i
      BY DEF Alone, TypeOK
    <3>4. Excused(i) => Excused(i)'
      BY <2>1, <3>3 DEF Alone, Excused
    <3> QED
      BY <3>1, <3>2, <3>4
  <2> QED
    BY <2>1 DEF LiveRowIsAttended
<1> QED
  BY <1>1, <1>2, <1>4, OutlastsKeeps

LEMMA AcquireKeeps ==
  ASSUME IndInv, NEW j \in Job, Acquire(j) PROVE IndInv'
<1> USE DEF IndInv
<1>1. TypeOK'
  BY TaskType DEF AnyTask, TaskStep
<1>2. task[j] = "waiting" /\ job' = job /\ Alone(j)
  BY DEF Acquire, Alone, TypeOK
<1>3. job[j].status \notin {"absent", "completed"}
  BY <1>2 DEF RowFitsTask
<1>5. task'[j] \in {"done", "loaded"} /\ job[j].kind = "scan"
  BY DEF Acquire, TypeOK
<1>6. job[j].status \in Live => task'[j] = "loaded" \/ root[job[j].root] = "deleted"
  BY DEF Acquire, TypeOK, Live, Terminal
<1>7. job'[j].status \in Live => (Attended(j) \/ Excused(j))'
  BY <1>2, <1>6 DEF Alone, Attended, Excused, Holding
<1> QED
  BY <1>1, <1>2, <1>3, <1>5, <1>7, AloneKeeps

LEMMA BeginKeeps ==
  ASSUME IndInv, NEW j \in Job, Begin(j) PROVE IndInv'
<1> USE DEF IndInv
<1>1. TypeOK'
  BY TaskType DEF AnyTask, TaskStep
<1>2. task[j] = "loaded" /\ job'[j].status = "running" /\ Alone(j) /\ stop' = stop
  BY DEF Begin, Alone, TypeOK, Row
<1>3. job[j].status \notin {"absent", "completed"} /\ job[j].kind = "scan"
  BY <1>2 DEF RowFitsTask, Holding
<1>4. task'[j] = IF j \in stop THEN "done" ELSE "running"
  BY DEF Begin, TypeOK
<1>6. (Attended(j) \/ Excused(j))'
  BY <1>2, <1>4 DEF Attended, Excused, Holding
<1> QED
  BY <1>1, <1>2, <1>3, <1>4, <1>6, AloneKeeps

(* The steps that end a task whose row has ended, or that was stopped. *)
LEMMA EndKeeps ==
  ASSUME IndInv, NEW j \in Job, SeesCancel(j) \/ Fail(j) \/ Stop(j) \/ PlexEnds(j)
  PROVE  IndInv'
<1> USE DEF IndInv
<1>1. TypeOK'
  BY TaskType DEF AnyTask, TaskStep
<1>2. task[j] \in {"waiting"} \cup Holding /\ task'[j] = "done"
  BY DEF SeesCancel, Fail, Stop, PlexEnds, TypeOK, Holding
<1>3. Alone(j) /\ stop' = stop
  BY DEF SeesCancel, Fail, Stop, PlexEnds, Alone, TypeOK, Row
<1>4. job[j].status \notin {"absent", "completed"}
  BY <1>2 DEF RowFitsTask, Holding
<1>5. job'[j].status # "absent" /\ (job'[j].status \notin Live \/ j \in stop)
  BY <1>1, <1>4 DEF SeesCancel, Fail, Stop, PlexEnds, TypeOK, Row, Live, Terminal
<1>6. job'[j].status \in Live => Excused(j)'
  BY <1>3, <1>5 DEF Excused
<1> QED
  BY <1>1, <1>2, <1>3, <1>4, <1>5, <1>6, AloneKeeps DEF Holding

LEMMA CancelKeeps ==
  ASSUME IndInv, NEW j \in Job, Cancel(j) PROVE IndInv'
<1> USE DEF IndInv
<1>1. TypeOK'
  BY TaskType DEF AnyTask
<1>2. task' = task /\ job'[j].status = "cancelled" /\ Alone(j)
  BY DEF Cancel, Alone, TypeOK, Row
<1>3. job[j].status \in Live
  BY DEF Cancel
<1>4. job[j].status \notin {"absent", "completed"} /\ job'[j].status \notin Live
  BY <1>2, <1>3 DEF Live
<1>5. task'[j] \in Holding => job[j].kind = "scan"
  BY <1>2 DEF RowFitsTask
<1> QED
  BY <1>1, <1>2, <1>4, <1>5, AloneKeeps

(* The end of a scan, with or without a Plex Job to follow it. *)
LEMMA FinishKeeps ==
  ASSUME IndInv, NEW j \in Job, Finish(j) PROVE IndInv'
<1> USE DEF IndInv
<1>1. TypeOK'
  BY TaskType DEF AnyTask, TaskStep
<1>2. /\ task[j] = "running" /\ asker' = asker /\ root' = root /\ stop' = stop
      /\ job \in [Job -> Row] /\ task \in [Job -> Task]
  BY DEF Finish, TypeOK
<1>3. job[j].status \notin {"absent", "completed"} /\ job[j].next = None
  BY <1>2 DEF RowFitsTask
<1>4. CASE /\ job' = [job EXCEPT ![j].status = "completed"]
           /\ task' = [task EXCEPT ![j] = "done"]
  <2>1. Alone(j) /\ job'[j].status = "completed" /\ task'[j] = "done"
    BY <1>2, <1>4 DEF Alone, Row
  <2> QED
    BY <1>1, <1>2, <1>3, <2>1, AloneKeeps DEF Holding, Live
<1>5. ASSUME NEW k \in Unused,
             job' = [job EXCEPT
               ![j].status = "completed", ![j].next = k,
               ![k] = [kind |-> "plex", root |-> job[j].root,
                       status |-> "queued", next |-> None]],
             task' = [task EXCEPT ![j] = "done",
                                  ![k] = IF j \in stop THEN "done" ELSE "waiting"]
      PROVE  IndInv'
  <2>1. k \in Job /\ job[k].status = "absent" /\ k # j
    BY <1>3, <1>5 DEF Unused
  <2>2. task[k] = "none" /\ job[k].next = None
    BY <2>1 DEF RowFitsTask
  <2>3. /\ job'[j].status = "completed" /\ job'[j].next = k
        /\ job'[j].kind = job[j].kind /\ job'[j].root = job[j].root
        /\ job'[k].kind = "plex" /\ job'[k].status = "queued" /\ job'[k].next = None
        /\ \A i \in Job \ {j, k} : job'[i] = job[i]
    BY <1>2, <1>5, <2>1 DEF Row
  <2>4. /\ task'[j] = "done" /\ task'[k] = (IF j \in stop THEN "done" ELSE "waiting")
        /\ \A i \in Job \ {j, k} : task'[i] = task[i]
    BY <1>2, <1>5, <2>1
  <2>5. Outlasts
    BY <1>2, <1>3, <2>1, <2>3, <2>4 DEF Outlasts
  <2>6. RowFitsTask'
    <3>1. \A i \in Job : job[i].next # None => job[i].next \in Job
      BY <1>2 DEF Row, None
    <3>2. \A i \in Job : job[i].status # "absent" => job'[i].status # "absent"
      BY <2>5 DEF Outlasts
    <3>3. ASSUME NEW i \in Job \ {j, k}
          PROVE  /\ job'[i].status = "absent" => task'[i] = "none"
                 /\ job'[i].status = "completed" => task'[i] = "done"
                 /\ job'[i].next # None => /\ task'[i] = "done"
                                           /\ job'[job'[i].next].status # "absent"
                 /\ task'[i] \in Holding => job'[i].kind = "scan"
      BY <2>3, <2>4, <3>1, <3>2 DEF RowFitsTask
    <3> QED
      BY <2>1, <2>3, <2>4, <3>3 DEF RowFitsTask, Holding
  <2>8. LiveRowIsAttended'
    <3>1. ASSUME NEW i \in Job, job'[i].status \in Live PROVE (Attended(i) \/ Excused(i))'
      <4>1. CASE i = k
        BY <1>2, <2>3, <2>4, <4>1 DEF Attended, Excused
      <4>2. CASE i \in Job \ {j, k}
        <5>1. Attended(i) \/ Excused(i)
          BY <2>3, <3>1, <4>2 DEF LiveRowIsAttended
        <5>2. Attended(i) => Attended(i)'
          BY <1>2, <2>4, <4>2 DEF Attended
        <5>3. \A m \in stop : job[m].next = i => job'[m].next = i
          <6>1. i # None /\ stop \subseteq Job
            BY <4>2, BoundAssumption DEF Job, None, TypeOK
          <6> QED
            BY <1>3, <2>2, <2>3, <6>1
        <5>4. Excused(i) => Excused(i)'
          BY <1>2, <2>3, <4>2, <5>3 DEF Excused
        <5> QED
          BY <5>1, <5>2, <5>4
      <4>3. i # j
        BY <2>3, <3>1 DEF Live
      <4> QED
        BY <4>1, <4>2, <4>3
    <3> QED
      BY <3>1 DEF LiveRowIsAttended
  <2> QED
    BY <1>1, <2>5, <2>6, <2>8, OutlastsKeeps
<1> QED
  BY <1>4, <1>5 DEF Finish

-----------------------------------------------------------------------------
(* Administrators and restarts. *)
LEMMA RootKeeps ==
  ASSUME IndInv, NEW r \in Root, AnyRoot(r) PROVE IndInv'
<1> USE DEF IndInv
<1>1. TypeOK'
  BY OtherType
<1>2. UNCHANGED <<job, task, stop, asker>>
  BY DEF AnyRoot, ToggleRoot, DeleteRoot
<1>3. \A s \in Root : root[s] = "deleted" => root'[s] = "deleted"
  BY DEF AnyRoot, ToggleRoot, DeleteRoot, TypeOK
<1>4. \A j \in Job : job[j].root \in Root
  BY DEF TypeOK, Row
<1>5. LiveRowIsAttended'
  BY <1>2, <1>3, <1>4 DEF LiveRowIsAttended, Attended, Excused
<1>6. Outlasts
  BY <1>2 DEF Outlasts
<1> QED
  BY <1>1, <1>2, <1>5, <1>6, OutlastsKeeps DEF RowFitsTask

LEMMA RestartKeeps ==
  ASSUME IndInv, Restart PROVE IndInv'
<1> USE DEF IndInv
<1>1. TypeOK'
  BY OtherType
<1>2. \A j \in Job :
        /\ job'[j].kind = job[j].kind /\ job'[j].root = job[j].root
        /\ job'[j].next = job[j].next
        /\ job[j].status \notin Live => job'[j] = job[j]
        /\ job[j].status \in Live => job'[j].status = "interrupted"
        /\ task'[j] = IF task[j] = "none" THEN "none" ELSE "done"
  BY DEF Restart, Interrupted, TypeOK, Row
<1>3. /\ \A j \in Job : job'[j].status \notin Live /\ task'[j] \notin Holding
      /\ \A j \in Job : job[j].status # "absent" <=> job'[j].status # "absent"
      /\ \A j \in Job : job[j].status = "completed" <=> job'[j].status = "completed"
  BY <1>2 DEF Live, Holding
<1>4. LiveRowIsAttended'
  BY <1>3 DEF LiveRowIsAttended
<1>5. RowFitsTask'
  <2>1. \A j \in Job : job[j].next # None => job[j].next \in Job
    BY DEF TypeOK, Row, None
  <2> QED
    BY <1>2, <1>3, <2>1 DEF RowFitsTask
<1>6. \A q \in Asker :
        \/ asker'[q] = Over("interrupted")
        \/ asker'[q] = asker[q] /\ asker[q].pc \notin {"checking", "launching", "waiting"}
  BY DEF Restart, TypeOK
<1>7. \A q \in Asker : asker'[q].launch \subseteq asker[q].launch
  BY <1>6, OverRecord
<1>8. LaunchedOnce'
  BY <1>2, <1>3, <1>7 DEF LaunchedOnce, TypeOK, AskerState
<1>9. ASSUME NEW q \in Recheck PROVE SettledOf(q)' /\ ExaminedOf(q)'
  <2>1. CASE asker'[q] = Over("interrupted")
    BY <2>1, OverRecord DEF SettledOf, ExaminedOf
  <2>2. CASE asker'[q] = asker[q]
    <3>1. SettledOf(q) /\ ExaminedOf(q) /\ asker[q].seen \subseteq Job
      BY DEF SettledSoFar, ExaminedSoFar, SettledOf, ExaminedOf, TypeOK, AskerState, Asker
    <3>2. \A j : Follows(j) = {job[j].next} \ {None} /\ Follows(j)' = {job'[j].next} \ {None}
      BY DEF Follows
    <3> QED
      BY <1>2, <1>3, <2>2, <3>1, <3>2 DEF SettledOf, ExaminedOf
  <2> QED
    BY <1>6, <2>1, <2>2 DEF Asker
<1>10. SettledSoFar' /\ ExaminedSoFar'
  BY <1>9 DEF SettledSoFar, ExaminedSoFar, SettledOf, ExaminedOf
<1> QED
  BY <1>1, <1>4, <1>5, <1>8, <1>10

-----------------------------------------------------------------------------
(* Whatever happens, in any order, IndInv holds of every reachable state.  *)
THEOREM Invariance == Spec => []IndInv
<1>1. ASSUME IndInv, [Next]_vars PROVE IndInv'
  <2>1. ASSUME NEW q \in Asker, Ask(q) \/ AskerStep(q) PROVE IndInv'
    BY <1>1, <2>1, AskKeeps, CheckKeeps, RecheckFailsKeeps, CommitKeeps, ConcludeKeeps,
       LaunchKeeps, SettleKeeps DEF AskerStep
  <2>2. ASSUME NEW j \in Job, TaskStep(j) \/ Cancel(j) PROVE IndInv'
    BY <1>1, <2>2, AcquireKeeps, BeginKeeps, EndKeeps, FinishKeeps, CancelKeeps
       DEF TaskStep
  <2>3. ASSUME NEW r \in Root, ToggleRoot(r) \/ DeleteRoot(r) PROVE IndInv'
    BY <1>1, <2>3, RootKeeps DEF AnyRoot
  <2>4. CASE UNCHANGED vars
    <3>1. Outlasts
      BY <2>4 DEF Outlasts, vars
    <3> QED
      BY <1>1, <2>4, <3>1, OutlastsKeeps
         DEF vars, IndInv, TypeOK, RowFitsTask, LiveRowIsAttended,
             Attended, Excused
  <2> QED
    BY <1>1, <2>1, <2>2, <2>3, <2>4, RestartKeeps DEF Next
<1> QED
  BY <1>1, IndInvInit, PTL DEF Spec

(* The variables keep their types. *)
THEOREM TypeCorrect == Spec => []TypeOK
<1>1. IndInv => TypeOK
  BY DEF IndInv
<1> QED
  BY <1>1, Invariance, PTL

(* No row stays QUEUED or RUNNING with nobody to work on it, apart from the*)
(* two ways the code has to lose one.                                      *)
THEOREM Attendance == Spec => []LiveRowIsAttended
<1>1. IndInv => LiveRowIsAttended
  BY DEF IndInv
<1> QED
  BY <1>1, Invariance, PTL

(* A recheck that says COMPLETED followed every Job to its COMPLETED, the  *)
(* Plex Jobs that came after its scans included.                           *)
THEOREM Settled == Spec => []EvidenceIsSettled
<1>1. ASSUME IndInv PROVE EvidenceIsSettled
  <2>1. SUFFICES ASSUME NEW q \in Recheck, asker[q].pc = "completed",
                        NEW j \in asker[q].seen
                 PROVE  /\ job[j].status = "completed"
                        /\ \A k \in Job : job[k].kind = "plex" /\ job[j].next = k
                                          => k \in asker[q].seen
    BY DEF EvidenceIsSettled
  <2>2. job[j].status = "completed" /\ Follows(j) \subseteq asker[q].seen
    BY <1>1, <2>1 DEF IndInv, SettledSoFar
  <2>3. None \notin Job
    BY BoundAssumption DEF None, Job
  <2> QED
    BY <2>2, <2>3 DEF Follows
<1> QED
  BY <1>1, Invariance, PTL

(* ... and examined every root it found enabled. *)
THEOREM Examined == Spec => []RecheckExaminesRoots
<1>1. ASSUME IndInv PROVE RecheckExaminesRoots
  BY <1>1 DEF IndInv, SettledSoFar, ExaminedSoFar, RecheckExaminesRoots
<1> QED
  BY <1>1, Invariance, PTL

(* Together: what a recheck claims with COMPLETED is so. *)
THEOREM Honest == Spec => []RecheckIsHonest
<1>1. EvidenceIsSettled /\ RecheckExaminesRoots => RecheckIsHonest
  BY DEF RecheckIsHonest
<1> QED
  BY <1>1, Settled, Examined, PTL
=============================================================================

---------------------------- MODULE ProblemQueue ----------------------------
(***************************************************************************)
(* One Problem identity (reason, entity) in the review queue: observers    *)
(* that open, refresh or resolve it from evidence, and administrators who  *)
(* dismiss, restore, confirm or delete its rows, each in a transaction of  *)
(* its own at READ COMMITTED.  Different identities share nothing but the  *)
(* table, so one is enough.                                                *)
(*                                                                         *)
(* Rows are numbered in creation order.  A transaction's writes appear at  *)
(* its COMMIT: nobody sees them earlier, and a conflicting writer waits    *)
(* for it.  An UPDATE writes the columns the session changed, so refreshed *)
(* evidence never rewrites a status.                                       *)
(***************************************************************************)
EXTENDS Naturals, FiniteSets

CONSTANTS
  Observer,      \* scans, polls and rechecks that call open/resolve_problem
  Admin,         \* administrators' requests on the queue
  MaxRow,        \* bound: rows ever created for this identity
  MaxFlips,      \* bound: changes of the real condition
  MaxRollbacks,  \* bound: observer transactions that fail for other reasons
  Indexed,       \* the partial unique index on OPEN rows exists (fresh schema)
  Advisory       \* PostgreSQL: pg_advisory_xact_lock is taken

ASSUME BoundAssumption ==
  MaxRow \in Nat \ {0} /\ MaxFlips \in Nat /\ MaxRollbacks \in Nat
ASSUME SwitchAssumption == Indexed \in BOOLEAN /\ Advisory \in BOOLEAN

Row == 1..MaxRow

VARIABLES
  status,     \* status[p]: committed Problem.status of row p
  condition,  \* what the files, qBittorrent or Plex would show right now
  lock,       \* observers holding the advisory lock of this identity
  observer,   \* observer[o]: phase of its transaction and the rows it read
  admin,      \* admin[a]: phase of the request, its row and the status read
  flips,
  rollbacks

vars == <<status, condition, lock, observer, admin, flips, rollbacks>>

ProblemStatus == {"absent", "open", "resolved", "dismissed", "deleted"}
ObserverPhase == {"idle", "opening", "locked", "clear", "insert", "conflict",
                  "refresh", "resolve", "resolving"}

TypeOK ==
  /\ status \in [Row -> ProblemStatus]
  /\ condition \in BOOLEAN
  /\ lock \subseteq Observer
  /\ observer \in [Observer -> [pc : ObserverPhase, found : SUBSET Row]]
  /\ admin \in [Admin -> [pc : {"new", "loaded", "answered"},
                          row : Row, seen : ProblemStatus]]
  /\ flips \in 0..MaxFlips
  /\ rollbacks \in 0..MaxRollbacks

With(s) == {p \in Row : status[p] = s}

Idle == [pc |-> "idle", found |-> {}]

Init ==
  /\ status = [p \in Row |-> "absent"]
  /\ condition \in BOOLEAN
  /\ lock = {}
  /\ observer = [o \in Observer |-> Idle]
  /\ admin = [a \in Admin |-> [pc |-> "new", row |-> 1, seen |-> "absent"]]
  /\ flips = 0
  /\ rollbacks = 0

(* The world changes under the observers. *)
Flip ==
  /\ flips < MaxFlips
  /\ flips' = flips + 1
  /\ condition' = ~condition
  /\ UNCHANGED <<status, lock, observer, admin, rollbacks>>

-----------------------------------------------------------------------------
(* open_problem and resolve_problem                                        *)

Goto(o, pc, found) == observer' = [observer EXCEPT ![o] = [pc |-> pc, found |-> found]]

(* The end of the transaction, by COMMIT or ROLLBACK, frees the lock. *)
EndTransaction(o) ==
  /\ observer' = [observer EXCEPT ![o] = Idle]
  /\ lock' = lock \ {o}

ObserveOpensOnly(o) ==
  /\ observer[o].pc = "idle"
  /\ Goto(o, IF condition THEN "opening" ELSE "idle", {})
  /\ UNCHANGED <<status, condition, lock, admin, flips, rollbacks>>

Observe(o) ==
  /\ observer[o].pc = "idle"
  /\ Goto(o, IF condition THEN "opening" ELSE "resolve", {})
  /\ UNCHANGED <<status, condition, lock, admin, flips, rollbacks>>

LockFree == lock = {}

AcquireLock(o) ==
  /\ observer[o].pc = "opening"
  /\ Advisory => LockFree
  /\ lock' = IF Advisory THEN lock \cup {o} ELSE lock
  /\ Goto(o, "locked", {})
  /\ UNCHANGED <<status, condition, admin, flips, rollbacks>>

(* A dismissed row suppresses the identity: the newest one is refreshed. *)
SuppressingAnyClosed == With("dismissed") \cup With("resolved")

Suppressing == With("dismissed")

ReadSuppressed(o) ==
  /\ observer[o].pc = "locked"
  /\ \/ /\ Suppressing = {}
        /\ Goto(o, "clear", {})
     \/ \E p \in Suppressing :
          /\ \A q \in Suppressing : q <= p
          /\ Goto(o, "refresh", {p})
  /\ UNCHANGED <<status, condition, lock, admin, flips, rollbacks>>

(* The oldest OPEN row is the canonical one. *)
ReadOpen(o) ==
  /\ observer[o].pc \in {"clear", "conflict"}
  /\ \/ \E p \in With("open") :
          /\ \A q \in With("open") : p <= q
          /\ Goto(o, "refresh", {p})
          /\ UNCHANGED lock
     \/ /\ With("open") = {}
        /\ observer[o].pc = "clear"
        /\ Goto(o, "insert", {})
        /\ UNCHANGED lock
     \/ /\ With("open") = {}          \* the winner's row is gone: re-raise
        /\ observer[o].pc = "conflict"
        /\ EndTransaction(o)
  /\ UNCHANGED <<status, condition, admin, flips, rollbacks>>

IndexRefuses == Indexed /\ With("open") # {}

(* The INSERT in its savepoint, and the COMMIT that publishes the row. *)
Insert(o) ==
  /\ observer[o].pc = "insert"
  /\ \/ /\ IndexRefuses
        /\ Goto(o, "conflict", {})
        /\ UNCHANGED <<status, lock>>
     \/ /\ ~IndexRefuses
        /\ \E p \in With("absent") :
             /\ \A q \in With("absent") : p <= q
             /\ status' = [status EXCEPT ![p] = "open"]
        /\ EndTransaction(o)
  /\ UNCHANGED <<condition, admin, flips, rollbacks>>

(* New evidence on an existing row; on a deleted row the flush fails and   *)
(* the transaction is lost.  Either way no status changes.                 *)
Refresh(o) ==
  /\ observer[o].pc = "refresh"
  /\ EndTransaction(o)
  /\ UNCHANGED <<status, condition, admin, flips, rollbacks>>

ReadResolvable(o) ==
  /\ observer[o].pc = "resolve"
  /\ IF With("open") = {} THEN EndTransaction(o)
     ELSE Goto(o, "resolving", With("open")) /\ UNCHANGED lock
  /\ UNCHANGED <<status, condition, admin, flips, rollbacks>>

(* Every row read as OPEN becomes RESOLVED, whatever it is by now; one     *)
(* that was deleted makes the flush, and so the transaction, fail.         *)
ResolvedRows(o) == observer[o].found

CommitResolve(o) ==
  /\ observer[o].pc = "resolving"
  /\ status' = IF observer[o].found \cap With("deleted") # {} THEN status
               ELSE [p \in Row |-> IF p \in ResolvedRows(o) THEN "resolved" ELSE status[p]]
  /\ EndTransaction(o)
  /\ UNCHANGED <<condition, admin, flips, rollbacks>>

(* Something else in the same transaction failed. *)
Rollback(o) ==
  /\ observer[o].pc # "idle"
  /\ rollbacks < MaxRollbacks
  /\ rollbacks' = rollbacks + 1
  /\ EndTransaction(o)
  /\ UNCHANGED <<status, condition, admin, flips>>

-----------------------------------------------------------------------------
(* POST /problems/{id}/resolve and DELETE /problems/{id}                   *)

Load(a) ==
  /\ admin[a].pc = "new"
  /\ \E p \in With("open") \cup With("resolved") \cup With("dismissed") :
       admin' = [admin EXCEPT ![a] = [pc |-> "loaded", row |-> p, seen |-> status[p]]]
  /\ UNCHANGED <<status, condition, lock, observer, flips, rollbacks>>

(* The request answers; a row deleted meanwhile makes its UPDATE fail. *)
Answer(a, new) ==
  /\ admin[a].pc = "loaded"
  /\ admin' = [admin EXCEPT ![a].pc = "answered"]
  /\ status' = IF status[admin[a].row] = "deleted" THEN status
               ELSE [status EXCEPT ![admin[a].row] = new]
  /\ UNCHANGED <<condition, lock, observer, flips, rollbacks>>

Dismiss(a) == admin[a].seen = "open" /\ Answer(a, "dismissed")

(* confirm_movie_match and confirm_show_match, which ask TMDB between the  *)
(* check of the status and the write.                                      *)
Confirm(a) == admin[a].seen = "open" /\ Answer(a, "resolved")

(* Restoring beside an OPEN row violates the index: the request fails. *)
RestoreRefused(a) == Indexed /\ With("open") \ {admin[a].row} # {}

Restore(a) ==
  /\ admin[a].seen = "dismissed"
  /\ \/ ~RestoreRefused(a) /\ Answer(a, "open")
     \/ RestoreRefused(a) /\ Answer(a, status[admin[a].row])

Delete(a) == Answer(a, "deleted")

-----------------------------------------------------------------------------
ObserverStep(o) ==
  \/ Observe(o) \/ AcquireLock(o) \/ ReadSuppressed(o) \/ ReadOpen(o)
  \/ Insert(o) \/ Refresh(o) \/ ReadResolvable(o) \/ CommitResolve(o)

AdminStep(a) == Load(a) \/ Dismiss(a) \/ Confirm(a) \/ Restore(a) \/ Delete(a)

Next ==
  \/ Flip
  \/ \E o \in Observer : ObserverStep(o) \/ Rollback(o)
  \/ \E a \in Admin : AdminStep(a)

Spec == Init /\ [][Next]_vars

(* The poll loop observes again every second, and the database answers;    *)
(* administrators and failures owe nothing.                                *)
FairSpec == Spec /\ \A o \in Observer : WF_vars(ObserverStep(o))

-----------------------------------------------------------------------------
(* Properties                                                              *)

(* "Exactly one durable OPEN problem may represent a given condition"      *)
(* (models/domain.py): at most one row is OPEN, whatever observers and     *)
(* administrators race.                                                    *)
AtMostOneOpen == \A p, q \in With("open") : p = q

(* A condition that has gone away for good does not stay in the queue: in  *)
(* the end no row is OPEN, even after a restore, a stale observer or a     *)
(* transaction that failed.                                                *)
StaleProblemsClear == <>[](~condition) => <>[](With("open") = {})

(* A condition that stays is never lost: in the end there is always an     *)
(* OPEN row for it or a DISMISSED row by which an administrator muted it.  *)
StandingConditionShows ==
  <>[]condition => <>[](With("open") \cup With("dismissed") # {})

=============================================================================

------------------------- MODULE ProblemQueueProofs -------------------------
(***************************************************************************)
(* One OPEN row per problem identity, for every number of observers and    *)
(* rows, by the advisory lock alone: in an old schema without the index,   *)
(* where no administrator restores a row.                                  *)
(***************************************************************************)
EXTENDS ProblemQueue, TLAPS

USE DEF ProblemStatus, ObserverPhase

(* What an observer's step leaves of the types, whichever phase it is in.  *)
LEMMA ObserverType ==
  ASSUME TypeOK, NEW o \in Observer, ObserverStep(o) \/ Rollback(o)
  PROVE  TypeOK'
<1> USE DEF TypeOK, Goto, EndTransaction, Idle
<1>1. CASE Observe(o)
  BY <1>1 DEF Observe
<1>2. CASE AcquireLock(o)
  BY <1>2 DEF AcquireLock
<1>3. CASE ReadSuppressed(o)
  BY <1>3 DEF ReadSuppressed, Suppressing, With
<1>4. CASE ReadOpen(o)
  BY <1>4 DEF ReadOpen, With
<1>5. CASE Insert(o)
  BY <1>5 DEF Insert, With
<1>6. CASE Refresh(o)
  BY <1>6 DEF Refresh
<1>7. CASE ReadResolvable(o)
  BY <1>7 DEF ReadResolvable, With
<1>8. CASE CommitResolve(o)
  BY <1>8 DEF CommitResolve, ResolvedRows
<1>9. CASE Rollback(o)
  BY <1>9, BoundAssumption DEF Rollback
<1> QED BY <1>1, <1>2, <1>3, <1>4, <1>5, <1>6, <1>7, <1>8, <1>9 DEF ObserverStep

(* What a request of an administrator leaves of the types. *)
LEMMA AdminType ==
  ASSUME TypeOK, NEW a \in Admin, AdminStep(a)
  PROVE  TypeOK'
<1> USE DEF TypeOK
<1>0. ASSUME NEW new \in ProblemStatus, Answer(a, new)
      PROVE  TypeOK'
  BY <1>0 DEF Answer
<1>1. CASE Load(a)
  BY <1>1 DEF Load, With
<1>2. CASE Dismiss(a)
  BY <1>0, <1>2 DEF Dismiss
<1>3. CASE Confirm(a)
  BY <1>0, <1>3 DEF Confirm
<1>4. CASE Restore(a)
  <2>1. admin[a].row \in Row
    OBVIOUS
  <2>2. \E new \in ProblemStatus : Answer(a, new)
    BY <1>4, <2>1 DEF Restore
  <2> QED BY <1>0, <2>2
<1>5. CASE Delete(a)
  BY <1>0, <1>5 DEF Delete
<1> QED BY <1>1, <1>2, <1>3, <1>4, <1>5 DEF AdminStep

(* Every step keeps the types. *)
LEMMA TypeStep == TypeOK /\ [Next]_vars => TypeOK'
<1> SUFFICES ASSUME TypeOK, [Next]_vars PROVE TypeOK' OBVIOUS
<1>1. CASE Flip
  BY <1>1, BoundAssumption DEF Flip, TypeOK
<1>2. CASE \E o \in Observer : ObserverStep(o) \/ Rollback(o)
  BY <1>2, ObserverType
<1>3. CASE \E a \in Admin : AdminStep(a)
  BY <1>3, AdminType
<1>4. CASE UNCHANGED vars
  BY <1>4 DEF vars, TypeOK
<1> QED BY <1>1, <1>2, <1>3, <1>4 DEF Next

(* Every state has the types that TypeOK gives its rows and transactions. *)
THEOREM TypeCorrect == Spec => []TypeOK
<1>1. Init => TypeOK
  BY BoundAssumption DEF Init, TypeOK, Idle, Row
<1> QED BY <1>1, TypeStep, PTL DEF Spec

-----------------------------------------------------------------------------
(* An observer's step only takes rows out of OPEN, but for an Insert the   *)
(* index lets through.                                                     *)
LEMMA ObserverOpens ==
  ASSUME TypeOK, NEW o \in Observer, ObserverStep(o) \/ Rollback(o)
  PROVE  \/ With("open")' \subseteq With("open")
         \/ /\ observer[o].pc = "insert"
            /\ ~IndexRefuses
            /\ \E p \in Row : With("open")' \subseteq With("open") \cup {p}
<1> USE DEF TypeOK, Goto, EndTransaction, With
<1>1. CASE Observe(o) \/ AcquireLock(o) \/ ReadSuppressed(o) \/ ReadOpen(o)
           \/ Refresh(o) \/ ReadResolvable(o) \/ Rollback(o)
  <2>1. status' = status
    BY <1>1 DEF Observe, AcquireLock, ReadSuppressed, ReadOpen, Refresh,
                ReadResolvable, Rollback
  <2> QED BY <2>1
<1>2. CASE Insert(o)
  BY <1>2 DEF Insert
<1>3. CASE CommitResolve(o)
  BY <1>3 DEF CommitResolve, ResolvedRows
<1> QED BY <1>1, <1>2, <1>3 DEF ObserverStep

-----------------------------------------------------------------------------
(* The invariant behind the advisory lock: it has one holder, who holds it *)
(* from its first read to the end of its transaction, so that nobody opens *)
(* a row between the read that found none and the insert.                  *)
LockHeld ==
  /\ \A o, p \in lock : o = p
  /\ \A o \in Observer :
       /\ observer[o].pc \in {"locked", "clear", "insert", "conflict", "refresh"}
            => o \in lock
       /\ observer[o].pc = "insert" => With("open") = {}

(* Without the index the advisory lock is enough, as long as no            *)
(* administrator restores a row: a restore takes no lock.                  *)
THEOREM LockKeepsOne ==
  ASSUME Advisory, Admin = {}
  PROVE  Spec => []AtMostOneOpen
<1>1. Init => AtMostOneOpen /\ LockHeld
  BY DEF Init, AtMostOneOpen, LockHeld, With, Idle
<1>2. TypeOK /\ AtMostOneOpen /\ LockHeld /\ [Next]_vars => (AtMostOneOpen /\ LockHeld)'
  <2> SUFFICES ASSUME TypeOK, AtMostOneOpen, LockHeld, [Next]_vars
               PROVE  AtMostOneOpen' /\ LockHeld'
    OBVIOUS
  <2>1. CASE Flip \/ UNCHANGED vars
    <3>1. UNCHANGED <<status, lock, observer>> BY <2>1 DEF Flip, vars
    <3> QED BY <3>1 DEF AtMostOneOpen, LockHeld, With
  <2>2. ASSUME NEW o \in Observer, ObserverStep(o) \/ Rollback(o)
        PROVE  AtMostOneOpen' /\ LockHeld'
    <3>1. AtMostOneOpen'
      BY <2>2, ObserverOpens DEF AtMostOneOpen, LockHeld
    <3>2. ASSUME NEW n \in Observer, n # o PROVE observer'[n] = observer[n]
      BY <2>2, <3>2 DEF ObserverStep, TypeOK, Goto, EndTransaction, Observe,
         AcquireLock, ReadSuppressed, ReadOpen, Insert, Refresh,
         ReadResolvable, CommitResolve, Rollback
    <3>3. CASE AcquireLock(o)
      <4>1. lock = {} /\ lock' = {o} /\ status' = status
        BY <3>3 DEF AcquireLock, LockFree
      <4>2. observer'[o].pc = "locked"
        BY <3>3 DEF AcquireLock, Goto, TypeOK
      <4>3. \A n \in Observer : n # o => observer[n].pc \notin
              {"locked", "clear", "insert", "conflict", "refresh"}
        BY <4>1 DEF LockHeld
      <4> QED BY <3>1, <3>2, <4>1, <4>2, <4>3 DEF LockHeld
    <3>4. CASE Insert(o)
      <4>1. o \in lock /\ lock = {o}
        BY <3>4 DEF Insert, LockHeld
      <4>2. ~IndexRefuses
        BY <3>4 DEF Insert, IndexRefuses, LockHeld
      <4>3. observer'[o].pc = "idle" /\ lock' = {}
        BY <3>4, <4>1, <4>2 DEF Insert, EndTransaction, Idle, TypeOK
      <4> QED BY <3>1, <3>2, <4>1, <4>3 DEF LockHeld
    <3>5. CASE Observe(o) \/ ReadSuppressed(o) \/ ReadOpen(o) \/ Refresh(o)
               \/ ReadResolvable(o) \/ Rollback(o)
      <4>1. status' = status
        BY <3>5 DEF Observe, ReadSuppressed, ReadOpen, Refresh, ReadResolvable, Rollback
      <4>2. \/ lock' = lock
            \/ lock' = lock \ {o} /\ observer'[o].pc = "idle"
        <5>1. CASE EndTransaction(o)
          BY <5>1 DEF EndTransaction, Idle, TypeOK
        <5>2. CASE lock' = lock
          BY <5>2
        <5> QED BY <3>5, <5>1, <5>2 DEF Observe, ReadSuppressed, ReadOpen, Refresh,
                ReadResolvable, Rollback
      <4>3. observer'[o].pc \in {"clear", "insert", "refresh", "conflict", "locked"}
              => /\ o \in lock'
                 /\ observer'[o].pc = "insert" => With("open") = {}
        BY <3>5, <4>2 DEF Observe, ReadSuppressed, ReadOpen, Refresh, ReadResolvable,
           Rollback, EndTransaction, Idle, Goto, TypeOK, LockHeld
      <4> QED BY <3>1, <3>2, <4>1, <4>2, <4>3 DEF LockHeld, With
    <3>6. CASE CommitResolve(o)
      <4>1. With("open")' \subseteq With("open")
        BY <3>6 DEF CommitResolve, ResolvedRows, With, TypeOK
      <4>2. lock' = lock \ {o} /\ observer'[o].pc = "idle"
        BY <3>6 DEF CommitResolve, EndTransaction, Idle, TypeOK
      <4> QED BY <3>1, <3>2, <4>1, <4>2 DEF LockHeld
    <3> QED BY <2>2, <3>1, <3>3, <3>4, <3>5, <3>6 DEF ObserverStep
  <2> QED BY <2>1, <2>2 DEF Next
<1> QED BY <1>1, <1>2, TypeCorrect, PTL DEF Spec
=============================================================================

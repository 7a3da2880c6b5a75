--------------------------- MODULE ThreadPoolProofs ---------------------------
(***************************************************************************)
(* Theorems about ThreadPool, for any number of workers, callers and tasks.*)
(***************************************************************************)
EXTENDS ThreadPool, FiniteSetTheorems, SequenceTheorems, TLAPS

USE WorkersAssumption, CallersAssumption, EndlessAssumption, NoneAssumption

-----------------------------------------------------------------------------
(* The inductive invariant.                                                *)

WorkersIn ==
  {w \in Workers : wpc[w] \in {"size", "giveUp", "front", "erase", "release"}}
CallersIn == {c \in Callers : cpc[c] \in {"push", "unlock"}}
DestroyerIn == dpc \in {"clear", "unlock"}

\* list_mutex is a lock: flag tells whether one thread is inside.
LockInv ==
  /\ flag <=> WorkersIn \cup CallersIn # {} \/ DestroyerIn
  /\ \A x, y \in WorkersIn \cup CallersIn : x = y
  /\ DestroyerIn => WorkersIn \cup CallersIn = {}

Distinct(s) == \A i, j \in DOMAIN s : s[i] = s[j] => i = j

\* Each task is added by one caller, once, and not during the destruction.
AddInv ==
  /\ \A c \in Callers : cpc[c] = "idle" <=> adding[c] = None
  /\ \A c, d \in Callers : adding[c] = adding[d] /\ adding[c] # None => c = d
  /\ \A c \in Callers : cpc[c] = "push" => ~Among(adding[c], pushed)
  /\ dpc # "no" => \A c \in Callers : cpc[c] = "idle"
  /\ Distinct(pushed)

\* What the worker inside the lock has in its hands.
TakeInv ==
  /\ NoEmptyPop
  /\ \A w \in Workers : wpc[w] = "erase" => held[w] = Head(tasks)
  /\ ~Cleared => pushed = started \o tasks
  /\ Cleared => tasks = <<>> /\ started = SubSeq(pushed, 1, Len(started))
  /\ Cleared => Len(started) <= Len(pushed)

PoolInv == TypeOK /\ LockInv /\ AddInv /\ TakeInv

-----------------------------------------------------------------------------
(***************************************************************************)
(* Nothing is there before the first addThread and addTask.                *)
(***************************************************************************)
LEMMA PoolInvInit == Init => PoolInv
<1> SUFFICES ASSUME Init PROVE PoolInv
  OBVIOUS
<1>1. bStop \in BOOLEAN /\ flag \in BOOLEAN /\ ~flag
  BY Zenon DEF Init
<1>2. TypeOK
  BY <1>1 DEF Init, TypeOK
<1>3. LockInv /\ AddInv
  BY <1>1 DEF Init, LockInv, WorkersIn, CallersIn, DestroyerIn, AddInv, Distinct,
     Among
<1>4. TakeInv
  BY DEF Init, TakeInv, NoEmptyPop, Cleared
<1> QED BY <1>2, <1>3, <1>4 DEF PoolInv

(***************************************************************************)
(* A notify_one wakes one of the waiting workers, or is counted as missed. *)
(***************************************************************************)
LEMMA NotifyType ==
  ASSUME TypeOK, NotifyOne
  PROVE  /\ wpc' \in [Workers -> {"unborn", "top", "pred", "gap", "blocked",
                     "lock", "size", "giveUp", "front", "erase", "release",
                     "run", "done"}]
         /\ missed' \in Nat
<1>1. CASE \E w \in Blocked : wpc' = [wpc EXCEPT ![w] = "pred"] /\ UNCHANGED missed
  BY <1>1 DEF TypeOK, Blocked
<1>2. CASE UNCHANGED wpc /\ missed' = IF InGap = {} THEN missed ELSE missed + 1
  BY <1>2 DEF TypeOK
<1> QED BY <1>1, <1>2 DEF NotifyOne

(***************************************************************************)
(* Every step keeps the types.                                             *)
(***************************************************************************)
LEMMA PoolTypeStep ==
  ASSUME PoolInv, [Next]_vars
  PROVE  TypeOK'
<1> USE DEF PoolInv, TypeOK, workerVars, callerVars, destroyVars, WorkerGoto,
        CallerGoto, DestroyGoto, AddInv, TakeInv
<1>1. ASSUME NEW w \in Workers,
             AddThread(w) \/ WorkerStep(w) \/ SpuriousWakeup(w)
      PROVE  TypeOK'
  <2>1. CASE AddThread(w) BY <1>1, <2>1 DEF AddThread
  <2>2. CASE SpuriousWakeup(w) BY <1>1, <2>2 DEF SpuriousWakeup
  <2>3. CASE CheckStop(w) BY <1>1, <2>3 DEF CheckStop
  <2>4. CASE Predicate(w) BY <1>1, <2>4 DEF Predicate
  <2>5. CASE Wait(w) BY <1>1, <2>5 DEF Wait
  <2>6. CASE WorkerLock(w) BY <1>1, <2>6 DEF WorkerLock, Lock
  <2>7. CASE SizeCheck(w) BY <1>1, <2>7 DEF SizeCheck, NothingLeft
  <2>8. CASE GiveUp(w) BY <1>1, <2>8 DEF GiveUp, Unlock, AfterGivingUp
  <2>9. CASE Front(w) BY <1>1, <2>9 DEF Front
  <2>10. CASE Erase(w)
    <3>1. held[w] = Head(tasks) /\ tasks # <<>>
      BY <1>1, <2>10 DEF Erase
    <3>2. held[w] \in Tasks /\ Tail(tasks) \in Seq(Tasks)
      BY <3>1
    <3> QED BY <1>1, <2>10, <3>2 DEF Erase
  <2>11. CASE Release(w) BY <1>1, <2>11 DEF Release, Unlock
  <2>12. CASE Return(w) BY <1>1, <2>12 DEF Return
  <2> QED BY <1>1, <2>1, <2>2, <2>3, <2>4, <2>5, <2>6, <2>7, <2>8, <2>9,
             <2>10, <2>11, <2>12 DEF WorkerStep
<1>2. ASSUME NEW c \in Callers, AddTask(c)
      PROVE  TypeOK'
  <2>1. CASE AddPush(c) BY <1>2, <2>1 DEF AddPush, Enqueue
  <2>2. CASE AddUnlock(c) BY <1>2, <2>2 DEF AddUnlock, Unlock
  <2>3. CASE AddNotify(c)
    BY <1>2, <2>3, NotifyType DEF AddNotify, NotifyOfTask
  <2> QED BY <1>2, <2>1, <2>2, <2>3 DEF AddTask
<1>3. ASSUME NEW c \in Callers, NEW t \in Tasks, AddLock(c, t)
      PROVE  TypeOK'
  BY <1>3 DEF AddLock, Lock, InUse
<1>4. CASE Destroy \/ DestroyStep
  <2>1. CASE Destroy BY <1>4, <2>1 DEF Destroy
  <2>2. CASE DestroyLock BY <1>4, <2>2 DEF DestroyLock, Lock
  <2>3. CASE DestroyClear BY <1>4, <2>3 DEF DestroyClear
  <2>4. CASE DestroyUnlock BY <1>4, <2>4 DEF DestroyUnlock, Unlock
  <2>5. CASE DestroyNotify
    BY <1>4, <2>5, NotifyType DEF DestroyNotify
  <2>6. CASE DestroyJoin BY <1>4, <2>6 DEF DestroyJoin
  <2>7. CASE DestroyEnd BY <1>4, <2>7 DEF DestroyEnd
  <2> QED BY <1>4, <2>1, <2>2, <2>3, <2>4, <2>5, <2>6, <2>7 DEF DestroyStep
<1>5. CASE UNCHANGED vars BY <1>5 DEF vars
<1> QED BY <1>1, <1>2, <1>3, <1>4, <1>5 DEF Next

(***************************************************************************)
(* At most one thread is between lock and unlock of list_mutex.            *)
(***************************************************************************)
LEMMA LockStep ==
  ASSUME PoolInv, TypeOK', [Next]_vars
  PROVE  LockInv'
<1> USE DEF PoolInv, TypeOK, workerVars, callerVars, destroyVars, WorkerGoto,
        CallerGoto, DestroyGoto, LockInv, WorkersIn, CallersIn, DestroyerIn,
        AddInv
<1>1. ASSUME NEW w \in Workers,
             AddThread(w) \/ WorkerStep(w) \/ SpuriousWakeup(w)
      PROVE  LockInv'
  <2>1. CASE AddThread(w) BY <1>1, <2>1 DEF AddThread
  <2>2. CASE SpuriousWakeup(w) BY <1>1, <2>2 DEF SpuriousWakeup
  <2>3. CASE CheckStop(w) BY <1>1, <2>3 DEF CheckStop
  <2>4. CASE Predicate(w) BY <1>1, <2>4 DEF Predicate
  <2>5. CASE Wait(w) BY <1>1, <2>5 DEF Wait
  <2>6. CASE WorkerLock(w) BY <1>1, <2>6 DEF WorkerLock, Lock
  <2>7. CASE SizeCheck(w) BY <1>1, <2>7 DEF SizeCheck, NothingLeft
  <2>8. CASE GiveUp(w) BY <1>1, <2>8 DEF GiveUp, Unlock, AfterGivingUp
  <2>9. CASE Front(w) BY <1>1, <2>9 DEF Front
  <2>10. CASE Erase(w) BY <1>1, <2>10 DEF Erase
  <2>11. CASE Release(w) BY <1>1, <2>11 DEF Release, Unlock
  <2>12. CASE Return(w) BY <1>1, <2>12 DEF Return
  <2> QED BY <1>1, <2>1, <2>2, <2>3, <2>4, <2>5, <2>6, <2>7, <2>8, <2>9,
             <2>10, <2>11, <2>12 DEF WorkerStep
<1>2. ASSUME NEW c \in Callers, AddTask(c)
      PROVE  LockInv'
  <2>1. CASE AddPush(c) BY <1>2, <2>1 DEF AddPush, Enqueue
  <2>2. CASE AddUnlock(c) BY <1>2, <2>2 DEF AddUnlock, Unlock
  <2>3. CASE AddNotify(c)
    BY <1>2, <2>3 DEF AddNotify, NotifyOfTask, NotifyOne, Blocked
  <2> QED BY <1>2, <2>1, <2>2, <2>3 DEF AddTask
<1>3. ASSUME NEW c \in Callers, NEW t \in Tasks, AddLock(c, t)
      PROVE  LockInv'
  BY <1>3 DEF AddLock, Lock, InUse
<1>4. CASE Destroy \/ DestroyStep
  <2>1. CASE Destroy BY <1>4, <2>1 DEF Destroy
  <2>2. CASE DestroyLock BY <1>4, <2>2 DEF DestroyLock, Lock
  <2>3. CASE DestroyClear BY <1>4, <2>3 DEF DestroyClear
  <2>4. CASE DestroyUnlock BY <1>4, <2>4 DEF DestroyUnlock, Unlock
  <2>5. CASE DestroyNotify BY <1>4, <2>5 DEF DestroyNotify, NotifyOne, Blocked
  <2>6. CASE DestroyJoin BY <1>4, <2>6 DEF DestroyJoin
  <2>7. CASE DestroyEnd BY <1>4, <2>7 DEF DestroyEnd
  <2> QED BY <1>4, <2>1, <2>2, <2>3, <2>4, <2>5, <2>6, <2>7 DEF DestroyStep
<1>5. CASE UNCHANGED vars BY <1>5 DEF vars
<1> QED BY <1>1, <1>2, <1>3, <1>4, <1>5 DEF Next

(***************************************************************************)
(* No task is added twice.                                                 *)
(***************************************************************************)
LEMMA AddStep ==
  ASSUME PoolInv, TypeOK', [Next]_vars
  PROVE  AddInv'
<1> USE DEF PoolInv, TypeOK, workerVars, callerVars, destroyVars, WorkerGoto,
        CallerGoto, DestroyGoto, LockInv, CallersIn, AddInv, Distinct, Among
<1>1. ASSUME NEW w \in Workers,
             AddThread(w) \/ WorkerStep(w) \/ SpuriousWakeup(w)
      PROVE  AddInv'
  <2>1. CASE AddThread(w) BY <1>1, <2>1 DEF AddThread
  <2>2. CASE SpuriousWakeup(w) BY <1>1, <2>2 DEF SpuriousWakeup
  <2>3. CASE CheckStop(w) BY <1>1, <2>3 DEF CheckStop
  <2>4. CASE Predicate(w) BY <1>1, <2>4 DEF Predicate
  <2>5. CASE Wait(w) BY <1>1, <2>5 DEF Wait
  <2>6. CASE WorkerLock(w) BY <1>1, <2>6 DEF WorkerLock, Lock
  <2>7. CASE SizeCheck(w) BY <1>1, <2>7 DEF SizeCheck, NothingLeft
  <2>8. CASE GiveUp(w) BY <1>1, <2>8 DEF GiveUp, Unlock, AfterGivingUp
  <2>9. CASE Front(w) BY <1>1, <2>9 DEF Front
  <2>10. CASE Erase(w) BY <1>1, <2>10 DEF Erase
  <2>11. CASE Release(w) BY <1>1, <2>11 DEF Release, Unlock
  <2>12. CASE Return(w) BY <1>1, <2>12 DEF Return
  <2> QED BY <1>1, <2>1, <2>2, <2>3, <2>4, <2>5, <2>6, <2>7, <2>8, <2>9,
             <2>10, <2>11, <2>12 DEF WorkerStep
<1>2. ASSUME NEW c \in Callers, AddTask(c)
      PROVE  AddInv'
  <2>1. CASE AddPush(c) BY <1>2, <2>1 DEF AddPush, Enqueue
  <2>2. CASE AddUnlock(c) BY <1>2, <2>2 DEF AddUnlock, Unlock
  <2>3. CASE AddNotify(c)
    BY <1>2, <2>3 DEF AddNotify, NotifyOfTask, NotifyOne, Blocked
  <2> QED BY <1>2, <2>1, <2>2, <2>3 DEF AddTask
<1>3. ASSUME NEW c \in Callers, NEW t \in Tasks, AddLock(c, t)
      PROVE  AddInv'
  BY <1>3 DEF AddLock, Lock, InUse
<1>4. CASE Destroy \/ DestroyStep
  <2>1. CASE Destroy BY <1>4, <2>1 DEF Destroy
  <2>2. CASE DestroyLock BY <1>4, <2>2 DEF DestroyLock, Lock
  <2>3. CASE DestroyClear BY <1>4, <2>3 DEF DestroyClear
  <2>4. CASE DestroyUnlock BY <1>4, <2>4 DEF DestroyUnlock, Unlock
  <2>5. CASE DestroyNotify BY <1>4, <2>5 DEF DestroyNotify, NotifyOne, Blocked
  <2>6. CASE DestroyJoin BY <1>4, <2>6 DEF DestroyJoin
  <2>7. CASE DestroyEnd BY <1>4, <2>7 DEF DestroyEnd
  <2> QED BY <1>4, <2>1, <2>2, <2>3, <2>4, <2>5, <2>6, <2>7 DEF DestroyStep
<1>5. CASE UNCHANGED vars BY <1>5 DEF vars
<1> QED BY <1>1, <1>2, <1>3, <1>4, <1>5 DEF Next

(***************************************************************************)
(* Appending to the right part of a concatenation appends to the whole.    *)
(***************************************************************************)
LEMMA AppendRight ==
  \A u, v \in Seq(Tasks), e \in Tasks : Append(u \o v, e) = u \o Append(v, e)
<1> SUFFICES ASSUME NEW u \in Seq(Tasks), NEW v \in Seq(Tasks), NEW e \in Tasks
             PROVE  Append(u \o v, e) = u \o Append(v, e)
  OBVIOUS
<1>1. <<e>> \in Seq(Tasks) /\ u \o v \in Seq(Tasks)
  BY ConcatProperties
<1>2. Append(u \o v, e) = (u \o v) \o <<e>>
  BY <1>1, AppendIsConcat
<1>3. Append(v, e) = v \o <<e>>
  BY AppendIsConcat
<1> QED BY <1>1, <1>2, <1>3, ConcatAssociative

(***************************************************************************)
(* What is taken and what is left make up what was added.                  *)
(***************************************************************************)
LEMMA TakeStep ==
  ASSUME PoolInv, TypeOK', [Next]_vars
  PROVE  TakeInv'
<1> USE DEF PoolInv, TypeOK, workerVars, callerVars, destroyVars, WorkerGoto,
        CallerGoto, DestroyGoto, LockInv, WorkersIn, CallersIn, DestroyerIn,
        AddInv, TakeInv, NoEmptyPop, Cleared
<1>1. ASSUME NEW w \in Workers,
             AddThread(w) \/ WorkerStep(w) \/ SpuriousWakeup(w)
      PROVE  TakeInv'
  <2>1. CASE AddThread(w) BY <1>1, <2>1 DEF AddThread
  <2>2. CASE SpuriousWakeup(w) BY <1>1, <2>2 DEF SpuriousWakeup
  <2>3. CASE CheckStop(w) BY <1>1, <2>3 DEF CheckStop
  <2>4. CASE Predicate(w) BY <1>1, <2>4 DEF Predicate
  <2>5. CASE Wait(w) BY <1>1, <2>5 DEF Wait
  <2>6. CASE WorkerLock(w) BY <1>1, <2>6 DEF WorkerLock, Lock
  <2>7. CASE SizeCheck(w) BY <1>1, <2>7 DEF SizeCheck, NothingLeft
  <2>8. CASE GiveUp(w) BY <1>1, <2>8 DEF GiveUp, Unlock, AfterGivingUp
  <2>9. CASE Front(w) BY <1>1, <2>9 DEF Front
  <2>10. CASE Erase(w) BY <1>1, <2>10 DEF Erase
  <2>11. CASE Release(w) BY <1>1, <2>11 DEF Release, Unlock
  <2>12. CASE Return(w) BY <1>1, <2>12 DEF Return
  <2> QED BY <1>1, <2>1, <2>2, <2>3, <2>4, <2>5, <2>6, <2>7, <2>8, <2>9,
             <2>10, <2>11, <2>12 DEF WorkerStep
<1>2. ASSUME NEW c \in Callers, AddTask(c)
      PROVE  TakeInv'
  <2>1. CASE AddPush(c)
    <3>1. adding[c] \in Tasks /\ ~Cleared
      BY <1>2, <2>1 DEF AddPush
    <3>2. /\ tasks \in Seq(Tasks) /\ started \in Seq(Tasks)
          /\ pushed = started \o tasks
          /\ tasks' = Append(tasks, adding[c])
          /\ pushed' = Append(pushed, adding[c])
          /\ started' = started
      BY <1>2, <2>1, <3>1 DEF AddPush, Enqueue
    <3>3. pushed' = started' \o tasks'
      <4>1. Append(started \o tasks, adding[c])
              = started \o Append(tasks, adding[c])
        BY <3>1, <3>2, AppendRight
      <4> QED BY <3>2, <4>1
    <3>4. tasks' # <<>> /\ (tasks # <<>> => Head(tasks') = Head(tasks))
      BY <3>1, <3>2, AppendProperties, HeadTailAppend
    <3> QED BY <1>2, <2>1, <3>1, <3>3, <3>4 DEF AddPush
  <2>2. CASE AddUnlock(c) BY <1>2, <2>2 DEF AddUnlock, Unlock
  <2>3. CASE AddNotify(c)
    BY <1>2, <2>3 DEF AddNotify, NotifyOfTask, NotifyOne, Blocked
  <2> QED BY <1>2, <2>1, <2>2, <2>3 DEF AddTask
<1>3. ASSUME NEW c \in Callers, NEW t \in Tasks, AddLock(c, t)
      PROVE  TakeInv'
  BY <1>3 DEF AddLock, Lock, InUse
<1>4. CASE Destroy \/ DestroyStep
  <2>1. CASE Destroy BY <1>4, <2>1 DEF Destroy
  <2>2. CASE DestroyLock BY <1>4, <2>2 DEF DestroyLock, Lock
  <2>3. CASE DestroyClear BY <1>4, <2>3 DEF DestroyClear
  <2>4. CASE DestroyUnlock BY <1>4, <2>4 DEF DestroyUnlock, Unlock
  <2>5. CASE DestroyNotify BY <1>4, <2>5 DEF DestroyNotify, NotifyOne, Blocked
  <2>6. CASE DestroyJoin BY <1>4, <2>6 DEF DestroyJoin
  <2>7. CASE DestroyEnd BY <1>4, <2>7 DEF DestroyEnd
  <2> QED BY <1>4, <2>1, <2>2, <2>3, <2>4, <2>5, <2>6, <2>7 DEF DestroyStep
<1>5. CASE UNCHANGED vars BY <1>5 DEF vars
<1> QED BY <1>1, <1>2, <1>3, <1>4, <1>5 DEF Next

-----------------------------------------------------------------------------
(* The properties.                                                         *)

(***************************************************************************)
(* The lock is a lock, no task is added twice, and the workers take from   *)
(* the list what was put there, in every state.                            *)
(***************************************************************************)
THEOREM PoolInvCorrect == Spec => []PoolInv
<1>1. PoolInv /\ [Next]_vars => PoolInv'
  BY PoolTypeStep, LockStep, AddStep, TakeStep DEF PoolInv
<1> QED BY PoolInvInit, <1>1, PTL DEF Spec

(***************************************************************************)
(* Every variable of the pool has its type.                                *)
(***************************************************************************)
THEOREM PoolTypeCorrect == Spec => []TypeOK
<1>1. PoolInv => TypeOK
  BY DEF PoolInv
<1> QED BY PoolInvCorrect, <1>1, PTL

(***************************************************************************)
(* No worker goes on to front or erase of an empty list, however many see  *)
(* the same task through the lock-free test of the wait.                   *)
(***************************************************************************)
THEOREM NoEmptyPopCorrect == Spec => []NoEmptyPop
<1>1. PoolInv => NoEmptyPop
  BY DEF PoolInv, TakeInv
<1> QED BY PoolInvCorrect, <1>1, PTL

(***************************************************************************)
(* Tasks are taken in the order in which they were added, each once, and   *)
(* none is lost.                                                           *)
(***************************************************************************)
THEOREM FifoOnceCorrect == Spec => []FifoOnce
<1>1. ASSUME PoolInv PROVE FifoOnce
  <2> USE <1>1 DEF PoolInv, TypeOK
  <2>1. /\ Len(started) <= Len(pushed)
        /\ \A i \in 1 .. Len(started) : started[i] = pushed[i]
    <3>1. CASE ~Cleared
      <4>1. pushed = started \o tasks
        BY <3>1 DEF TakeInv
      <4> QED BY <4>1, ConcatProperties
    <3>2. CASE Cleared
      <4>1. started = SubSeq(pushed, 1, Len(started)) /\ Len(started) <= Len(pushed)
        BY <3>2 DEF TakeInv
      <4>2. \A i \in 1 .. Len(started) : pushed[i] \in Tasks
        BY <4>1
      <4> QED BY <4>1, <4>2, SubSeqProperties
    <3> QED BY <3>1, <3>2
  <2>2. \A i, j \in DOMAIN started : started[i] = started[j] => i = j
    BY <2>1 DEF AddInv, Distinct
  <2> QED BY <2>2 DEF FifoOnce, TakeInv
<1> QED BY PoolInvCorrect, <1>1, PTL

-----------------------------------------------------------------------------
(* No worker oversleeps.                                                   *)

(***************************************************************************)
(* The sets whose sizes NoOversleep adds up are finite.                    *)
(***************************************************************************)
LEMMA CountsAreNumbers ==
  /\ IsFiniteSet(Telling) /\ Cardinality(Telling) \in Nat
  /\ IsFiniteSet(Alert) /\ Cardinality(Alert) \in Nat
  /\ IsFiniteSet(Telling') /\ Cardinality(Telling') \in Nat
  /\ IsFiniteSet(Alert') /\ Cardinality(Alert') \in Nat
<1>1. /\ Telling \in SUBSET Callers /\ Telling' \in SUBSET Callers
      /\ Alert \in SUBSET Workers /\ Alert' \in SUBSET Workers
  BY DEF Telling, Alert
<1> QED BY <1>1, FS_Subset, FS_CardinalityType

(***************************************************************************)
(* A step that puts nobody to sleep, adds no task and takes nobody off     *)
(* the way to the list changes nothing for the worse.                      *)
(***************************************************************************)
LEMMA Harmless ==
  ASSUME TypeOK, TypeOK', NoOversleep,
         Asleep' \subseteq Asleep, Telling \subseteq Telling',
         Alert \subseteq Alert', Len(tasks') <= Len(tasks), missed' >= missed
  PROVE  NoOversleep'
<1>1. /\ Cardinality(Telling) <= Cardinality(Telling')
      /\ Cardinality(Alert) <= Cardinality(Alert')
  BY CountsAreNumbers, FS_Subset
<1>2. Len(tasks) \in Nat /\ Len(tasks') \in Nat
  BY DEF TypeOK
<1> QED BY <1>1, <1>2, CountsAreNumbers DEF NoOversleep, TypeOK

(***************************************************************************)
(* A list that is empty is told of by nobody.                              *)
(***************************************************************************)
LEMMA Emptied ==
  ASSUME TypeOK', tasks' = <<>>
  PROVE  NoOversleep'
<1>1. Len(tasks') = 0
  OBVIOUS
<1> QED BY <1>1, CountsAreNumbers DEF NoOversleep, TypeOK

(***************************************************************************)
(* A notify_one, while someone still sleeps after it, has put one worker   *)
(* on its way or is counted as missed.                                     *)
(***************************************************************************)
LEMMA NotifyCounts ==
  ASSUME TypeOK, TypeOK', NotifyOne
  PROVE  /\ Asleep' \subseteq Asleep /\ Alert \subseteq Alert'
         /\ missed' >= missed
         /\ Asleep' # {} =>
              Cardinality(Alert') + missed' = Cardinality(Alert) + missed + 1
<1>1. CASE \E w \in Blocked : wpc' = [wpc EXCEPT ![w] = "pred"] /\ UNCHANGED missed
  <2>1. PICK w \in Blocked : wpc' = [wpc EXCEPT ![w] = "pred"] /\ UNCHANGED missed
    BY <1>1
  <2>2. Alert' = Alert \cup {w} /\ w \notin Alert
    BY <2>1 DEF Alert, Blocked, TypeOK
  <2>3. Asleep' \subseteq Asleep
    BY <2>1 DEF Asleep, Blocked, InGap, TypeOK
  <2>4. Cardinality(Alert') = Cardinality(Alert) + 1
    BY <2>2, CountsAreNumbers, FS_AddElement
  <2>5. missed \in Nat /\ missed' = missed
    BY <2>1 DEF TypeOK
  <2>6. Alert \subseteq Alert'
    BY <2>2
  <2> QED BY <2>3, <2>4, <2>5, <2>6, CountsAreNumbers
<1>2. CASE /\ Blocked = {} /\ UNCHANGED wpc
           /\ missed' = IF InGap = {} THEN missed ELSE missed + 1
  <2>1. Asleep' = Asleep /\ Alert' = Alert /\ (Asleep # {} => InGap # {})
    BY <1>2 DEF Asleep, Alert, Blocked, InGap
  <2> QED BY <1>2, <2>1, CountsAreNumbers DEF TypeOK
<1> QED BY <1>1, <1>2 DEF NotifyOne

(***************************************************************************)
(* The three steps that move the balance.  A task is added: its caller     *)
(* still has to tell of it.                                                *)
(***************************************************************************)
LEMMA PushBalance ==
  ASSUME TypeOK, TypeOK', AddInv, NoOversleep, NEW c \in Callers, AddPush(c)
  PROVE  NoOversleep'
<1>1. Telling' = Telling \cup {c} /\ c \notin Telling
  BY DEF AddPush, CallerGoto, Telling, TypeOK
<1>2. Alert' = Alert /\ Asleep' = Asleep /\ missed' = missed
  BY DEF AddPush, workerVars, Alert, Asleep, Blocked, InGap
<1>3. Len(tasks') = Len(tasks) + 1
  BY DEF AddPush, CallerGoto, Enqueue, AddInv, TypeOK
<1>4. Cardinality(Telling') = Cardinality(Telling) + 1
  BY <1>1, CountsAreNumbers, FS_AddElement
<1> QED
  BY <1>2, <1>3, <1>4, CountsAreNumbers DEF NoOversleep, TypeOK

(***************************************************************************)
(* The caller notifies: a worker is on its way instead, or it was missed.  *)
(***************************************************************************)
LEMMA NotifyBalance ==
  ASSUME TypeOK, TypeOK', NoOversleep, NEW c \in Callers, AddNotify(c)
  PROVE  NoOversleep'
<1>1. Telling' = Telling \ {c} /\ c \in Telling
  BY DEF AddNotify, CallerGoto, Telling, TypeOK
<1>2. Cardinality(Telling') = Cardinality(Telling) - 1
  BY <1>1, CountsAreNumbers, FS_RemoveElement
<1>3. NotifyOne /\ tasks' = tasks
  BY DEF AddNotify, NotifyOfTask
<1>4. /\ Asleep' \subseteq Asleep
      /\ Asleep' # {} =>
           Cardinality(Alert') + missed' = Cardinality(Alert) + missed + 1
  BY <1>3, NotifyCounts
<1>5. Len(tasks) \in Nat /\ missed \in Nat /\ missed' \in Nat
  BY DEF TypeOK
<1> QED BY <1>2, <1>3, <1>4, <1>5, CountsAreNumbers DEF NoOversleep

(***************************************************************************)
(* A worker takes a task: it is no longer on its way, the list is shorter. *)
(***************************************************************************)
LEMMA EraseBalance ==
  ASSUME TypeOK, TypeOK', NoOversleep, NEW w \in Workers, Erase(w)
  PROVE  NoOversleep'
<1>1. Alert' = Alert \ {w} /\ w \in Alert
  BY DEF Erase, WorkerGoto, Alert, TypeOK
<1>2. Cardinality(Alert') = Cardinality(Alert) - 1
  BY <1>1, CountsAreNumbers, FS_RemoveElement
<1>3. Telling' = Telling /\ missed' = missed
  BY DEF Erase, callerVars, Telling
<1>4. Asleep' \subseteq Asleep
  BY DEF Erase, WorkerGoto, Asleep, Blocked, InGap, TypeOK
<1>5. /\ Len(tasks) \in Nat /\ missed \in Nat
      /\ Len(tasks') = Len(tasks) - 1
  BY DEF Erase, TypeOK
<1> QED BY <1>2, <1>3, <1>4, <1>5, CountsAreNumbers DEF NoOversleep

(***************************************************************************)
(* No step lets a worker sleep on work.                                    *)
(***************************************************************************)
LEMMA NoOversleepStep ==
  ASSUME PoolInv, TypeOK', NoOversleep, [Next]_vars
  PROVE  NoOversleep'
<1> DEFINE Quiet ==
      /\ Asleep' \subseteq Asleep /\ Telling \subseteq Telling'
      /\ Alert \subseteq Alert' /\ Len(tasks') <= Len(tasks) /\ missed' >= missed
<1>0. Quiet => NoOversleep'
  BY Harmless DEF PoolInv
<1> USE DEF workerVars, callerVars, destroyVars, Asleep, Blocked, InGap, Telling,
        Alert, PoolInv, TypeOK, WorkerGoto, CallerGoto, DestroyGoto
<1>1. ASSUME NEW w \in Workers,
             AddThread(w) \/ WorkerStep(w) \/ SpuriousWakeup(w)
      PROVE  NoOversleep'
  <2>1. CASE AddThread(w)
    <3> Quiet
      BY <1>1, <2>1 DEF AddThread
    <3> QED BY <1>0
  <2>2. CASE SpuriousWakeup(w)
    <3> Quiet
      BY <1>1, <2>2 DEF SpuriousWakeup
    <3> QED BY <1>0
  <2>3. CASE CheckStop(w)
    <3> Quiet
      BY <1>1, <2>3 DEF CheckStop
    <3> QED BY <1>0
  <2>4. CASE Predicate(w)
    <3>1. CASE bStop \/ tasks # <<>>
      <4> Quiet
        BY <1>1, <2>4, <3>1 DEF Predicate
      <4> QED BY <1>0
    <3>2. CASE ~(bStop \/ tasks # <<>>)
      BY <1>1, <2>4, <3>2, Emptied DEF Predicate
    <3> QED BY <3>1, <3>2
  <2>5. CASE Wait(w)
    <3> Quiet
      BY <1>1, <2>5 DEF Wait
    <3> QED BY <1>0
  <2>6. CASE WorkerLock(w)
    <3> Quiet
      BY <1>1, <2>6 DEF WorkerLock, Lock
    <3> QED BY <1>0
  <2>7. CASE SizeCheck(w)
    <3>1. CASE Len(tasks) <= 0
      BY <1>1, <2>7, <3>1, Emptied DEF SizeCheck
    <3>2. CASE Len(tasks) > 0
      <4> Quiet
        BY <1>1, <2>7, <3>2 DEF SizeCheck, NothingLeft
      <4> QED BY <1>0
    <3> QED BY <3>1, <3>2
  <2>8. CASE GiveUp(w)
    <3> Quiet
      BY <1>1, <2>8 DEF GiveUp, Unlock, AfterGivingUp
    <3> QED BY <1>0
  <2>9. CASE Front(w)
    <3> Quiet
      BY <1>1, <2>9 DEF Front
    <3> QED BY <1>0
  <2>10. CASE Erase(w)
    BY <1>1, <2>10, EraseBalance
  <2>11. CASE Release(w)
    <3> Quiet
      BY <1>1, <2>11 DEF Release, Unlock
    <3> QED BY <1>0
  <2>12. CASE Return(w)
    <3> Quiet
      BY <1>1, <2>12 DEF Return
    <3> QED BY <1>0
  <2> QED BY <1>1, <2>1, <2>2, <2>3, <2>4, <2>5, <2>6, <2>7, <2>8, <2>9,
             <2>10, <2>11, <2>12 DEF WorkerStep
<1>2. ASSUME NEW c \in Callers, AddTask(c)
      PROVE  NoOversleep'
  <2>1. CASE AddPush(c)
    BY <1>2, <2>1, PushBalance
  <2>2. CASE AddUnlock(c)
    <3> Quiet
      BY <1>2, <2>2 DEF AddUnlock, Unlock
    <3> QED BY <1>0
  <2>3. CASE AddNotify(c)
    BY <1>2, <2>3, NotifyBalance
  <2> QED BY <1>2, <2>1, <2>2, <2>3 DEF AddTask
<1>3. ASSUME NEW c \in Callers, NEW t \in Tasks, AddLock(c, t)
      PROVE  NoOversleep'
  <2> Quiet
    BY <1>3 DEF AddLock
  <2> QED BY <1>0
<1>4. CASE Destroy \/ DestroyStep
  <2>1. CASE Destroy
    <3> Quiet
      BY <1>4, <2>1 DEF Destroy
    <3> QED BY <1>0
  <2>2. CASE DestroyLock
    <3> Quiet
      BY <1>4, <2>2 DEF DestroyLock, Lock
    <3> QED BY <1>0
  <2>3. CASE DestroyClear
    BY <1>4, <2>3, Emptied DEF DestroyClear
  <2>4. CASE DestroyUnlock
    <3> Quiet
      BY <1>4, <2>4 DEF DestroyUnlock, Unlock
    <3> QED BY <1>0
  <2>5. CASE DestroyNotify
    <3> Quiet
      BY <1>4, <2>5, NotifyCounts DEF DestroyNotify
    <3> QED BY <1>0
  <2>6. CASE DestroyJoin
    <3> Quiet
      BY <1>4, <2>6 DEF DestroyJoin
    <3> QED BY <1>0
  <2>7. CASE DestroyEnd
    <3> Quiet
      BY <1>4, <2>7 DEF DestroyEnd
    <3> QED BY <1>0
  <2> QED BY <1>4, <2>1, <2>2, <2>3, <2>4, <2>5, <2>6, <2>7 DEF DestroyStep
<1>5. CASE UNCHANGED vars
  <2> Quiet
    BY <1>5 DEF vars
  <2> QED BY <1>0
<1> QED BY <1>1, <1>2, <1>3, <1>4, <1>5 DEF Next

(***************************************************************************)
(* No worker sleeps on work, unless a notify was missed: however tasks are *)
(* added and taken, whoever is woken, spuriously or not.                   *)
(***************************************************************************)
THEOREM NoOversleepCorrect == Spec => []NoOversleep
<1>1. Init => NoOversleep
  BY DEF Init, NoOversleep, Asleep, Blocked, InGap
<1>2. PoolInv /\ PoolInv' /\ NoOversleep /\ [Next]_vars => NoOversleep'
  BY NoOversleepStep DEF PoolInv
<1> QED BY PoolInvCorrect, <1>1, <1>2, PTL DEF Spec
==============================================================================

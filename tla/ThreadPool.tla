----------------------------- MODULE ThreadPool -----------------------------
(***************************************************************************)
(* The pool that runs the parser, the downloader and, in servera, every    *)
(* transfer (threadpool.h, threadpool.cpp): a list of tasks under a spin   *)
(* lock, workers that wait on a condition variable, addTask, addThread and *)
(* the destructor.                                                         *)
(*                                                                         *)
(* Each worker waits under a mutex of its own, so nothing orders the test  *)
(* of the wait's predicate against push_back and notify_one: a notify that *)
(* comes between the test and the wait (the gap) wakes nobody.  missed     *)
(* counts these.  The predicate reads the list without its lock; on the    *)
(* list of libstdc++ the outcome is that of the list before or after the   *)
(* update.                                                                 *)
(***************************************************************************)
EXTENDS Sequences, FiniteSets, Integers

CONSTANTS
  Workers,  \* the threads addThread may start
  Callers,  \* the threads that call addTask; one may run inside a task
  Tasks,    \* what is added, each once
  Endless,  \* the tasks that never return, like the loops of the servers
  None      \* no task

ASSUME WorkersAssumption == IsFiniteSet(Workers)
ASSUME CallersAssumption == IsFiniteSet(Callers) /\ Callers \cap Workers = {}
ASSUME EndlessAssumption == Endless \subseteq Tasks
ASSUME NoneAssumption    == None \notin Tasks

VARIABLES
  bStop,    \* the pool is being destroyed
  flag,     \* SpinMutex::flag of list_mutex
  tasks,    \* the list of tasks
  vWork,    \* the threads, in the order they were started
  wpc,      \* where a worker is
  held,     \* tmpTask of a worker
  cpc,      \* where a caller is in addTask
  adding,   \* the task a caller adds
  dpc,      \* where the destructor is; "no": not called
  notified, \* i of its inner loop
  joined,   \* how many threads it has joined
  pushed,   \* history: every task added, in order
  started,  \* history: every task taken from the list, in order
  missed    \* history: notifies that found a worker in the gap and none waiting

workerVars == <<wpc, held, started>>
callerVars == <<cpc, adding, pushed>>
destroyVars == <<bStop, dpc, notified, joined>>
vars == <<flag, tasks, vWork, missed, workerVars, callerVars, destroyVars>>

Init ==
  /\ bStop = FALSE /\ flag = FALSE
  /\ tasks = <<>> /\ vWork = <<>>
  /\ wpc = [w \in Workers |-> "unborn"]
  /\ held = [w \in Workers |-> None]
  /\ cpc = [c \in Callers |-> "idle"]
  /\ adding = [c \in Callers |-> None]
  /\ dpc = "no" /\ notified = 0 /\ joined = 0
  /\ pushed = <<>> /\ started = <<>> /\ missed = 0

-----------------------------------------------------------------------------
(* SpinMutex and the condition variable.                                   *)

\* The compare_exchange of SpinMutex::lock that succeeds.
LockBlind == flag' = TRUE
Lock      == ~flag /\ flag' = TRUE

Unlock == flag' = FALSE

Blocked == {w \in Workers : wpc[w] = "blocked"}
InGap   == {w \in Workers : wpc[w] = "gap"}

\* condition.notify_one
NotifyOne ==
  \/ /\ \E w \in Blocked : wpc' = [wpc EXCEPT ![w] = "pred"]
     /\ UNCHANGED missed
  \/ /\ Blocked = {}
     /\ missed' = IF InGap = {} THEN missed ELSE missed + 1
     /\ UNCHANGED wpc

-----------------------------------------------------------------------------
(* addThread and addTask.                                                  *)

AddThread(w) ==
  /\ dpc = "no"
  /\ wpc[w] = "unborn"
  /\ wpc'   = [wpc EXCEPT ![w] = "top"]
  /\ vWork' = Append(vWork, w)
  /\ UNCHANGED <<flag, tasks, missed, held, started, callerVars, destroyVars>>

CallerGoto(c, from, to) == cpc[c] = from /\ cpc' = [cpc EXCEPT ![c] = to]

InUse(t) == \E c \in Callers : adding[c] = t

AddLock(c, t) ==
  /\ dpc = "no"
  /\ CallerGoto(c, "idle", "push")
  /\ \A i \in DOMAIN pushed : pushed[i] # t
  /\ ~InUse(t)
  /\ Lock
  /\ adding' = [adding EXCEPT ![c] = t]
  /\ UNCHANGED <<tasks, vWork, missed, workerVars, pushed, destroyVars>>

\* tasks.push_back
EnqueueEmpty(t) == Append(tasks, None)
Enqueue(t)      == Append(tasks, t)

AddPush(c) ==
  /\ CallerGoto(c, "push", "unlock")
  /\ tasks'  = Enqueue(adding[c])
  /\ pushed' = Append(pushed, adding[c])
  /\ UNCHANGED <<flag, vWork, missed, workerVars, adding, destroyVars>>

AddUnlock(c) ==
  /\ CallerGoto(c, "unlock", "notify")
  /\ Unlock
  /\ UNCHANGED <<tasks, vWork, missed, workerVars, adding, pushed, destroyVars>>

\* Who is told of a task that was pushed.
NotifyOfFirst == IF Len(tasks) <= 1 THEN NotifyOne ELSE UNCHANGED <<wpc, missed>>
NotifyOfTask  == NotifyOne

AddNotify(c) ==
  /\ CallerGoto(c, "notify", "idle")
  /\ NotifyOfTask
  /\ adding' = [adding EXCEPT ![c] = None]
  /\ UNCHANGED <<flag, tasks, vWork, held, started, pushed, destroyVars>>

-----------------------------------------------------------------------------
(* The loop of a worker.                                                   *)

WorkerGoto(w, from, to) == wpc[w] = from /\ wpc' = [wpc EXCEPT ![w] = to]

\* if (bStop) break;
CheckStop(w) ==
  /\ WorkerGoto(w, "top", IF bStop THEN "done" ELSE "pred")
  /\ UNCHANGED <<flag, tasks, vWork, missed, held, started>>
  /\ UNCHANGED <<callerVars, destroyVars>>

\* The predicate of the wait, tested without the lock of the list.
Predicate(w) ==
  /\ WorkerGoto(w, "pred", IF bStop \/ tasks # <<>> THEN "lock" ELSE "gap")
  /\ UNCHANGED <<flag, tasks, vWork, missed, held, started>>
  /\ UNCHANGED <<callerVars, destroyVars>>

\* From here on a notify finds the worker.
Wait(w) ==
  /\ WorkerGoto(w, "gap", "blocked")
  /\ UNCHANGED <<flag, tasks, vWork, missed, held, started>>
  /\ UNCHANGED <<callerVars, destroyVars>>

SpuriousWakeup(w) ==
  /\ WorkerGoto(w, "blocked", "pred")
  /\ UNCHANGED <<flag, tasks, vWork, missed, held, started>>
  /\ UNCHANGED <<callerVars, destroyVars>>

WorkerLock(w) ==
  /\ WorkerGoto(w, "lock", "size")
  /\ Lock
  /\ UNCHANGED <<tasks, vWork, missed, held, started, callerVars, destroyVars>>

\* if (tasks.size() <= 0): another worker was faster.
NothingLeftUnchecked == FALSE
NothingLeft          == Len(tasks) <= 0

SizeCheck(w) ==
  /\ WorkerGoto(w, "size", IF NothingLeft THEN "giveUp" ELSE "front")
  /\ UNCHANGED <<flag, tasks, vWork, missed, held, started>>
  /\ UNCHANGED <<callerVars, destroyVars>>

\* Where a worker goes that finds nothing: continue.
AfterGivingUpBreak == "done"
AfterGivingUp      == "top"

GiveUp(w) ==
  /\ WorkerGoto(w, "giveUp", AfterGivingUp)
  /\ Unlock
  /\ UNCHANGED <<tasks, vWork, missed, held, started, callerVars, destroyVars>>

Front(w) ==
  /\ WorkerGoto(w, "front", "erase")
  /\ tasks # <<>>
  /\ held' = [held EXCEPT ![w] = Head(tasks)]
  /\ UNCHANGED <<flag, tasks, vWork, missed, started, callerVars, destroyVars>>

Erase(w) ==
  /\ WorkerGoto(w, "erase", "release")
  /\ tasks # <<>>
  /\ tasks'   = Tail(tasks)
  /\ started' = Append(started, held[w])
  /\ UNCHANGED <<flag, vWork, missed, held, callerVars, destroyVars>>

Release(w) ==
  /\ WorkerGoto(w, "release", "run")
  /\ Unlock
  /\ UNCHANGED <<tasks, vWork, missed, held, started, callerVars, destroyVars>>

\* tmpTask() returns.
Return(w) ==
  /\ WorkerGoto(w, "run", "top")
  /\ held[w] \notin Endless
  /\ held' = [held EXCEPT ![w] = None]
  /\ UNCHANGED <<flag, tasks, vWork, missed, started, callerVars, destroyVars>>

-----------------------------------------------------------------------------
(* The destructor.  Nobody may be in addTask when an object is destroyed.  *)

DestroyGoto(from, to) == dpc = from /\ dpc' = to

Destroy ==
  /\ DestroyGoto("no", "lock")
  /\ \A c \in Callers : cpc[c] = "idle"
  /\ bStop' = TRUE
  /\ UNCHANGED <<flag, tasks, vWork, missed, workerVars, callerVars>>
  /\ UNCHANGED <<notified, joined>>

DestroyLock ==
  /\ DestroyGoto("lock", "clear")
  /\ Lock
  /\ UNCHANGED <<tasks, vWork, missed, workerVars, callerVars>>
  /\ UNCHANGED <<bStop, notified, joined>>

DestroyClear ==
  /\ DestroyGoto("clear", "unlock")
  /\ tasks' = <<>>
  /\ UNCHANGED <<flag, vWork, missed, workerVars, callerVars>>
  /\ UNCHANGED <<bStop, notified, joined>>

DestroyUnlock ==
  /\ DestroyGoto("unlock", "notify")
  /\ Unlock
  /\ UNCHANGED <<tasks, vWork, missed, workerVars, callerVars>>
  /\ UNCHANGED <<bStop, notified, joined>>

\* How many notifies go out before a thread is joined.
NotifiesOne == 1
Notifies    == Len(vWork)

DestroyNotify ==
  /\ dpc = "notify"
  /\ joined < Len(vWork)
  /\ notified < Notifies
  /\ NotifyOne
  /\ notified' = notified + 1
  /\ UNCHANGED <<flag, tasks, vWork, held, started, callerVars>>
  /\ UNCHANGED <<bStop, dpc, joined>>

DestroyJoin ==
  /\ dpc = "notify"
  /\ joined < Len(vWork)
  /\ notified = Notifies
  /\ wpc[vWork[joined + 1]] = "done"
  /\ joined' = joined + 1
  /\ notified' = 0
  /\ UNCHANGED <<flag, tasks, vWork, missed, workerVars, callerVars>>
  /\ UNCHANGED <<bStop, dpc>>

DestroyEnd ==
  /\ DestroyGoto("notify", "end")
  /\ joined = Len(vWork)
  /\ UNCHANGED <<flag, tasks, vWork, missed, workerVars, callerVars>>
  /\ UNCHANGED <<bStop, notified, joined>>

-----------------------------------------------------------------------------
AddTask(c) ==
  \/ AddPush(c) \/ AddUnlock(c) \/ AddNotify(c)

WorkerStep(w) ==
  \/ CheckStop(w) \/ Predicate(w) \/ Wait(w)
  \/ WorkerLock(w) \/ SizeCheck(w) \/ GiveUp(w)
  \/ Front(w) \/ Erase(w) \/ Release(w) \/ Return(w)

DestroyStep ==
  \/ DestroyLock \/ DestroyClear \/ DestroyUnlock
  \/ DestroyNotify \/ DestroyJoin \/ DestroyEnd

Next ==
  \/ \E w \in Workers : AddThread(w) \/ WorkerStep(w) \/ SpuriousWakeup(w)
  \/ \E c \in Callers : AddTask(c) \/ \E t \in Tasks : AddLock(c, t)
  \/ Destroy \/ DestroyStep

(***************************************************************************)
(* Every thread that can take a step of the pool's code takes it at last.  *)
(* No caller has to add a task, nobody has to destroy the pool, and no     *)
(* wakeup has to be spurious.  The spin lock needs no more than this: each *)
(* task is pushed and taken once, so others do not hold it for ever.       *)
(***************************************************************************)
Fairness ==
  /\ \A w \in Workers : WF_vars(AddThread(w)) /\ WF_vars(WorkerStep(w))
  /\ \A c \in Callers : WF_vars(AddTask(c))
  /\ WF_vars(DestroyStep)

Spec     == Init /\ [][Next]_vars
FairSpec == Spec /\ Fairness

-----------------------------------------------------------------------------
TypeOK ==
  /\ bStop \in BOOLEAN /\ flag \in BOOLEAN
  /\ tasks \in Seq(Tasks) /\ vWork \in Seq(Workers)
  /\ wpc \in [Workers -> {"unborn", "top", "pred", "gap", "blocked", "lock",
                "size", "giveUp", "front", "erase", "release", "run", "done"}]
  /\ held \in [Workers -> Tasks \cup {None}]
  /\ cpc \in [Callers -> {"idle", "push", "unlock", "notify"}]
  /\ adding \in [Callers -> Tasks \cup {None}]
  /\ dpc \in {"no", "lock", "clear", "unlock", "notify", "end"}
  /\ notified \in Nat /\ joined \in Nat
  /\ pushed \in Seq(Tasks) /\ started \in Seq(Tasks) /\ missed \in Nat
(***************************************************************************)
(* Workers take the tasks in the order in which they were added, each task *)
(* once, and none is lost between the lock-free test of the wait and the   *)
(* two steps front and erase (threadpool.cpp 31-42): what was taken and    *)
(* what is in the list make up what was added.  The destructor clears the  *)
(* list for good.                                                          *)
(***************************************************************************)
Cleared == dpc \notin {"no", "lock", "clear"}

FifoOnce ==
  /\ ~Cleared => pushed = started \o tasks
  /\ Cleared => tasks = <<>> /\ started = SubSeq(pushed, 1, Len(started))
  /\ \A i, j \in DOMAIN started : started[i] = started[j] => i = j

(***************************************************************************)
(* Two workers may see the same task through the lock-free test of the     *)
(* wait; only one may go on to front and erase, which on an empty list     *)
(* would be undefined (threadpool.cpp 35-41).                              *)
(***************************************************************************)
NoEmptyPop == \A w \in Workers : wpc[w] \in {"front", "erase"} => tasks # <<>>

(***************************************************************************)
(* No worker sleeps on work: while one is in the wait, or about to enter   *)
(* it, every task of the list is being told of by its caller, or a worker  *)
(* is up and on its way to the list for it, or its notify was missed       *)
(* (threadpool.h 65-68 against threadpool.cpp 31-32).                      *)
(***************************************************************************)
Asleep  == Blocked \cup InGap
Telling == {c \in Callers : cpc[c] \in {"unlock", "notify"}}
Alert   ==
  {w \in Workers : wpc[w] \in {"pred", "lock", "size", "front", "erase"}}

NoOversleep ==
  Asleep # {} => Len(tasks) <= Cardinality(Telling) + Cardinality(Alert) + missed

(***************************************************************************)
(* A task that was added is started, unless a notify was missed, the pool  *)
(* is destroyed, or every worker is in a task that never returns.          *)
(***************************************************************************)
Saturated == \A w \in Workers : wpc[w] = "run" /\ held[w] \in Endless

Among(t, s) == \E i \in DOMAIN s : s[i] = t

TaskStarts ==
  \A t \in Tasks :
    Among(t, pushed) ~> (Among(t, started) \/ missed > 0 \/ bStop \/ Saturated)

(***************************************************************************)
(* The destructor comes to its end, unless a notify was missed or a task   *)
(* never returns: the notifies of its inner loop (threadpool.cpp 56-61)    *)
(* are enough, although each may wake another thread than the one joined.  *)
(***************************************************************************)
DestroyEnds ==
  dpc = "lock" ~>
    (dpc = "end" \/ missed > 0 \/ \E w \in Workers : held[w] \in Endless)
=============================================================================

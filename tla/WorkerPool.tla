------------------------------ MODULE WorkerPool ------------------------------
(***************************************************************************)
(* PosixDynamicThreadPool, the pool behind WorkerPool on POSIX             *)
(* (threading/worker_pool_posix.cc): PostTask reuses an idle thread or     *)
(* makes a new one, and a thread that was idle for too long exits.         *)
(*                                                                         *)
(* A critical section of lock_ is one action.  TimedWait releases lock_    *)
(* while a thread sleeps and takes it again before it returns: in between  *)
(* the thread is awake and still counted as idle.                          *)
(***************************************************************************)
EXTENDS Naturals, Sequences, FiniteSets

CONSTANTS MaxTasks,    \* bound: calls of PostTask
          MaxFailures  \* bound: threads that could not be created

WorkerPoolAssumption == MaxTasks \in Nat /\ MaxFailures \in Nat

(* The n-th task posted is n; the thread made for it, if one is, is n too. *)
Tasks == 1 .. MaxTasks

VARIABLES
  pending_tasks_, num_idle_threads_, terminated_,
  owner,     \* of the pool: "posting", "terminating", "released"
  thread,    \* where each WorkerThread is
  task,      \* the task that each runs
  posted,    \* how many tasks were ever posted
  finished   \* the tasks that have returned

vars == <<pending_tasks_, num_idle_threads_, terminated_, owner, thread, task, posted, finished>>

Init ==
  /\ pending_tasks_ = <<>> /\ num_idle_threads_ = 0 /\ terminated_ = FALSE
  /\ owner = "posting"
  /\ thread = [t \in Tasks |-> "none"]
  /\ task = [t \in Tasks |-> 0]
  /\ posted = 0 /\ finished = {}

At(label) == {t \in Tasks : thread[t] = label}
Goto(t, label) == thread' = [thread EXCEPT ![t] = label]

(* ConditionVariable::Signal: one of the sleepers wakes, if there is one.  *)
Signal ==
  IF At("asleep") = {} THEN UNCHANGED thread
  ELSE \E t \in At("asleep") : Goto(t, "woken")

(* The result of CreateNonJoinable is ignored: without a thread the task   *)
(* stays in the queue, and the WorkerThread keeps its reference for ever.  *)
CreateNonJoinable(t) ==
  \/ Goto(t, "waiting")
  \/ Cardinality(At("failed")) < MaxFailures /\ Goto(t, "failed")
-----------------------------------------------------------------------------
(* Mutated forms, each one plausible slip in the definition it is named    *)
(* after; a property must fail when it takes that definition's place.      *)
AddTaskAnyIdle ==                    \* any idle thread will do for all the tasks
  /\ posted < MaxTasks /\ ~terminated_
  /\ posted' = posted + 1
  /\ pending_tasks_' = Append(pending_tasks_, posted + 1)
  /\ IF num_idle_threads_ > 0 THEN Signal ELSE CreateNonJoinable(posted + 1)
  /\ UNCHANGED <<num_idle_threads_, terminated_, owner, task, finished>>
WakeAllSignal ==                     \* Signal where Broadcast is meant
  /\ owner = "terminating" /\ owner' = "released"
  /\ Signal
  /\ UNCHANGED <<pending_tasks_, num_idle_threads_, terminated_, task, posted, finished>>
TakeNoPop(t) ==                      \* front() without pop()
  /\ task' = [task EXCEPT ![t] = Head(pending_tasks_)]
  /\ Goto(t, "running")
  /\ UNCHANGED pending_tasks_
StopWaitingUncounted(t) ==           \* leaves without being uncounted
  /\ thread[t] = "woken"
  /\ num_idle_threads_' = num_idle_threads_ - (IF pending_tasks_ = <<>> THEN 0 ELSE 1)
  /\ IF pending_tasks_ = <<>>
       THEN Goto(t, "gone") /\ UNCHANGED <<pending_tasks_, task>>
       ELSE /\ task' = [task EXCEPT ![t] = Head(pending_tasks_)]
            /\ pending_tasks_' = Tail(pending_tasks_)
            /\ Goto(t, "running")
  /\ UNCHANGED <<terminated_, owner, posted, finished>>

(* PostTask, by anyone and by a task too, before the pool is terminated.   *)
AddTask ==
  /\ posted < MaxTasks /\ ~terminated_
  /\ posted' = posted + 1
  /\ pending_tasks_' = Append(pending_tasks_, posted + 1)
  /\ IF num_idle_threads_ >= Len(pending_tasks_) + 1 THEN Signal
     ELSE CreateNonJoinable(posted + 1)
  /\ UNCHANGED <<num_idle_threads_, terminated_, owner, task, finished>>

(* Terminate sets the flag under lock_ and broadcasts when it has let go.  *)
Terminate ==
  /\ owner = "posting" /\ owner' = "terminating"
  /\ terminated_' = TRUE
  /\ UNCHANGED <<pending_tasks_, num_idle_threads_, thread, task, posted, finished>>

WakeAll ==
  /\ owner = "terminating" /\ owner' = "released"
  /\ thread' = [t \in Tasks |-> IF thread[t] = "asleep" THEN "woken" ELSE thread[t]]
  /\ UNCHANGED <<pending_tasks_, num_idle_threads_, terminated_, task, posted, finished>>
-----------------------------------------------------------------------------
Take(t) ==
  /\ task' = [task EXCEPT ![t] = Head(pending_tasks_)]
  /\ pending_tasks_' = Tail(pending_tasks_)
  /\ Goto(t, "running")

(* WaitForTask, up to TimedWait ...                                        *)
WaitForTask(t) ==
  /\ thread[t] = "waiting"
  /\ \/ /\ terminated_
        /\ Goto(t, "gone")
        /\ UNCHANGED <<pending_tasks_, num_idle_threads_, task>>
     \/ /\ ~terminated_ /\ pending_tasks_ = <<>>
        /\ num_idle_threads_' = num_idle_threads_ + 1
        /\ Goto(t, "asleep")
        /\ UNCHANGED <<pending_tasks_, task>>
     \/ /\ ~terminated_ /\ pending_tasks_ # <<>>
        /\ Take(t)
        /\ UNCHANGED num_idle_threads_
  /\ UNCHANGED <<terminated_, owner, posted, finished>>

(* ... which may return because the time is over, or for no reason, ...    *)
TimeOut(t) ==
  /\ thread[t] = "asleep"
  /\ Goto(t, "woken")
  /\ UNCHANGED <<pending_tasks_, num_idle_threads_, terminated_, owner, task, posted, finished>>

(* ... and from there: why it returned, and terminated_, are not asked.    *)
StopWaiting(t) ==
  /\ thread[t] = "woken"
  /\ num_idle_threads_' = num_idle_threads_ - 1
  /\ IF pending_tasks_ = <<>>
       THEN Goto(t, "gone") /\ UNCHANGED <<pending_tasks_, task>>
       ELSE Take(t)
  /\ UNCHANGED <<terminated_, owner, posted, finished>>

RunTask(t) ==
  /\ thread[t] = "running"
  /\ finished' = finished \cup {task[t]}
  /\ task' = [task EXCEPT ![t] = 0]
  /\ Goto(t, "waiting")
  /\ UNCHANGED <<pending_tasks_, num_idle_threads_, terminated_, owner, posted>>

Step(t) == WaitForTask(t) \/ StopWaiting(t) \/ RunTask(t)

Next == AddTask \/ Terminate \/ WakeAll \/ \E t \in Tasks : Step(t) \/ TimeOut(t)

Spec == Init /\ [][Next]_vars

(* Threads run, tasks return, and Terminate does; ten minutes need not     *)
(* pass for anything to happen.                                            *)
FairSpec == Spec /\ WF_vars(WakeAll) /\ \A t \in Tasks : WF_vars(Step(t))
-----------------------------------------------------------------------------
(* Types.                                                                  *)
TypeOK ==
  /\ pending_tasks_ \in Seq(Tasks)
  /\ num_idle_threads_ \in 0 .. MaxTasks
  /\ terminated_ \in BOOLEAN
  /\ owner \in {"posting", "terminating", "released"}
  /\ thread \in [Tasks -> {"none", "failed", "waiting", "asleep", "woken", "running", "gone"}]
  /\ task \in [Tasks -> 0 .. MaxTasks]
  /\ posted \in 0 .. MaxTasks /\ finished \subseteq Tasks

Queued == {pending_tasks_[i] : i \in 1 .. Len(pending_tasks_)}
Running == {task[t] : t \in At("running")}

(* Each task posted is in the queue, in the order of PostTask, or runs, on *)
(* one thread, or has returned.                                            *)
EachTaskRunsOnce ==
  /\ 1 .. posted = Queued \cup Running \cup finished
  /\ Queued \cap (Running \cup finished) = {} /\ Running \cap finished = {}
  /\ Cardinality(Running) = Cardinality(At("running"))
  /\ \A i, j \in 1 .. Len(pending_tasks_) : i < j => pending_tasks_[i] < pending_tasks_[j]

(* Every task in the queue has a thread that is about to look there,       *)
(* except those whose thread could not be created.  The threads that       *)
(* AddTask counts as idle may have been signalled for an earlier task, or  *)
(* have timed out: enough of them come, whichever get there first.         *)
TasksHaveThreads ==
  /\ num_idle_threads_ = Cardinality(At("asleep") \cup At("woken"))
  /\ ~terminated_ =>
       Len(pending_tasks_) <= Cardinality(At("waiting") \cup At("woken") \cup At("failed"))

(* The strengthening that makes these inductive: a thread is made by the   *)
(* PostTask of its number, Terminate has begun once the flag is set, and   *)
(* no two threads run one task.                                            *)
IInv ==
  /\ TypeOK
  /\ \A t \in Tasks : thread[t] # "none" => t <= posted
  /\ terminated_ <=> owner # "posting"
  /\ \A s, t \in At("running") : task[s] = task[t] => s = t
  /\ EachTaskRunsOnce
  /\ TasksHaveThreads

(* A task that is posted to a pool that can make its threads runs in the   *)
(* end, unless Terminate comes first; then every thread exits.             *)
TasksAreRun ==
  /\ \A n \in Tasks : n <= posted ~> n \in finished \/ terminated_ \/ At("failed") # {}
  /\ terminated_ ~> \A t \in Tasks : thread[t] \in {"none", "failed", "gone"}
=============================================================================

----------------------------- MODULE MCThreadPool -----------------------------
(* Threads that wait for work: those of a DelegateSimpleThreadPool, which  *)
(* may be started twice, or those of a PosixDynamicThreadPool, are the     *)
(* subject of a behaviour.                                                 *)
EXTENDS ThreadPool, TLC

CONSTANTS MaxTasks, MaxFailures

VARIABLES subject, pending_tasks_, num_idle_threads_, terminated_, holder, thread, task,
          posted, finished

posting == <<pending_tasks_, num_idle_threads_, terminated_, holder, thread, task, posted,
             finished>>

Posting == INSTANCE WorkerPool WITH owner <- holder

ASSUME PostingAssumption == Posting!WorkerPoolAssumption

EachInit == subject \in {"pool", "dynamic pool"} /\ Init /\ Posting!Init

Pool(A) == subject = "pool" /\ A /\ UNCHANGED <<subject, posting>>
DynamicPool(A) == subject = "dynamic pool" /\ A /\ UNCHANGED <<subject, vars>>

EachNext == Pool(Next) \/ DynamicPool(Posting!Next)

EachSpec == EachInit /\ [][EachNext]_<<subject, vars, posting>>

(* The fairness of the two specifications. *)
FairEachSpec ==
    /\ EachSpec
    /\ WF_<<subject, vars, posting>>(Pool(OwnerStep) \/ DynamicPool(Posting!WakeAll))
    /\ \A t \in Workers \cup Posting!Tasks :
        WF_<<subject, vars, posting>>((t \in Workers /\ Pool(WorkerStep(t)))
                                      \/ (t \in Posting!Tasks /\ DynamicPool(Posting!Step(t))))

(* The types of both. *)
TypesOK == TypeOK /\ Posting!TypeOK

(* No two workers run the same work, and none is lost, in either pool.     *)
WorkRunsOnce == EachRunsOnce /\ Posting!EachTaskRunsOnce

(* dry_ tells of work whenever there is some, and every task in the queue  *)
(* of the other pool has a thread that is about to look there.             *)
NobodySleepsOnWork == DryTellsWork /\ Posting!TasksHaveThreads

(* The work that is queued is done, and the threads of a pool that is      *)
(* joined or terminated exit.                                              *)
AllWorkIsDone == WorkIsDone /\ Posting!TasksAreRun
=============================================================================

------------------------------ MODULE ThreadPool ------------------------------
(***************************************************************************)
(* base::DelegateSimpleThreadPool over base::SimpleThread                  *)
(* (threading/simple_thread.cc): a queue of delegates, NumThreads workers  *)
(* that run them, and an owner who starts the workers and joins them.      *)
(*                                                                         *)
(* AddWork and the body of the worker loop are critical sections of lock_, *)
(* hence one action each.  dry_ is a manual-reset WaitableEvent, written   *)
(* as what EventSpec promises of one: Signal releases every thread that    *)
(* waits, and the released thread runs on some time later.                 *)
(***************************************************************************)
EXTENDS Naturals, Sequences, FiniteSets

CONSTANTS NumThreads,  \* num_threads_
          Repeats,     \* the values of repeat_count that AddWork is called with
          MaxWork,     \* bound: delegates queued in a behaviour
          MaxStarts    \* bound: calls of Start

(* A call with repeat_count 0 would set dry_ with nothing queued, and the  *)
(* worker that wakes would read the front of an empty queue: there is none *)
(* in the repository, and the model has none either.                       *)
ASSUME PoolAssumption ==
  /\ NumThreads \in Nat \ {0} /\ Repeats \subseteq Nat \ {0}
  /\ MaxWork \in Nat /\ MaxStarts \in Nat

Workers == 1 .. NumThreads

(* The entries of the queue: the n-th delegate ever added is n, whatever   *)
(* object it is; the NULL that tells a worker to quit is 0.                *)
NULL == 0

VARIABLES
  delegates_, dry_,
  owner,       \* where the owner is: "idle", "create", "starting", "up", "joining"
  next,        \* the thread that Start creates, or JoinAll joins, next
  worker,      \* where each worker is
  event_,      \* SimpleThread::event_ of each worker
  work,        \* the delegate each worker took last
  added,       \* how many delegates were ever added
  owed,        \* how many when JoinAll was called
  done,        \* the delegates whose Run has returned
  starts

poolVars == <<delegates_, dry_>>
ownerVars == <<owner, next, owed, starts>>
workerVars == <<worker, event_, work, done>>
vars == <<poolVars, ownerVars, workerVars, added>>

Init ==
  /\ delegates_ = <<>> /\ dry_ = FALSE
  /\ owner = "idle" /\ next = 1 /\ owed = 0 /\ starts = 0
  /\ worker = [w \in Workers |-> "none"]
  /\ event_ = [w \in Workers |-> FALSE]
  /\ work = [w \in Workers |-> NULL]
  /\ added = 0 /\ done = {}

Goto(w, label) == worker' = [worker EXCEPT ![w] = label]
-----------------------------------------------------------------------------
(* Mutated forms, each one plausible slip in the definition it is named    *)
(* after; a property must fail when it takes that definition's place.      *)
PushNoWakeup(items) ==       \* signals without waking the waiters
  /\ delegates_' = delegates_ \o items
  /\ dry_' = TRUE
  /\ UNCHANGED worker
TakeNoPop(w) ==                      \* front() without pop() unless it is the last
  /\ worker[w] = "take"
  /\ IF ~dry_
       THEN Goto(w, "wait") /\ UNCHANGED <<poolVars, work>>
       ELSE /\ delegates_' = IF Len(delegates_) = 1 THEN <<>> ELSE delegates_
            /\ dry_' = (Len(delegates_) > 1)
            /\ work' = [work EXCEPT ![w] = Head(delegates_)]
            /\ Goto(w, IF Head(delegates_) = NULL THEN "quit" ELSE "run")
  /\ UNCHANGED <<ownerVars, event_, done, added>>
Quits(n) == [i \in 1 .. n |-> NULL]
JoinAllQuitsFirst ==                 \* the workers are told before what is queued
  /\ owner = "up"
  /\ delegates_' = Quits(NumThreads) \o delegates_
  /\ dry_' = TRUE
  /\ worker' = [w \in Workers |-> IF worker[w] = "blocked" THEN "take" ELSE worker[w]]
  /\ owner' = "joining" /\ next' = 1 /\ owed' = added
  /\ UNCHANGED <<starts, event_, work, done, added>>
RunOnce(w) ==                 \* the worker leaves its loop after one delegate
  /\ worker[w] = "run"
  /\ done' = done \cup {work[w]}
  /\ Goto(w, "quit")
  /\ UNCHANGED <<poolVars, ownerVars, event_, work, added>>

WaitDryBlocks(w) ==                  \* waits for the next Signal in any case
  /\ worker[w] = "wait"
  /\ Goto(w, "blocked")
  /\ UNCHANGED <<poolVars, ownerVars, event_, work, done, added>>
StartReturnsLate ==                  \* the loop goes one thread too far
  /\ owner = "starting" /\ event_[next]
  /\ IF next <= NumThreads
       THEN owner' = "create" /\ next' = next + 1
       ELSE owner' = "up" /\ UNCHANGED next
  /\ UNCHANGED <<poolVars, owed, starts, workerVars, added>>

(* What AddWork does to the queue and to dry_ while it holds lock_: Signal *)
(* is called whenever dry_ is not set, and releases the waiting workers.   *)
Push(items) ==
  /\ delegates_' = delegates_ \o items
  /\ dry_' = TRUE
  /\ worker' = IF dry_ THEN worker
               ELSE [w \in Workers |-> IF worker[w] = "blocked" THEN "take" ELSE worker[w]]

(* AddWork, by the owner, by another thread or by a delegate that runs.    *)
AddWork(repeat_count) ==
  /\ added + repeat_count <= MaxWork
  /\ Push([i \in 1 .. repeat_count |-> added + i])
  /\ added' = added + repeat_count
  /\ UNCHANGED <<ownerVars, event_, work, done>>

(* Start creates the threads one by one and waits for each to have begun.  *)
Start ==
  /\ owner = "idle" /\ starts < MaxStarts
  /\ owner' = "create" /\ next' = 1
  /\ starts' = starts + 1
  /\ UNCHANGED <<poolVars, owed, workerVars, added>>

CreateThread ==
  /\ owner = "create"
  /\ Goto(next, "born")
  /\ event_' = [event_ EXCEPT ![next] = FALSE]
  /\ work' = [work EXCEPT ![next] = NULL]
  /\ owner' = "starting"
  /\ UNCHANGED <<poolVars, next, owed, starts, done, added>>

StartReturns ==
  /\ owner = "starting" /\ event_[next]
  /\ IF next < NumThreads
       THEN owner' = "create" /\ next' = next + 1
       ELSE owner' = "up" /\ UNCHANGED next
  /\ UNCHANGED <<poolVars, owed, starts, workerVars, added>>

(* JoinAll queues one NULL for each worker, then joins and deletes them.   *)
JoinAll ==
  /\ owner = "up"
  /\ Push(Quits(NumThreads))
  /\ owner' = "joining" /\ next' = 1
  /\ owed' = added
  /\ UNCHANGED <<starts, event_, work, done, added>>

JoinThread ==
  /\ owner = "joining" /\ worker[next] = "quit"
  /\ Goto(next, "none")
  /\ IF next < NumThreads
       THEN next' = next + 1 /\ UNCHANGED owner
       ELSE owner' = "idle" /\ UNCHANGED next
  /\ UNCHANGED <<poolVars, owed, starts, event_, work, done, added>>
-----------------------------------------------------------------------------
(* ThreadMain signals the creator, then Run loops.                         *)
ThreadMain(w) ==
  /\ worker[w] = "born"
  /\ event_' = [event_ EXCEPT ![w] = TRUE]
  /\ Goto(w, "wait")
  /\ UNCHANGED <<poolVars, ownerVars, work, done, added>>

WaitDry(w) ==
  /\ worker[w] = "wait"
  /\ Goto(w, IF dry_ THEN "take" ELSE "blocked")
  /\ UNCHANGED <<poolVars, ownerVars, event_, work, done, added>>

(* Under lock_: another worker may have emptied the queue meanwhile.       *)
Take(w) ==
  /\ worker[w] = "take"
  /\ IF ~dry_
       THEN Goto(w, "wait") /\ UNCHANGED <<poolVars, work>>
       ELSE /\ delegates_' = Tail(delegates_)
            /\ dry_' = (Len(delegates_) > 1)
            /\ work' = [work EXCEPT ![w] = Head(delegates_)]
            /\ Goto(w, IF Head(delegates_) = NULL THEN "quit" ELSE "run")
  /\ UNCHANGED <<ownerVars, event_, done, added>>

RunWork(w) ==
  /\ worker[w] = "run"
  /\ done' = done \cup {work[w]}
  /\ Goto(w, "wait")
  /\ UNCHANGED <<poolVars, ownerVars, event_, work, added>>
-----------------------------------------------------------------------------
OwnerStep == CreateThread \/ StartReturns \/ JoinThread
WorkerStep(w) == ThreadMain(w) \/ WaitDry(w) \/ Take(w) \/ RunWork(w)

Next ==
  \/ Start \/ JoinAll \/ OwnerStep
  \/ \E n \in Repeats : AddWork(n)
  \/ \E w \in Workers : WorkerStep(w)

Spec == Init /\ [][Next]_vars

(* The threads run, and a delegate's Run returns; nobody has to call.      *)
FairSpec == Spec /\ WF_vars(OwnerStep) /\ \A w \in Workers : WF_vars(WorkerStep(w))
-----------------------------------------------------------------------------
(* Types; Start creates the threads of the pool and no more.               *)
TypeOK ==
  /\ delegates_ \in Seq(0 .. MaxWork)
  /\ dry_ \in BOOLEAN
  /\ owner \in {"idle", "create", "starting", "up", "joining"}
  /\ next \in Workers
  /\ worker \in [Workers -> {"none", "born", "wait", "blocked", "take", "run", "quit"}]
  /\ event_ \in [Workers -> BOOLEAN]
  /\ work \in [Workers -> 0 .. MaxWork]
  /\ added \in 0 .. MaxWork /\ owed \in 0 .. MaxWork
  /\ done \subseteq 1 .. MaxWork
  /\ starts \in 0 .. MaxStarts

Queued == {delegates_[i] : i \in 1 .. Len(delegates_)}
Running == {w \in Workers : worker[w] = "run"}

(* dry_ is "not signaled when there is no work to do", and signaled when   *)
(* there is: the worker that finds it set may take the front of the queue. *)
(* Then no worker sleeps either: a Signal between the Wait of one and the  *)
(* Reset of another is not lost.                                           *)
DryTellsWork ==
  /\ dry_ <=> delegates_ # <<>>
  /\ dry_ => \A w \in Workers : worker[w] # "blocked"

NullsLeft == {i \in 1 .. Len(delegates_) : delegates_[i] = NULL}

(* Each delegate added is queued, running or done, and only one of them;   *)
(* no two workers run it, and the queue keeps the order of AddWork.  There *)
(* is one NULL in the queue for each worker that has yet to quit, and none *)
(* once JoinAll is over, to stop the next Start's workers.                 *)
EachRunsOnce ==
  /\ 1 .. added = (Queued \ {NULL}) \cup {work[w] : w \in Running} \cup done
  /\ \A i, j \in 1 .. Len(delegates_) :
       i < j /\ delegates_[i] # NULL /\ delegates_[j] # NULL => delegates_[i] < delegates_[j]
  /\ \A w \in Running : work[w] \notin Queued \cup done
  /\ \A v, w \in Running : work[v] = work[w] => v = w
  /\ Queued \cap done = {}
  /\ Cardinality(NullsLeft) =
       IF owner = "joining"
         THEN Cardinality({w \in Workers : worker[w] \notin {"none", "quit"}})
         ELSE 0

(* The strengthening that makes these inductive.  Start creates and        *)
(* JoinAll joins the threads in order, and a worker leaves its loop only   *)
(* when JoinAll has queued a NULL.                                         *)
InLoop(w) == worker[w] \in {"wait", "blocked", "take", "run"}

OwnerKnows ==
  \A w \in Workers :
    /\ owner = "idle" => worker[w] = "none"
    /\ owner = "create" => IF w < next THEN InLoop(w) ELSE worker[w] = "none"
    /\ owner = "starting" => /\ w < next => InLoop(w)
                             /\ w = next => IF event_[w] THEN InLoop(w) ELSE worker[w] = "born"
                             /\ w > next => worker[w] = "none"
    /\ owner = "up" => InLoop(w)
    /\ owner = "joining" => IF w < next THEN worker[w] = "none"
                            ELSE InLoop(w) \/ worker[w] = "quit"

(* What was queued before JoinAll is ahead of its NULLs: once a worker has *)
(* taken one of these, nothing of it is left in the queue.                 *)
OwedComesFirst ==
  /\ owed <= added
  /\ owner = "joining" =>
       /\ \A i, j \in 1 .. Len(delegates_) :
            delegates_[i] = NULL /\ delegates_[j] \in 1 .. owed => j < i
       /\ \A w \in Workers : worker[w] \in {"none", "quit"} => Queued \cap (1 .. owed) = {}

IInv ==
  /\ TypeOK
  /\ DryTellsWork
  /\ EachRunsOnce
  /\ OwnerKnows
  /\ OwedComesFirst

(* JoinAll returns only when every delegate queued before the call has     *)
(* been run to its end and every worker has stopped; if none was added     *)
(* meanwhile, what the destructor asserts holds: the queue is empty and    *)
(* dry_ is reset.                                                          *)
JoinAllFinishes ==
  [][owner = "joining" /\ owner' = "idle" =>
       /\ 1 .. owed \subseteq done'
       /\ \A w \in Workers : worker'[w] = "none"
       /\ added = owed => delegates_' = <<>> /\ ~dry_']_vars

(* JoinAll: DCHECK(delegates_.empty()) after the last Join.                *)
JoinAllEmptiesQueue ==
  [][owner = "joining" /\ owner' = "idle" => delegates_' = <<>>]_vars

(* JoinAll returns: each worker takes one NULL, however the others run.    *)
(* A delegate queued while the pool is up is run: the worker loop misses   *)
(* no Signal of dry_.                                                      *)
WorkIsDone ==
  /\ owner = "joining" ~> owner = "idle"
  /\ \A n \in 1 .. MaxWork : (owner = "up" /\ n <= added) ~> n \in done
=============================================================================

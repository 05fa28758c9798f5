--------------------------- MODULE WorkerPool_proofs ---------------------------
(* Proofs about WorkerPool, for any number of tasks and of threads that    *)
(* could not be created.                                                   *)
EXTENDS WorkerPool, SequenceTheorems, FiniteSetTheorems, TLAPS

(* The threads that are counted, and those that answer for a task.         *)
Idle == At("asleep") \cup At("woken")
Coming == At("waiting") \cup At("woken") \cup At("failed")

LEMMA TasksFinite ==
  ASSUME MaxTasks \in Nat
  PROVE  /\ IsFiniteSet(Tasks) /\ Cardinality(Tasks) = MaxTasks
         /\ \A S \in SUBSET Tasks : IsFiniteSet(S) /\ Cardinality(S) \in 0 .. MaxTasks
<1>1. IsFiniteSet(Tasks) /\ Cardinality(Tasks) = MaxTasks  BY FS_Interval DEF Tasks
<1>2. ASSUME NEW S \in SUBSET Tasks PROVE IsFiniteSet(S) /\ Cardinality(S) \in 0 .. MaxTasks
  <2>1. IsFiniteSet(S) /\ Cardinality(S) <= Cardinality(Tasks)  BY <1>1, FS_Subset
  <2>2. Cardinality(S) \in Nat  BY <2>1, FS_CardinalityType
  <2> QED  BY <1>1, <2>1, <2>2
<1> QED  BY <1>1, <1>2

(* Counting a set of threads that one thread has joined, or has left.      *)
LEMMA JoinedLeft ==
  ASSUME MaxTasks \in Nat, NEW S \in SUBSET Tasks, NEW t \in Tasks
  PROVE  /\ t \notin S => Cardinality(S \cup {t}) = Cardinality(S) + 1
         /\ t \in S => Cardinality(S \ {t}) = Cardinality(S) - 1
BY TasksFinite, FS_AddElement, FS_RemoveElement

(* No two threads run one task: as many tasks run as threads run them.     *)
LEMMA ImageCount ==
  ASSUME MaxTasks \in Nat, NEW S \in SUBSET Tasks, NEW g,
         \A s, t \in S : g[s] = g[t] => s = t
  PROVE  Cardinality({g[t] : t \in S}) = Cardinality(S)
<1> DEFINE T == {g[t] : t \in S}
           f == [t \in S |-> g[t]]
<1>1. IsFiniteSet(S)  BY TasksFinite
<1>2. f \in Bijection(S, T)
  <2>1. f \in [S -> T] /\ \A y \in T : \E x \in S : f[x] = y  OBVIOUS
  <2>2. \A a, b \in S : f[a] = f[b] => a = b  OBVIOUS
  <2> HIDE DEF T, f
  <2>3. f \in Injection(S, T)  BY <2>1, <2>2 DEF Injection, IsInjective
  <2>4. f \in Surjection(S, T)  BY <2>1 DEF Surjection
  <2> QED  BY <2>3, <2>4 DEF Bijection
<1>3. ExistsBijection(S, T)  BY <1>2 DEF ExistsBijection
<1> QED  BY <1>1, <1>3, FS_Bijection

LEMMA RunningCountNext ==
  ASSUME MaxTasks \in Nat, \A s, t \in At("running")' : task'[s] = task'[t] => s = t
  PROVE  Cardinality(Running)' = Cardinality(At("running"))'
<1>1. At("running")' \in SUBSET Tasks  BY DEF At
<1> QED  BY <1>1, ImageCount DEF Running

(* The queue when PostTask has appended a task that is younger than all.   *)
LEMMA QueueAfterPush ==
  ASSUME NEW q \in Seq(Tasks), NEW n \in Tasks,
         \A i \in 1 .. Len(q) : q[i] < n,
         \A i, j \in 1 .. Len(q) : i < j => q[i] < q[j]
  PROVE  LET r == Append(q, n)
         IN  /\ r \in Seq(Tasks) /\ Len(r) = Len(q) + 1
             /\ {r[i] : i \in 1 .. Len(r)} = {q[i] : i \in 1 .. Len(q)} \cup {n}
             /\ \A i, j \in 1 .. Len(r) : i < j => r[i] < r[j]
<1> DEFINE r == Append(q, n)
<1>1. /\ r \in Seq(Tasks) /\ Len(r) = Len(q) + 1 /\ r[Len(q) + 1] = n /\ Len(q) \in Nat
      /\ \A i \in 1 .. Len(q) : r[i] = q[i]
  BY AppendProperties, LenProperties
<1> HIDE DEF r
<1>2. \A i \in 1 .. Len(r) : i \in 1 .. Len(q) \/ i = Len(q) + 1  BY <1>1
<1>3. {r[i] : i \in 1 .. Len(r)} = {q[i] : i \in 1 .. Len(q)} \cup {n}
  <2>1. \A i \in 1 .. Len(q) : i \in 1 .. Len(r)  BY <1>1
  <2>2. Len(q) + 1 \in 1 .. Len(r)  BY <1>1
  <2>3. ASSUME NEW i \in 1 .. Len(r) PROVE r[i] \in {q[j] : j \in 1 .. Len(q)} \cup {n}
    BY <1>1, <1>2
  <2>4. ASSUME NEW i \in 1 .. Len(q) PROVE q[i] \in {r[j] : j \in 1 .. Len(r)}
    <3>1. i \in 1 .. Len(r) /\ r[i] = q[i]  BY <1>1, <2>1
    <3> QED  BY <3>1
  <2>5. n \in {r[j] : j \in 1 .. Len(r)}  BY <1>1, <2>2
  <2> QED  BY <2>3, <2>4, <2>5
<1>4. ASSUME NEW i \in 1 .. Len(r), NEW j \in 1 .. Len(r), i < j PROVE r[i] < r[j]
  <2>1. i \in 1 .. Len(q)  BY <1>1, <1>4
  <2>2. CASE j \in 1 .. Len(q)  BY <1>1, <1>4, <2>1, <2>2
  <2>3. CASE j = Len(q) + 1  BY <1>1, <2>1, <2>3
  <2> QED  BY <1>2, <2>2, <2>3
<1> QED  BY <1>1, <1>3, <1>4 DEF r

(* The queue when WaitForTask has taken the oldest task.                   *)
LEMMA QueueAfterPop ==
  ASSUME MaxTasks \in Nat, NEW q \in Seq(Tasks), q # <<>>,
         \A i, j \in 1 .. Len(q) : i < j => q[i] < q[j]
  PROVE  LET r == Tail(q)
         IN  /\ r \in Seq(Tasks) /\ Len(r) = Len(q) - 1 /\ Len(r) \in Nat
             /\ Head(q) \in Tasks /\ Head(q) \notin {r[i] : i \in 1 .. Len(r)}
             /\ {q[i] : i \in 1 .. Len(q)} = {r[i] : i \in 1 .. Len(r)} \cup {Head(q)}
             /\ \A i, j \in 1 .. Len(r) : i < j => r[i] < r[j]
<1> DEFINE r == Tail(q)
           h == Head(q)
<1>1. /\ r \in Seq(Tasks) /\ Len(r) = Len(q) - 1 /\ Len(q) \in Nat \ {0}
      /\ h \in Tasks /\ h = q[1]
      /\ \A i \in 1 .. Len(r) : r[i] = q[i + 1]
  BY HeadTailProperties, EmptySeq DEF Head
<1> HIDE DEF r, h
<1>2. \A i \in 1 .. Len(q) : q[i] \in Nat  BY ElementOfSeq DEF Tasks
<1>3. h \notin {r[i] : i \in 1 .. Len(r)}
  <2> SUFFICES ASSUME NEW i \in 1 .. Len(r), r[i] = h PROVE FALSE  OBVIOUS
  <2>1. 1 \in 1 .. Len(q) /\ i + 1 \in 1 .. Len(q) /\ 1 < i + 1 /\ r[i] = q[i + 1]  BY <1>1
  <2>2. q[1] < q[i + 1]  BY <2>1
  <2> QED  BY <1>1, <1>2, <2>1, <2>2
<1>4. {q[i] : i \in 1 .. Len(q)} = {r[i] : i \in 1 .. Len(r)} \cup {h}
  <2>1. ASSUME NEW i \in 1 .. Len(q), i # 1 PROVE q[i] \in {r[j] : j \in 1 .. Len(r)}
    <3>1. i - 1 \in 1 .. Len(r) /\ r[i - 1] = q[i]  BY <1>1, <2>1
    <3> QED  BY <3>1
  <2>2. ASSUME NEW i \in 1 .. Len(r) PROVE r[i] \in {q[j] : j \in 1 .. Len(q)}
    <3>1. i + 1 \in 1 .. Len(q) /\ r[i] = q[i + 1]  BY <1>1
    <3> QED  BY <3>1
  <2>3. 1 \in 1 .. Len(q)  BY <1>1
  <2> QED  BY <1>1, <2>1, <2>2, <2>3
<1>5. ASSUME NEW i \in 1 .. Len(r), NEW j \in 1 .. Len(r), i < j PROVE r[i] < r[j]
  <2>1. i + 1 \in 1 .. Len(q) /\ j + 1 \in 1 .. Len(q) /\ i + 1 < j + 1  BY <1>1, <1>5
  <2> QED  BY <1>1, <2>1
<1> QED  BY <1>1, <1>3, <1>4, <1>5 DEF r, h
-----------------------------------------------------------------------------
(* Where the threads are when t has gone to a label.                       *)
LEMMA MovedAt ==
  ASSUME TypeOK, NEW t \in Tasks, NEW label, Goto(t, label)
  PROVE  /\ At("none")' = IF label = "none" THEN At("none") \cup {t} ELSE At("none") \ {t}
         /\ At("failed")' = IF label = "failed" THEN At("failed") \cup {t} ELSE At("failed") \ {t}
         /\ At("waiting")' = IF label = "waiting" THEN At("waiting") \cup {t} ELSE At("waiting") \ {t}
         /\ At("asleep")' = IF label = "asleep" THEN At("asleep") \cup {t} ELSE At("asleep") \ {t}
         /\ At("woken")' = IF label = "woken" THEN At("woken") \cup {t} ELSE At("woken") \ {t}
         /\ At("running")' = IF label = "running" THEN At("running") \cup {t} ELSE At("running") \ {t}
<1>1. \A x \in Tasks : thread'[x] = IF x = t THEN label ELSE thread[x]  BY DEF Goto, TypeOK
<1> QED  BY <1>1 DEF At

LEMMA IdleComing ==
  ASSUME MaxTasks \in Nat
  PROVE  /\ Idle \in SUBSET Tasks /\ Cardinality(Idle) \in 0 .. MaxTasks
         /\ Coming \in SUBSET Tasks /\ Cardinality(Coming) \in 0 .. MaxTasks
         /\ Cardinality(At("woken")) <= Cardinality(Coming)
         /\ Idle' \in SUBSET Tasks /\ Coming' \in SUBSET Tasks
<1>1. Idle \in SUBSET Tasks /\ Coming \in SUBSET Tasks /\ At("woken") \in SUBSET Coming
      /\ Idle' \in SUBSET Tasks /\ Coming' \in SUBSET Tasks
  BY DEF Idle, Coming, At
<1>2. IsFiniteSet(Coming) /\ Cardinality(Idle) \in 0 .. MaxTasks /\ Cardinality(Coming) \in 0 .. MaxTasks
  BY <1>1, TasksFinite
<1>3. Cardinality(At("woken")) <= Cardinality(Coming)  BY <1>1, <1>2, FS_Subset
<1> QED  BY <1>1, <1>2, <1>3

LEMMA Counts ==
  /\ TasksHaveThreads <=> /\ num_idle_threads_ = Cardinality(Idle)
                          /\ ~terminated_ => Len(pending_tasks_) <= Cardinality(Coming)
  /\ TasksHaveThreads' <=> /\ num_idle_threads_' = Cardinality(Idle')
                           /\ ~terminated_' => Len(pending_tasks_') <= Cardinality(Coming')
BY DEF TasksHaveThreads, Idle, Coming

(* A step that takes no task and returns from none.                        *)
LEMMA TasksStay ==
  ASSUME IInv, At("running")' = At("running"), UNCHANGED <<pending_tasks_, task, posted, finished>>
  PROVE  /\ EachTaskRunsOnce'
         /\ \A s, t \in At("running")' : task'[s] = task'[t] => s = t
<1>1. Running' = Running /\ Queued' = Queued  BY DEF Running, Queued
<1> QED  BY <1>1 DEF IInv, EachTaskRunsOnce

LEMMA TerminateKeeps ==
  ASSUME IInv, Terminate
  PROVE  IInv'
<1> USE DEF Terminate
<1>1. TypeOK'  BY DEF IInv, TypeOK
<1>2. At("running")' = At("running")  BY DEF At
<1>3. EachTaskRunsOnce' /\ \A s, t \in At("running")' : task'[s] = task'[t] => s = t
  BY <1>2, TasksStay
<1>4. TasksHaveThreads'
  <2>1. At("asleep")' = At("asleep") /\ At("woken")' = At("woken")  BY DEF At
  <2> QED  BY <2>1 DEF IInv, TasksHaveThreads
<1> QED  BY <1>1, <1>3, <1>4 DEF IInv

LEMMA WakeAllKeeps ==
  ASSUME IInv, WakeAll
  PROVE  IInv'
<1>1. TypeOK'  BY DEF WakeAll, IInv, TypeOK
<1>2. At("running")' = At("running") /\ Idle' = Idle  BY DEF WakeAll, At, Idle
<1>3. EachTaskRunsOnce' /\ \A s, t \in At("running")' : task'[s] = task'[t] => s = t
  BY <1>2, TasksStay DEF WakeAll
<1>4. terminated_' = terminated_ /\ terminated_  BY DEF WakeAll, IInv
<1>5. TasksHaveThreads'
  BY <1>2, <1>4, Counts DEF WakeAll, IInv
<1> QED  BY <1>1, <1>3, <1>4, <1>5 DEF WakeAll, IInv

LEMMA TimeOutKeeps ==
  ASSUME MaxTasks \in Nat, IInv, NEW t \in Tasks, TimeOut(t)
  PROVE  IInv'
<1> USE DEF IInv
<1>1. /\ thread[t] = "asleep" /\ Goto(t, "woken")
      /\ UNCHANGED <<pending_tasks_, num_idle_threads_, terminated_, owner, task, posted, finished>>
  BY DEF TimeOut
<1>2. TypeOK'  BY <1>1 DEF Goto, TypeOK
<1>3. At("running")' = At("running") /\ Idle' = Idle /\ Coming' = Coming \cup {t} /\ t \notin Coming
  BY <1>1, MovedAt DEF Idle, Coming, At
<1>4. EachTaskRunsOnce' /\ \A s, x \in At("running")' : task'[s] = task'[x] => s = x
  BY <1>1, <1>3, TasksStay
<1>5. Cardinality(Coming') = Cardinality(Coming) + 1  BY <1>3, JoinedLeft, IdleComing
<1>6. Cardinality(Coming) \in Nat /\ Len(pending_tasks_) \in Nat  BY IdleComing DEF TypeOK
<1>7. TasksHaveThreads'
  BY <1>1, <1>3, <1>5, <1>6, Counts
<1>8. \A x \in Tasks : thread'[x] # "none" => x <= posted'  BY <1>1 DEF Goto, TypeOK
<1> QED  BY <1>1, <1>2, <1>4, <1>7, <1>8

LEMMA RunTaskKeeps ==
  ASSUME MaxTasks \in Nat, IInv, NEW t \in Tasks, RunTask(t)
  PROVE  IInv'
<1> USE DEF IInv
<1>1. /\ thread[t] = "running" /\ Goto(t, "waiting")
      /\ finished' = finished \cup {task[t]} /\ task' = [task EXCEPT ![t] = 0]
      /\ UNCHANGED <<pending_tasks_, num_idle_threads_, terminated_, owner, posted>>
  BY DEF RunTask
<1>2. t \in At("running")  BY <1>1 DEF At
<1>3. /\ At("running")' = At("running") \ {t}
      /\ Idle' = Idle /\ Coming' = Coming \cup {t} /\ t \notin Coming
  BY <1>1, MovedAt DEF Idle, Coming, At
<1>4. \A x \in At("running")' : x \in At("running") /\ x # t /\ task'[x] = task[x]
  BY <1>1, <1>3 DEF At, TypeOK
<1>5. task[t] \in Running /\ task[t] \in 1 .. posted  BY <1>2 DEF Running, EachTaskRunsOnce
<1>6. TypeOK'
  <2>1. finished' \subseteq Tasks
    <3>1. task[t] \in Tasks  BY <1>5 DEF TypeOK, Tasks
    <3> QED  BY <1>1, <3>1 DEF TypeOK
  <2>2. task' \in [Tasks -> 0 .. MaxTasks]  BY <1>1 DEF TypeOK
  <2> QED  BY <1>1, <2>1, <2>2 DEF Goto, TypeOK
<1>7. \A s, x \in At("running")' : task'[s] = task'[x] => s = x  BY <1>4
<1>8. Running' = Running \ {task[t]} /\ Queued' = Queued
  <2>1. \A x \in At("running")' : task'[x] \in Running \ {task[t]}
    BY <1>2, <1>4 DEF Running
  <2>2. \A x \in At("running") : task[x] # task[t] => x \in At("running")' /\ task'[x] = task[x]
    BY <1>3, <1>4
  <2> QED  BY <1>1, <2>1, <2>2 DEF Running, Queued
<1>9. EachTaskRunsOnce'
  <2>1. Cardinality(Running)' = Cardinality(At("running"))'  BY <1>7, RunningCountNext
  <2> QED  BY <1>1, <1>5, <1>8, <2>1 DEF EachTaskRunsOnce
<1>10. Cardinality(Coming') = Cardinality(Coming) + 1  BY <1>3, JoinedLeft, IdleComing
<1>11. Cardinality(Coming) \in Nat /\ Len(pending_tasks_) \in Nat  BY IdleComing DEF TypeOK
<1>12. TasksHaveThreads'  BY <1>1, <1>3, <1>10, <1>11, Counts
<1>13. \A x \in Tasks : thread'[x] # "none" => x <= posted'  BY <1>1 DEF Goto, TypeOK
<1> QED  BY <1>1, <1>6, <1>7, <1>9, <1>12, <1>13

(* t takes the oldest task: it was about to look for one.                  *)
LEMMA TakeKeeps ==
  ASSUME MaxTasks \in Nat, IInv, NEW t \in Tasks, Take(t), pending_tasks_ # <<>>,
         \/ thread[t] = "waiting" /\ num_idle_threads_' = num_idle_threads_
         \/ thread[t] = "woken" /\ num_idle_threads_' = num_idle_threads_ - 1,
         UNCHANGED <<terminated_, owner, posted, finished>>
  PROVE  IInv'
<1> USE DEF IInv
<1> DEFINE q == pending_tasks_
           h == Head(q)
           r == Tail(q)
<1>1. task' = [task EXCEPT ![t] = h] /\ pending_tasks_' = r /\ Goto(t, "running")  BY DEF Take
<1>2. /\ r \in Seq(Tasks) /\ Len(r) = Len(q) - 1 /\ Len(r) \in Nat
      /\ h \in Tasks /\ h \notin {r[i] : i \in 1 .. Len(r)}
      /\ {q[i] : i \in 1 .. Len(q)} = {r[i] : i \in 1 .. Len(r)} \cup {h}
      /\ \A i, j \in 1 .. Len(r) : i < j => r[i] < r[j]
  BY QueueAfterPop DEF TypeOK, EachTaskRunsOnce
<1>3. Queued = Queued' \cup {h} /\ h \notin Queued'  BY <1>1, <1>2 DEF Queued
<1> HIDE DEF h, r
<1>4. /\ At("running")' = At("running") \cup {t} /\ t \notin At("running")
      /\ t \in Coming /\ Coming' = Coming \ {t}
      /\ IF thread[t] = "woken" THEN t \in Idle /\ Idle' = Idle \ {t} ELSE Idle' = Idle
  BY <1>1, MovedAt DEF Idle, Coming, At
<1>5. /\ \A x \in At("running") : task'[x] = task[x]
      /\ task'[t] = h
  BY <1>1, <1>4 DEF At, TypeOK
<1>6. \A x \in At("running") : task[x] # h  BY <1>3 DEF Running, EachTaskRunsOnce
<1>7. Running' = Running \cup {h}  BY <1>4, <1>5 DEF Running
<1>8. \A s, x \in At("running")' : task'[s] = task'[x] => s = x  BY <1>4, <1>5, <1>6
<1>9. Cardinality(Coming') = Cardinality(Coming) - 1 /\ Cardinality(Coming) \in Nat
  BY <1>4, JoinedLeft, IdleComing
<1>10. num_idle_threads_' = Cardinality(Idle')
  <2>1. thread[t] = "woken" => Cardinality(Idle') = Cardinality(Idle) - 1  BY <1>4, JoinedLeft, IdleComing
  <2> QED  BY <1>4, <2>1, Counts
<1>11. TypeOK'
  <2>1. num_idle_threads_' \in 0 .. MaxTasks
    <3>1. Cardinality(Idle') \in 0 .. MaxTasks  BY IdleComing, TasksFinite
    <3> QED  BY <1>10, <3>1
  <2>2. task' \in [Tasks -> 0 .. MaxTasks]  BY <1>1, <1>2 DEF TypeOK, Tasks
  <2>3. thread' \in [Tasks -> {"none", "failed", "waiting", "asleep", "woken", "running", "gone"}]
    BY <1>1 DEF Goto, TypeOK
  <2> QED  BY <1>1, <1>2, <2>1, <2>2, <2>3 DEF TypeOK
<1>12. EachTaskRunsOnce'
  <2>1. Cardinality(Running)' = Cardinality(At("running"))'  BY <1>8, RunningCountNext
  <2>2. 1 .. posted' = Queued' \cup Running' \cup finished'  BY <1>3, <1>7 DEF EachTaskRunsOnce
  <2>3. Queued' \cap (Running' \cup finished') = {} /\ Running' \cap finished' = {}
    BY <1>3, <1>7 DEF EachTaskRunsOnce
  <2>4. \A i, j \in 1 .. Len(pending_tasks_') : i < j => pending_tasks_'[i] < pending_tasks_'[j]
    BY <1>1, <1>2
  <2> QED  BY <2>1, <2>2, <2>3, <2>4 DEF EachTaskRunsOnce
<1>13. TasksHaveThreads'
  <2>1. Len(q) \in Nat /\ Len(pending_tasks_') = Len(q) - 1  BY <1>1, <1>2 DEF TypeOK
  <2> QED  BY <1>9, <1>10, <2>1, Counts
<1>14. \A x \in Tasks : thread'[x] # "none" => x <= posted'  BY <1>1 DEF Goto, TypeOK
<1> QED  BY <1>8, <1>11, <1>12, <1>13, <1>14

(* t finds no task.                                                        *)
LEMMA NothingToTakeKeeps ==
  ASSUME MaxTasks \in Nat, IInv, NEW t \in Tasks,
         \/ thread[t] = "waiting" /\ terminated_ /\ Goto(t, "gone") /\ UNCHANGED num_idle_threads_
         \/ /\ thread[t] = "waiting" /\ pending_tasks_ = <<>> /\ Goto(t, "asleep")
            /\ num_idle_threads_' = num_idle_threads_ + 1
         \/ /\ thread[t] = "woken" /\ pending_tasks_ = <<>> /\ Goto(t, "gone")
            /\ num_idle_threads_' = num_idle_threads_ - 1,
         UNCHANGED <<pending_tasks_, task, terminated_, owner, posted, finished>>
  PROVE  IInv'
<1> USE DEF IInv
<1>1. PICK label \in {"asleep", "gone"} : Goto(t, label)  OBVIOUS
<1>2. /\ At("running")' = At("running")
      /\ IF thread'[t] = "asleep" THEN t \notin Idle /\ Idle' = Idle \cup {t}
         ELSE IF thread[t] = "woken" THEN t \in Idle /\ Idle' = Idle \ {t}
         ELSE Idle' = Idle
  BY <1>1, MovedAt DEF Idle, At, Goto, TypeOK
<1>3. EachTaskRunsOnce' /\ \A s, x \in At("running")' : task'[s] = task'[x] => s = x
  BY <1>2, TasksStay
<1>4. num_idle_threads_' = Cardinality(Idle')
  <2>1. thread'[t] = "asleep" => Cardinality(Idle') = Cardinality(Idle) + 1
    BY <1>2, JoinedLeft, IdleComing
  <2>2. thread'[t] # "asleep" /\ thread[t] = "woken" => Cardinality(Idle') = Cardinality(Idle) - 1
    BY <1>2, JoinedLeft, IdleComing
  <2> QED  BY <1>2, <2>1, <2>2, Counts DEF Goto, TypeOK
<1>5. TypeOK'
  <2>1. num_idle_threads_' \in 0 .. MaxTasks
    <3>1. Cardinality(Idle') \in 0 .. MaxTasks  BY IdleComing, TasksFinite
    <3> QED  BY <1>4, <3>1
  <2>2. thread' \in [Tasks -> {"none", "failed", "waiting", "asleep", "woken", "running", "gone"}]
    BY <1>1 DEF Goto, TypeOK
  <2> QED  BY <2>1, <2>2 DEF TypeOK
<1>6. TasksHaveThreads'
  <2>1. ~terminated_' => Len(pending_tasks_') = 0  BY EmptySeq
  <2>2. Cardinality(Coming') \in 0 .. MaxTasks  BY IdleComing, TasksFinite
  <2> QED  BY <1>4, <2>1, <2>2, Counts
<1>7. \A x \in Tasks : thread'[x] # "none" => x <= posted'  BY <1>1 DEF Goto, TypeOK
<1> QED  BY <1>3, <1>5, <1>6, <1>7

LEMMA StepKeeps ==
  ASSUME MaxTasks \in Nat, IInv, NEW t \in Tasks, Step(t)
  PROVE  IInv'
<1>1. CASE WaitForTask(t)  BY <1>1, NothingToTakeKeeps, TakeKeeps DEF WaitForTask
<1>2. CASE StopWaiting(t)  BY <1>2, NothingToTakeKeeps, TakeKeeps DEF StopWaiting
<1>3. CASE RunTask(t)  BY <1>3, RunTaskKeeps
<1> QED  BY <1>1, <1>2, <1>3 DEF Step

LEMMA AddTaskKeeps ==
  ASSUME WorkerPoolAssumption, IInv, AddTask
  PROVE  IInv'
<1> USE DEF IInv, WorkerPoolAssumption
<1> DEFINE q == pending_tasks_
           n == posted + 1
<1>1. /\ posted < MaxTasks /\ ~terminated_ /\ posted' = n
      /\ pending_tasks_' = Append(q, n)
      /\ IF num_idle_threads_ >= Len(q) + 1 THEN Signal ELSE CreateNonJoinable(n)
      /\ UNCHANGED <<num_idle_threads_, terminated_, owner, task, finished>>
  BY DEF AddTask
<1>2. n \in Tasks /\ n \notin 1 .. posted /\ 1 .. n = 1 .. posted \cup {n} /\ posted \in Nat
  BY <1>1 DEF TypeOK, Tasks
<1>3. \A i \in 1 .. Len(q) : q[i] < n
  <2>1. \A i \in 1 .. Len(q) : q[i] \in 1 .. posted  BY DEF EachTaskRunsOnce, Queued
  <2> QED  BY <1>2, <2>1
<1>4. /\ q \in Seq(Tasks) /\ Len(q) \in Nat
      /\ \A i, j \in 1 .. Len(q) : i < j => q[i] < q[j]
  BY DEF TypeOK, EachTaskRunsOnce
<1> HIDE DEF n
<1>5. /\ pending_tasks_' \in Seq(Tasks) /\ Len(pending_tasks_') = Len(q) + 1
      /\ Queued' = Queued \cup {n}
      /\ \A i, j \in 1 .. Len(pending_tasks_') : i < j => pending_tasks_'[i] < pending_tasks_'[j]
  BY <1>1, <1>2, <1>3, <1>4, QueueAfterPush DEF Queued
<1>6. thread[n] = "none"
  <2>1. ~ (n <= posted)  BY <1>2 DEF n
  <2> QED  BY <1>2, <2>1
<1>7. \/ thread' = thread /\ num_idle_threads_ >= Len(q) + 1 /\ At("asleep") = {}
      \/ \E t \in At("asleep") : Goto(t, "woken") /\ num_idle_threads_ >= Len(q) + 1
      \/ Goto(n, "waiting") \/ Goto(n, "failed")
  BY <1>1 DEF Signal, CreateNonJoinable
<1>8. /\ thread' \in [Tasks -> {"none", "failed", "waiting", "asleep", "woken", "running", "gone"}]
      /\ \A x \in Tasks : thread'[x] # "none" => thread[x] # "none" \/ x = n
  BY <1>2, <1>7 DEF TypeOK, Goto, At
<1>9. /\ At("running")' = At("running") /\ Idle' = Idle
      /\ \/ Coming' = Coming /\ At("asleep") = {} /\ num_idle_threads_ >= Len(q) + 1
         \/ \E t \in Tasks \ Coming : Coming' = Coming \cup {t}
  <2>1. CASE thread' = thread /\ num_idle_threads_ >= Len(q) + 1 /\ At("asleep") = {}
    BY <2>1 DEF At, Idle, Coming
  <2>2. ASSUME NEW t \in At("asleep"), Goto(t, "woken")
        PROVE  /\ At("running")' = At("running") /\ Idle' = Idle
               /\ t \in Tasks \ Coming /\ Coming' = Coming \cup {t}
    BY <2>2, MovedAt DEF At, Idle, Coming
  <2>3. ASSUME NEW label \in {"waiting", "failed"}, Goto(n, label)
        PROVE  /\ At("running")' = At("running") /\ Idle' = Idle
               /\ n \in Tasks \ Coming /\ Coming' = Coming \cup {n}
    BY <1>2, <1>6, <2>3, MovedAt DEF At, Idle, Coming
  <2> QED  BY <1>7, <2>1, <2>2, <2>3
<1>10. TypeOK'
  <2>1. posted' \in 0 .. MaxTasks  BY <1>1, <1>2 DEF Tasks
  <2> QED  BY <1>1, <1>5, <1>8, <2>1 DEF TypeOK
<1>11. Running' = Running  BY <1>1, <1>9 DEF Running
<1>12. EachTaskRunsOnce'
  <2>1. n \notin Queued \cup Running \cup finished  BY <1>2 DEF EachTaskRunsOnce
  <2>2. 1 .. posted' = Queued' \cup Running' \cup finished'
    BY <1>1, <1>2, <1>5, <1>11 DEF EachTaskRunsOnce
  <2> QED  BY <1>1, <1>5, <1>9, <1>11, <2>1, <2>2 DEF EachTaskRunsOnce
<1>13. TasksHaveThreads'
  <2>1. Cardinality(Coming) \in Nat /\ Cardinality(Idle) \in Nat  BY IdleComing
  <2>2. num_idle_threads_ = Cardinality(Idle) /\ Len(q) <= Cardinality(Coming)  BY <1>1, Counts
  <2>3. Len(q) + 1 <= Cardinality(Coming')
    <3>1. CASE Coming' = Coming /\ At("asleep") = {} /\ num_idle_threads_ >= Len(q) + 1
      <4>1. Idle = At("woken")  BY <3>1 DEF Idle
      <4>2. Cardinality(Idle) <= Cardinality(Coming)  BY <4>1, IdleComing
      <4> QED  BY <1>4, <2>1, <2>2, <3>1, <4>2
    <3>2. CASE \E t \in Tasks \ Coming : Coming' = Coming \cup {t}
      <4>1. Cardinality(Coming') = Cardinality(Coming) + 1  BY <3>2, JoinedLeft, IdleComing
      <4> QED  BY <1>4, <2>1, <2>2, <4>1
    <3> QED  BY <1>9, <3>1, <3>2
  <2> QED  BY <1>1, <1>5, <1>9, <2>2, <2>3, Counts
<1>14. \A x \in Tasks : thread'[x] # "none" => x <= posted'
  <2>1. \A x \in Tasks : x \in Nat  BY DEF Tasks
  <2> QED  BY <1>1, <1>2, <1>8, <2>1 DEF n
<1>15. \A s, t \in At("running")' : task'[s] = task'[t] => s = t  BY <1>1, <1>9
<1> QED  BY <1>1, <1>10, <1>12, <1>13, <1>14, <1>15
-----------------------------------------------------------------------------
LEMMA InitIInv == WorkerPoolAssumption /\ Init => IInv
<1> SUFFICES ASSUME WorkerPoolAssumption, Init PROVE IInv  OBVIOUS
<1> USE DEF Init, WorkerPoolAssumption
<1>1. TypeOK
  <2>1. /\ thread \in [Tasks -> {"none", "failed", "waiting", "asleep", "woken", "running", "gone"}]
        /\ task \in [Tasks -> 0 .. MaxTasks]
    OBVIOUS
  <2>2. pending_tasks_ \in Seq(Tasks)  BY EmptySeq
  <2>3. num_idle_threads_ \in 0 .. MaxTasks /\ posted \in 0 .. MaxTasks  OBVIOUS
  <2>4. owner \in {"posting", "terminating", "released"}  OBVIOUS
  <2>5. terminated_ \in BOOLEAN /\ finished \subseteq Tasks  OBVIOUS
  <2> HIDE DEF Init
  <2> QED  BY <2>1, <2>2, <2>3, <2>4, <2>5 DEF TypeOK
<1>2. /\ At("running") = {} /\ Idle = {} /\ Running = {} /\ Queued = {}
      /\ Cardinality(At("running")) = 0 /\ Cardinality(Idle) = 0 /\ Cardinality(Running) = 0
  <2>1. At("running") = {} /\ Idle = {}  BY DEF At, Idle
  <2>2. Running = {}  BY <2>1 DEF Running
  <2>3. Queued = {}  BY DEF Queued
  <2>4. Cardinality({}) = 0  BY FS_EmptySet
  <2> QED  BY <2>1, <2>2, <2>3, <2>4
<1>3. EachTaskRunsOnce  BY <1>2 DEF EachTaskRunsOnce
<1>4. TasksHaveThreads
  <2>1. Len(pending_tasks_) <= Cardinality(Coming)  BY IdleComing
  <2> QED  BY <1>2, <2>1, Counts
<1> QED  BY <1>1, <1>2, <1>3, <1>4 DEF IInv

LEMMA NextKeepsIInv == WorkerPoolAssumption /\ IInv /\ [Next]_vars => IInv'
<1> SUFFICES ASSUME WorkerPoolAssumption, IInv, [Next]_vars PROVE IInv'  OBVIOUS
<1>1. MaxTasks \in Nat  BY DEF WorkerPoolAssumption
<1>2. ASSUME NEW t \in Tasks, Step(t) \/ TimeOut(t) PROVE IInv'
  BY <1>1, <1>2, StepKeeps, TimeOutKeeps
<1>3. CASE UNCHANGED vars
  <2>1. /\ TypeOK' = TypeOK /\ At("running")' = At("running")
        /\ Idle' = Idle /\ Coming' = Coming
    BY <1>3 DEF vars, TypeOK, At, Idle, Coming
  <2>2. EachTaskRunsOnce' /\ \A s, t \in At("running")' : task'[s] = task'[t] => s = t
    BY <1>3, <2>1, TasksStay DEF vars
  <2>3. TasksHaveThreads'  BY <1>3, <2>1, Counts DEF IInv, vars
  <2> QED  BY <1>3, <2>1, <2>2, <2>3 DEF IInv, vars
<1> QED  BY <1>2, <1>3, AddTaskKeeps, TerminateKeeps, WakeAllKeeps DEF Next

(* The inductive invariant of PostTask, the WorkerThreads and Terminate.   *)
THEOREM Invariance == ASSUME WorkerPoolAssumption PROVE Spec => []IInv
<1>1. Init => IInv  BY InitIInv
<1>2. IInv /\ [Next]_vars => IInv'  BY NextKeepsIInv
<1> QED  BY <1>1, <1>2, PTL DEF Spec

(* PostTask loses no task and no two WorkerThreads run one, in any pool.   *)
THEOREM TasksRunOnce == ASSUME WorkerPoolAssumption PROVE Spec => []EachTaskRunsOnce
<1>1. IInv => EachTaskRunsOnce  BY DEF IInv
<1> QED  BY <1>1, Invariance, PTL

(* PostTask, when it counts on idle threads, is right to: for every task   *)
(* in the queue a thread is about to look there, or could not be created   *)
(* when the task was posted, which PostTask does not notice.               *)
THEOREM ThreadsForTasks == ASSUME WorkerPoolAssumption PROVE Spec => []TasksHaveThreads
<1>1. IInv => TasksHaveThreads  BY DEF IInv
<1> QED  BY <1>1, Invariance, PTL
================================================================================

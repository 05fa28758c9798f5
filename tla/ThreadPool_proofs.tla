--------------------------- MODULE ThreadPool_proofs ---------------------------
(* Proofs about the threads that wait for work: those of ThreadPool, for   *)
(* any number of workers and of delegates, and with them those of          *)
(* WorkerPool.                                                             *)
EXTENDS MCThreadPool, SequenceTheorems, FiniteSetTheorems, TLAPS

Pooled == INSTANCE WorkerPool_proofs WITH owner <- holder

(* The workers that have yet to take their NULL.                           *)
Unstopped == {w \in Workers : worker[w] \notin {"none", "quit"}}
NullsDue == IF owner = "joining" THEN Cardinality(Unstopped) ELSE 0

LEMMA WorkersFinite ==
  /\ NumThreads \in Nat \ {0} /\ IsFiniteSet(Workers) /\ Cardinality(Workers) = NumThreads
  /\ \A S \in SUBSET Workers : IsFiniteSet(S) /\ Cardinality(S) \in Nat
<1>1. NumThreads \in Nat \ {0}  BY PoolAssumption
<1>2. IsFiniteSet(Workers) /\ Cardinality(Workers) = NumThreads  BY <1>1, FS_Interval DEF Workers
<1>3. ASSUME NEW S \in SUBSET Workers PROVE IsFiniteSet(S) /\ Cardinality(S) \in Nat
  BY <1>2, FS_Subset, FS_CardinalityType
<1> QED  BY <1>1, <1>2, <1>3

LEMMA IndicesFinite ==
  ASSUME NEW n \in Nat
  PROVE  /\ IsFiniteSet(1 .. n) /\ Cardinality(1 .. n) = n
         /\ \A S \in SUBSET (1 .. n) : IsFiniteSet(S) /\ Cardinality(S) \in Nat
<1>1. IsFiniteSet(1 .. n) /\ Cardinality(1 .. n) = n  BY FS_Interval
<1>2. ASSUME NEW S \in SUBSET (1 .. n) PROVE IsFiniteSet(S) /\ Cardinality(S) \in Nat
  BY <1>1, FS_Subset, FS_CardinalityType
<1> QED  BY <1>1, <1>2

(* A set of positions that has moved up or down has as many members.       *)
LEMMA ShiftedCount ==
  ASSUME NEW n \in Nat, NEW S \in SUBSET (1 .. n), NEW d \in Int
  PROVE  Cardinality({i + d : i \in S}) = Cardinality(S)
<1> DEFINE T == {i + d : i \in S}
           f == [i \in S |-> i + d]
<1>1. IsFiniteSet(S)  BY IndicesFinite
<1>2. f \in Bijection(S, T)
  <2>1. f \in [S -> T] /\ \A y \in T : \E x \in S : f[x] = y  OBVIOUS
  <2>2. \A a, b \in S : f[a] = f[b] => a = b  OBVIOUS
  <2> HIDE DEF T, f
  <2>3. f \in Injection(S, T)  BY <2>1, <2>2 DEF Injection, IsInjective
  <2>4. f \in Surjection(S, T)  BY <2>1 DEF Surjection
  <2> QED  BY <2>3, <2>4 DEF Bijection
<1>3. ExistsBijection(S, T)  BY <1>2 DEF ExistsBijection
<1> QED  BY <1>1, <1>3, FS_Bijection

(* Where the items are that AddWork queues behind the others.              *)
LEMMA QueueAfterPush ==
  ASSUME NEW S, NEW q \in Seq(S), NEW items \in Seq(S)
  PROVE  LET r == q \o items
         IN  /\ r \in Seq(S) /\ Len(r) = Len(q) + Len(items) /\ Len(q) \in Nat /\ Len(items) \in Nat
             /\ \A k \in 1 .. Len(r) :
                  IF k <= Len(q) THEN k \in 1 .. Len(q) /\ r[k] = q[k]
                  ELSE k - Len(q) \in 1 .. Len(items) /\ r[k] = items[k - Len(q)]
             /\ {r[k] : k \in 1 .. Len(r)} = {q[i] : i \in 1 .. Len(q)} \cup {items[i] : i \in 1 .. Len(items)}
<1> DEFINE r == q \o items
<1>1. /\ r \in Seq(S) /\ Len(r) = Len(q) + Len(items)
      /\ \A k \in 1 .. Len(q) + Len(items) : r[k] = IF k <= Len(q) THEN q[k] ELSE items[k - Len(q)]
  BY ConcatProperties, Zenon
<1>2. Len(q) \in Nat /\ Len(items) \in Nat  BY LenProperties
<1> HIDE DEF r
<1>3. \A k \in 1 .. Len(r) :
        IF k <= Len(q) THEN k \in 1 .. Len(q) /\ r[k] = q[k]
        ELSE k - Len(q) \in 1 .. Len(items) /\ r[k] = items[k - Len(q)]
  BY <1>1, <1>2
<1>4. {r[k] : k \in 1 .. Len(r)} = {q[i] : i \in 1 .. Len(q)} \cup {items[i] : i \in 1 .. Len(items)}
  <2>1. ASSUME NEW i \in 1 .. Len(q) PROVE q[i] \in {r[k] : k \in 1 .. Len(r)}
    <3>1. i \in 1 .. Len(r) /\ r[i] = q[i]  BY <1>1, <1>2
    <3> QED  BY <3>1
  <2>2. ASSUME NEW i \in 1 .. Len(items) PROVE items[i] \in {r[k] : k \in 1 .. Len(r)}
    <3>1. Len(q) + i \in 1 .. Len(r) /\ ~ (Len(q) + i <= Len(q)) /\ Len(q) + i - Len(q) = i  BY <1>1, <1>2
    <3>2. r[Len(q) + i] = items[i]  BY <1>3, <3>1
    <3> QED  BY <3>1, <3>2
  <2> QED  BY <1>3, <2>1, <2>2
<1> QED  BY <1>1, <1>2, <1>3, <1>4 DEF r

(* What is left when a worker has taken the front.                         *)
LEMMA QueueAfterPop ==
  ASSUME NEW S, NEW q \in Seq(S), q # <<>>
  PROVE  LET r == Tail(q)
         IN  /\ r \in Seq(S) /\ Len(r) = Len(q) - 1 /\ Len(r) \in Nat /\ Len(q) \in Nat
             /\ Head(q) = q[1] /\ 1 \in 1 .. Len(q)
             /\ \A k \in 1 .. Len(r) : k + 1 \in 1 .. Len(q) /\ r[k] = q[k + 1]
             /\ \A i \in 1 .. Len(q) : i # 1 => i - 1 \in 1 .. Len(r) /\ r[i - 1] = q[i]
             /\ {q[i] : i \in 1 .. Len(q)} = {r[k] : k \in 1 .. Len(r)} \cup {Head(q)}
<1> DEFINE r == Tail(q)
           h == Head(q)
<1>1. /\ r \in Seq(S) /\ Len(r) = Len(q) - 1 /\ Len(q) \in Nat \ {0}
      /\ h = q[1]
      /\ \A i \in 1 .. Len(r) : r[i] = q[i + 1]
  BY HeadTailProperties, EmptySeq DEF Head
<1> HIDE DEF r, h
<1>2. \A k \in 1 .. Len(r) : k + 1 \in 1 .. Len(q) /\ r[k] = q[k + 1]  BY <1>1
<1>3. \A i \in 1 .. Len(q) : i # 1 => i - 1 \in 1 .. Len(r) /\ r[i - 1] = q[i]  BY <1>1
<1>4. {q[i] : i \in 1 .. Len(q)} = {r[k] : k \in 1 .. Len(r)} \cup {h}
  <2>1. 1 \in 1 .. Len(q)  BY <1>1
  <2>2. ASSUME NEW i \in 1 .. Len(q) PROVE q[i] \in {r[k] : k \in 1 .. Len(r)} \cup {h}
    <3>1. CASE i = 1  BY <1>1, <3>1
    <3>2. CASE i # 1  BY <1>3, <3>2
    <3> QED  BY <3>1, <3>2
  <2>3. ASSUME NEW k \in 1 .. Len(r) PROVE r[k] \in {q[i] : i \in 1 .. Len(q)}
    BY <1>2
  <2> QED  BY <1>1, <2>1, <2>2, <2>3
<1> QED  BY <1>1, <1>2, <1>3, <1>4 DEF r, h
-----------------------------------------------------------------------------
LEMMA QueueFacts ==
  ASSUME TypeOK
  PROVE  /\ Len(delegates_) \in Nat /\ (delegates_ = <<>> <=> Len(delegates_) = 0)
         /\ NullsLeft \in SUBSET (1 .. Len(delegates_))
         /\ Queued \subseteq 0 .. MaxWork
         /\ NULL \in Queued <=> NullsLeft # {}
<1>1. Len(delegates_) \in Nat /\ (delegates_ = <<>> <=> Len(delegates_) = 0)
  BY EmptySeq, LenProperties DEF TypeOK
<1>2. \A i \in 1 .. Len(delegates_) : delegates_[i] \in 0 .. MaxWork  BY ElementOfSeq DEF TypeOK
<1> QED  BY <1>1, <1>2 DEF NullsLeft, Queued

(* A step that leaves the queue alone, and what runs and has run.          *)
LEMMA QueueStays ==
  ASSUME IInv, UNCHANGED <<delegates_, dry_, added, owed, done>>,
         Running' = Running, \A w \in Running : work'[w] = work[w],
         NullsDue' = NullsDue,
         \A w \in Workers : worker'[w] = "blocked" => worker[w] = "blocked" \/ ~dry_,
         owner' = "joining" => owner = "joining",
         owner' = "joining" =>
           \A w \in Workers : worker'[w] \in {"none", "quit"} => worker[w] \in {"none", "quit"}
  PROVE  DryTellsWork' /\ EachRunsOnce' /\ OwedComesFirst'
<1> USE DEF IInv
<1>1. DryTellsWork'  BY DEF DryTellsWork
<1>2. EachRunsOnce'
  <2>1. NullsLeft' = NullsLeft /\ Queued' = Queued  BY DEF NullsLeft, Queued
  <2>2. {work'[w] : w \in Running'} = {work[w] : w \in Running}  OBVIOUS
  <2>3. Cardinality(NullsLeft) = NullsDue  BY DEF EachRunsOnce, NullsDue, Unstopped
  <2>4. Cardinality(NullsLeft') = NullsDue'  BY <2>1, <2>3
  <2>5. Cardinality(NullsLeft') =
           IF owner' = "joining" THEN Cardinality({w \in Workers : worker'[w] \notin {"none", "quit"}})
           ELSE 0
    BY <2>4 DEF NullsDue, Unstopped
  <2> QED  BY <2>1, <2>2, <2>5 DEF EachRunsOnce
<1>3. OwedComesFirst'  BY DEF OwedComesFirst, Queued
<1> QED  BY <1>1, <1>2, <1>3

LEMMA StartKeeps ==
  ASSUME IInv, Start
  PROVE  IInv'
<1> USE DEF IInv, Start
<1>1. UNCHANGED <<delegates_, dry_, added, owed, done, worker, work, event_>>
  BY DEF poolVars, workerVars
<1>2. TypeOK'
  <2>1. starts' \in 0 .. MaxStarts  BY PoolAssumption DEF TypeOK
  <2>2. 1 \in Workers  BY WorkersFinite DEF Workers
  <2> QED  BY <1>1, <2>1, <2>2 DEF TypeOK
<1>3. OwnerKnows'
  <2>1. \A w \in Workers : worker[w] = "none" /\ ~ (w < 1)  BY WorkersFinite DEF OwnerKnows, Workers
  <2> QED  BY <1>1, <2>1 DEF OwnerKnows
<1>4. Running' = Running /\ NullsDue' = NullsDue  BY <1>1 DEF Running, NullsDue
<1> QED  BY <1>1, <1>2, <1>3, <1>4, QueueStays

LEMMA CreateThreadKeeps ==
  ASSUME IInv, CreateThread
  PROVE  IInv'
<1> USE DEF IInv, CreateThread, Goto
<1>1. UNCHANGED <<delegates_, dry_, added, owed, done, next, starts>>  BY DEF poolVars
<1>2. TypeOK'
  <2>1. 0 \in 0 .. MaxWork  BY PoolAssumption
  <2> QED  BY <1>1, <2>1 DEF TypeOK, NULL
<1>3. next \in Workers /\ worker[next] = "none"
  <2>1. next \in Workers /\ ~ (next < next)  BY WorkersFinite DEF TypeOK, Workers
  <2> QED  BY <2>1 DEF OwnerKnows
<1>4. \A w \in Workers : /\ worker'[w] = (IF w = next THEN "born" ELSE worker[w])
                         /\ w # next => work'[w] = work[w]
  BY DEF TypeOK
<1>5. OwnerKnows'
  <2> SUFFICES ASSUME NEW w \in Workers
               PROVE  /\ w < next => InLoop(w)'
                      /\ w = next => IF event_'[w] THEN InLoop(w)' ELSE worker'[w] = "born"
                      /\ w > next => worker'[w] = "none"
    BY <1>1 DEF OwnerKnows
  <2>1. w \in Nat /\ next \in Nat  BY WorkersFinite DEF TypeOK, Workers
  <2>2. IF w < next THEN InLoop(w) ELSE worker[w] = "none"  BY DEF OwnerKnows
  <2>3. CASE w = next
    <3>1. ~ event_'[next]
      <4>1. next \in DOMAIN event_ /\ event_' = [event_ EXCEPT ![next] = FALSE]  BY <1>3 DEF TypeOK
      <4>2. event_'[next] = FALSE  BY <4>1, Zenon
      <4> QED  BY <4>2
    <3>2. worker'[next] = "born"  BY <1>3, <1>4
    <3> QED  BY <2>1, <2>3, <3>1, <3>2
  <2>4. CASE w # next
    <3>1. worker'[w] = worker[w]  BY <1>4, <2>4
    <3> QED  BY <2>1, <2>2, <2>4, <3>1 DEF InLoop
  <2> QED  BY <2>3, <2>4
<1>6. Running' = Running /\ next \notin Running  BY <1>3, <1>4 DEF Running
<1>7. NullsDue' = NullsDue  BY DEF NullsDue
<1>8. \A w \in Running : work'[w] = work[w]  BY <1>4, <1>6 DEF Running
<1>9. \A w \in Workers : worker'[w] = "blocked" => worker[w] = "blocked"  BY <1>4
<1> QED  BY <1>1, <1>2, <1>5, <1>6, <1>7, <1>8, <1>9, QueueStays

LEMMA StartReturnsKeeps ==
  ASSUME IInv, StartReturns
  PROVE  IInv'
<1> USE DEF IInv, StartReturns
<1>1. UNCHANGED <<delegates_, dry_, added, owed, done, worker, work, event_, starts>>
  BY DEF poolVars, workerVars
<1>2. next \in Nat /\ 1 <= next /\ next <= NumThreads /\ NumThreads \in Nat
  BY WorkersFinite DEF TypeOK, Workers
<1>3. TypeOK'
  <2>1. next' \in Workers  BY <1>2 DEF Workers
  <2>2. owner' \in {"create", "up"}  OBVIOUS
  <2> QED  BY <1>1, <2>1, <2>2 DEF TypeOK
<1>4. OwnerKnows'
  <2>1. ASSUME NEW w \in Workers
        PROVE  IF w <= next THEN InLoop(w) ELSE worker[w] = "none"
    <3>1. w \in Nat  BY <1>2 DEF Workers
    <3> QED  BY <1>2, <3>1 DEF OwnerKnows
  <2>2. CASE next < NumThreads
    <3>1. owner' = "create" /\ next' = next + 1  BY <2>2
    <3>2. \A w \in Workers : w <= next <=> w < next + 1  BY <1>2 DEF Workers
    <3> QED  BY <1>1, <2>1, <3>1, <3>2 DEF OwnerKnows, InLoop
  <2>3. CASE ~ (next < NumThreads)
    <3>1. \A w \in Workers : w <= next  BY <1>2, <2>3 DEF Workers
    <3> QED  BY <1>1, <2>1, <2>3, <3>1 DEF OwnerKnows, InLoop
  <2> QED  BY <2>2, <2>3
<1>5. Running' = Running /\ NullsDue' = NullsDue  BY <1>1 DEF Running, NullsDue
<1> QED  BY <1>1, <1>3, <1>4, <1>5, QueueStays

(* Where the workers are when JoinAll is about to join the next one.       *)
LEMMA JoiningFacts ==
  ASSUME IInv, owner = "joining", worker[next] = "quit"
  PROVE  /\ next \in Workers /\ next \in Nat /\ next <= NumThreads /\ NumThreads \in Nat
         /\ \A w \in Workers : w < next => worker[w] = "none"
         /\ ~ (next < NumThreads) => /\ Unstopped = {} /\ NullsLeft = {} /\ Running = {}
                                    /\ \A w \in Workers \ {next} : worker[w] = "none"
<1> USE DEF IInv
<1>1. next \in Workers /\ next \in Nat /\ next <= NumThreads /\ NumThreads \in Nat
  BY WorkersFinite DEF TypeOK, Workers
<1>2. \A w \in Workers : w < next => worker[w] = "none"  BY DEF OwnerKnows
<1>3. ASSUME ~ (next < NumThreads)
      PROVE  /\ Unstopped = {} /\ NullsLeft = {} /\ Running = {}
             /\ \A w \in Workers \ {next} : worker[w] = "none"
  <2>1. \A w \in Workers \ {next} : w < next  BY <1>1, <1>3 DEF Workers
  <2>2. \A w \in Workers \ {next} : worker[w] = "none"  BY <1>2, <2>1
  <2>3. Unstopped = {} /\ Running = {}  BY <2>2 DEF Unstopped, Running
  <2>4. Cardinality(NullsLeft) = 0
    <3>1. Cardinality(NullsLeft) = Cardinality(Unstopped)  BY DEF EachRunsOnce, Unstopped
    <3> QED  BY <2>3, <3>1, FS_EmptySet
  <2>5. NullsLeft = {}
    <3>1. IsFiniteSet(NullsLeft)  BY QueueFacts, IndicesFinite
    <3> QED  BY <2>4, <3>1, FS_EmptySet
  <2> QED  BY <2>2, <2>3, <2>5
<1> QED  BY <1>1, <1>2, <1>3

LEMMA JoinThreadKeeps ==
  ASSUME IInv, JoinThread
  PROVE  IInv'
<1> USE DEF IInv, JoinThread, Goto
<1>1. UNCHANGED <<delegates_, dry_, added, owed, done, work, event_, starts>>  BY DEF poolVars
<1>2. /\ next \in Workers /\ next \in Nat /\ next <= NumThreads /\ NumThreads \in Nat
      /\ \A w \in Workers : w < next => worker[w] = "none"
      /\ ~ (next < NumThreads) => /\ Unstopped = {} /\ NullsLeft = {} /\ Running = {}
                                 /\ \A w \in Workers \ {next} : worker[w] = "none"
  BY JoiningFacts
<1>3. \A w \in Workers : worker'[w] = IF w = next THEN "none" ELSE worker[w]  BY DEF TypeOK
<1>4. TypeOK'
  <2>1. next' \in Workers  BY <1>2 DEF Workers
  <2>2. owner' \in {"joining", "idle"}  OBVIOUS
  <2>3. worker' \in [Workers -> {"none", "born", "wait", "blocked", "take", "run", "quit"}]
    BY DEF TypeOK
  <2> QED  BY <1>1, <2>1, <2>2, <2>3 DEF TypeOK
<1>5. OwnerKnows'
  <2>1. CASE next < NumThreads
    <3>1. owner' = "joining" /\ next' = next + 1  BY <2>1
    <3>2. \A w \in Workers : w < next + 1 <=> w < next \/ w = next  BY <1>2 DEF Workers
    <3>3. \A w \in Workers : IF w < next + 1 THEN worker'[w] = "none"
                             ELSE InLoop(w)' \/ worker'[w] = "quit"
      BY <1>2, <1>3, <3>2 DEF OwnerKnows, InLoop
    <3> QED  BY <3>1, <3>3 DEF OwnerKnows
  <2>2. CASE ~ (next < NumThreads)
    <3>1. \A w \in Workers : worker'[w] = "none"  BY <1>2, <1>3, <2>2
    <3> QED  BY <2>2, <3>1 DEF OwnerKnows
  <2> QED  BY <2>1, <2>2
<1>6. Running' = Running /\ Unstopped' = Unstopped  BY <1>3 DEF Running, Unstopped
<1>7. NullsDue' = NullsDue
  <2>1. CASE next < NumThreads  BY <1>6, <2>1 DEF NullsDue
  <2>2. CASE ~ (next < NumThreads)
    <3>1. Cardinality(Unstopped) = 0  BY <1>2, <2>2, FS_EmptySet
    <3> QED  BY <2>2, <3>1 DEF NullsDue
  <2> QED  BY <2>1, <2>2
<1>8. \A w \in Workers : /\ worker'[w] = "blocked" => worker[w] = "blocked"
                         /\ worker'[w] \in {"none", "quit"} => worker[w] \in {"none", "quit"}
  BY <1>3
<1> QED  BY <1>1, <1>4, <1>5, <1>6, <1>7, <1>8, QueueStays
-----------------------------------------------------------------------------
(* Moves of workers that are in their loop and stay there.                 *)
LEMMA LoopKeepsOwner ==
  ASSUME OwnerKnows, UNCHANGED <<owner, next, event_>>,
         \A w \in Workers : (InLoop(w) /\ InLoop(w)') \/ worker'[w] = worker[w]
  PROVE  OwnerKnows'
<1> SUFFICES ASSUME NEW w \in Workers
             PROVE  /\ owner = "idle" => worker'[w] = "none"
                    /\ owner = "create" => IF w < next THEN InLoop(w)' ELSE worker'[w] = "none"
                    /\ owner = "starting" => /\ w < next => InLoop(w)'
                                             /\ w = next => IF event_[w] THEN InLoop(w)'
                                                            ELSE worker'[w] = "born"
                                             /\ w > next => worker'[w] = "none"
                    /\ owner = "up" => InLoop(w)'
                    /\ owner = "joining" => IF w < next THEN worker'[w] = "none"
                                            ELSE InLoop(w)' \/ worker'[w] = "quit"
  BY DEF OwnerKnows
<1>1. CASE worker'[w] = worker[w]
  <2>1. InLoop(w)' <=> InLoop(w)  BY <1>1 DEF InLoop
  <2> QED  BY <1>1, <2>1 DEF OwnerKnows
<1>2. CASE InLoop(w) /\ InLoop(w)'
  <2>1. worker[w] \notin {"none", "born", "quit"}  BY <1>2 DEF InLoop
  <2> QED  BY <1>2, <2>1 DEF OwnerKnows
<1> QED  BY <1>1, <1>2

LEMMA ThreadMainKeeps ==
  ASSUME IInv, NEW w \in Workers, ThreadMain(w)
  PROVE  IInv'
<1> USE DEF IInv, ThreadMain, Goto
<1>1. UNCHANGED <<delegates_, dry_, added, owed, done, work, owner, next, starts>>
  BY DEF poolVars, ownerVars
<1>2. TypeOK'  BY <1>1 DEF TypeOK
<1>3. \A x \in Workers : worker'[x] = IF x = w THEN "wait" ELSE worker[x]  BY DEF TypeOK
<1>4. owner = "starting" /\ w = next
  <2>1. owner \in {"idle", "create", "starting", "up", "joining"} /\ ~InLoop(w)
    BY DEF TypeOK, InLoop
  <2>2. w \in Nat /\ next \in Nat  BY WorkersFinite DEF TypeOK, Workers
  <2> QED  BY <2>1, <2>2 DEF OwnerKnows
<1>5. OwnerKnows'
  <2> SUFFICES ASSUME NEW x \in Workers
               PROVE  /\ x < next => InLoop(x)'
                      /\ x = next => IF event_'[x] THEN InLoop(x)' ELSE worker'[x] = "born"
                      /\ x > next => worker'[x] = "none"
    BY <1>1, <1>4 DEF OwnerKnows
  <2>1. x \in Nat /\ next \in Nat  BY WorkersFinite DEF TypeOK, Workers
  <2>2. (x < next => InLoop(x)) /\ (x > next => worker[x] = "none")  BY <1>4 DEF OwnerKnows
  <2>3. CASE x = next
    <3>1. event_'[x]
      <4>1. x \in DOMAIN event_ /\ event_' = [event_ EXCEPT ![x] = TRUE]  BY <1>4, <2>3 DEF TypeOK
      <4>2. event_'[x] = TRUE  BY <4>1, Zenon
      <4> QED  BY <4>2
    <3>2. InLoop(x)'  BY <1>3, <1>4, <2>3 DEF InLoop
    <3> QED  BY <2>1, <2>3, <3>1, <3>2
  <2>4. CASE x # next
    <3>1. worker'[x] = worker[x]  BY <1>3, <1>4, <2>4
    <3> QED  BY <2>1, <2>2, <2>4, <3>1 DEF InLoop
  <2> QED  BY <2>3, <2>4
<1>6. Running' = Running /\ NullsDue' = NullsDue  BY <1>1, <1>3, <1>4 DEF Running, NullsDue
<1> QED  BY <1>1, <1>2, <1>3, <1>4, <1>5, <1>6, QueueStays

LEMMA WaitDryKeeps ==
  ASSUME IInv, NEW w \in Workers, WaitDry(w)
  PROVE  IInv'
<1> USE DEF IInv, WaitDry, Goto
<1>1. UNCHANGED <<delegates_, dry_, added, owed, done, work, event_, owner, next, starts>>
  BY DEF poolVars, ownerVars
<1>2. TypeOK'  BY <1>1 DEF TypeOK
<1>3. \A x \in Workers : worker'[x] = IF x = w THEN (IF dry_ THEN "take" ELSE "blocked") ELSE worker[x]
  BY DEF TypeOK
<1>4. OwnerKnows'  BY <1>1, <1>3, LoopKeepsOwner DEF InLoop
<1>5. Running' = Running /\ Unstopped' = Unstopped  BY <1>3 DEF Running, Unstopped
<1>6. NullsDue' = NullsDue  BY <1>1, <1>5 DEF NullsDue
<1> QED  BY <1>1, <1>2, <1>3, <1>4, <1>5, <1>6, QueueStays

LEMMA RunWorkKeeps ==
  ASSUME IInv, NEW w \in Workers, RunWork(w)
  PROVE  IInv'
<1> USE DEF IInv, RunWork, Goto
<1>1. UNCHANGED <<delegates_, dry_, added, owed, work, event_, owner, next, starts>>
      /\ done' = done \cup {work[w]} /\ w \in Running
  BY DEF poolVars, ownerVars, Running
<1>2. work[w] \in 1 .. added /\ work[w] \notin Queued \cup done  BY <1>1 DEF EachRunsOnce
<1>3. TypeOK'
  <2>1. work[w] \in 1 .. MaxWork  BY <1>2, PoolAssumption DEF TypeOK
  <2> QED  BY <1>1, <2>1 DEF TypeOK
<1>4. \A x \in Workers : worker'[x] = IF x = w THEN "wait" ELSE worker[x]  BY DEF TypeOK
<1>5. OwnerKnows'  BY <1>1, <1>4, LoopKeepsOwner DEF InLoop
<1>6. Running' = Running \ {w} /\ Unstopped' = Unstopped /\ NullsLeft' = NullsLeft /\ Queued' = Queued
  BY <1>1, <1>4 DEF Running, Unstopped, NullsLeft, Queued
<1>7. EachRunsOnce'
  <2>1. \A x \in Running' : work[x] # work[w]  BY <1>1, <1>6 DEF EachRunsOnce
  <2>2. {work[x] : x \in Running} \cup done = {work[x] : x \in Running'} \cup done'  BY <1>1, <1>6
  <2>3. 1 .. added' = (Queued' \ {NULL}) \cup {work'[x] : x \in Running'} \cup done'
    BY <1>1, <1>6, <2>2 DEF EachRunsOnce
  <2>4. \A x \in Running' : work'[x] \notin Queued' \cup done'  BY <1>1, <1>6, <2>1 DEF EachRunsOnce
  <2>5. \A x, y \in Running' : work'[x] = work'[y] => x = y  BY <1>1, <1>6 DEF EachRunsOnce
  <2>6. Queued' \cap done' = {}  BY <1>1, <1>2, <1>6 DEF EachRunsOnce
  <2>7. Cardinality(NullsLeft') =
          IF owner' = "joining" THEN Cardinality({x \in Workers : worker'[x] \notin {"none", "quit"}})
          ELSE 0
    BY <1>1, <1>6 DEF EachRunsOnce, Unstopped
  <2>8. \A i, j \in 1 .. Len(delegates_') :
          i < j /\ delegates_'[i] # NULL /\ delegates_'[j] # NULL => delegates_'[i] < delegates_'[j]
    BY <1>1 DEF EachRunsOnce
  <2> QED  BY <2>3, <2>4, <2>5, <2>6, <2>7, <2>8 DEF EachRunsOnce
<1>8. DryTellsWork'  BY <1>1, <1>4 DEF DryTellsWork
<1>9. OwedComesFirst'  BY <1>1, <1>4, <1>6 DEF OwedComesFirst
<1> QED  BY <1>3, <1>5, <1>7, <1>8, <1>9

LEMMA TakeKeeps ==
  ASSUME IInv, NEW w \in Workers, Take(w), dry_
  PROVE  IInv'
<1> USE DEF IInv
<1> DEFINE q == delegates_
           h == Head(q)
           r == Tail(q)
<1>1. /\ worker[w] = "take" /\ delegates_' = r /\ dry_' = (Len(q) > 1)
      /\ work' = [work EXCEPT ![w] = h]
      /\ Goto(w, IF h = NULL THEN "quit" ELSE "run")
      /\ UNCHANGED <<done, added, owed, event_, owner, next, starts>>
  BY DEF Take, ownerVars
<1>2. q \in Seq(0 .. MaxWork) /\ q # <<>>  BY DEF DryTellsWork, TypeOK
<1>3. /\ r \in Seq(0 .. MaxWork) /\ Len(r) = Len(q) - 1 /\ Len(r) \in Nat /\ Len(q) \in Nat
      /\ h = q[1] /\ 1 \in 1 .. Len(q)
      /\ \A k \in 1 .. Len(r) : k + 1 \in 1 .. Len(q) /\ r[k] = q[k + 1]
      /\ \A i \in 1 .. Len(q) : i # 1 => i - 1 \in 1 .. Len(r) /\ r[i - 1] = q[i]
      /\ {q[i] : i \in 1 .. Len(q)} = {r[k] : k \in 1 .. Len(r)} \cup {h}
  BY <1>2, QueueAfterPop
<1>4. Queued = Queued' \cup {h} /\ h \in 0 .. MaxWork
  <2>1. Queued = Queued' \cup {h}  BY <1>1, <1>3, ZenonT(60) DEF Queued
  <2> QED  BY <2>1, QueueFacts
<1> HIDE DEF h, r
<1>5. NullsLeft = {i \in 1 .. Len(q) : q[i] = NULL} /\ NullsLeft' = {k \in 1 .. Len(r) : r[k] = NULL}
  BY <1>1 DEF NullsLeft
<1>6. \A x \in Workers : /\ worker'[x] = IF x = w THEN (IF h = NULL THEN "quit" ELSE "run") ELSE worker[x]
                         /\ work'[x] = IF x = w THEN h ELSE work[x]
  <2>1. \A x \in Workers : worker'[x] = IF x = w THEN (IF h = NULL THEN "quit" ELSE "run") ELSE worker[x]
    BY <1>1 DEF Goto, TypeOK
  <2>2. \A x \in Workers : work'[x] = IF x = w THEN h ELSE work[x]  BY <1>1 DEF TypeOK
  <2> QED  BY <2>1, <2>2
<1>7. TypeOK'
  <2>1. worker' \in [Workers -> {"none", "born", "wait", "blocked", "take", "run", "quit"}]
    BY <1>1 DEF Goto, TypeOK
  <2>2. work' \in [Workers -> 0 .. MaxWork]  BY <1>1, <1>4 DEF TypeOK
  <2>3. dry_' \in BOOLEAN  BY <1>1
  <2> QED  BY <1>1, <1>3, <2>1, <2>2, <2>3 DEF TypeOK
<1>8. DryTellsWork'
  <2>1. r # <<>> <=> Len(r) # 0  BY <1>3, EmptySeq
  <2>2. dry_' <=> delegates_' # <<>>
    <3>1. r # <<>> <=> Len(q) > 1  BY <1>3, <2>1
    <3>2. dry_' = (Len(q) > 1) /\ delegates_' = r  BY <1>1
    <3> QED  BY <3>1, <3>2, Zenon
  <2>3. \A x \in Workers : worker'[x] # "blocked"  BY <1>6 DEF DryTellsWork
  <2> QED  BY <2>2, <2>3 DEF DryTellsWork
<1>9. h = NULL => owner = "joining" /\ Cardinality(NullsLeft) = Cardinality(Unstopped)
  <2>1. h = NULL => 1 \in NullsLeft  BY <1>3, <1>5
  <2>2. IsFiniteSet(NullsLeft)  BY QueueFacts, IndicesFinite
  <2>3. h = NULL => Cardinality(NullsLeft) # 0  BY <2>1, <2>2, FS_EmptySet
  <2> QED  BY <2>3 DEF EachRunsOnce, Unstopped
<1>10. OwnerKnows'
  <2>1. InLoop(w) /\ \A x \in Workers \ {w} : worker'[x] = worker[x]  BY <1>1, <1>6 DEF InLoop
  <2>2. CASE h # NULL
    <3>1. InLoop(w)'  BY <1>6, <2>2 DEF InLoop
    <3> QED  BY <1>1, <2>1, <3>1, LoopKeepsOwner
  <2>3. CASE h = NULL
    <3>1. owner' = "joining" /\ next' = next /\ ~ (w < next)
      BY <1>1, <1>9, <2>3 DEF OwnerKnows
    <3>2. \A x \in Workers : IF x < next THEN worker'[x] = "none" ELSE InLoop(x)' \/ worker'[x] = "quit"
      BY <1>1, <1>6, <1>9, <2>1, <2>3, <3>1 DEF OwnerKnows, InLoop
    <3> QED  BY <3>1, <3>2 DEF OwnerKnows
  <2> QED  BY <2>2, <2>3
<1>11. OwedComesFirst'
  <2> SUFFICES ASSUME owner = "joining"
               PROVE  /\ \A i, j \in 1 .. Len(r) : r[i] = NULL /\ r[j] \in 1 .. owed => j < i
                      /\ \A x \in Workers : worker'[x] \in {"none", "quit"} => Queued' \cap (1 .. owed) = {}
    BY <1>1 DEF OwedComesFirst
  <2>1. ASSUME NEW i \in 1 .. Len(r), NEW j \in 1 .. Len(r), r[i] = NULL, r[j] \in 1 .. owed
        PROVE  j < i
    <3>1. /\ i + 1 \in 1 .. Len(q) /\ j + 1 \in 1 .. Len(q)
          /\ q[i + 1] = NULL /\ q[j + 1] \in 1 .. owed
      BY <1>3, <2>1
    <3>2. j + 1 < i + 1  BY <3>1 DEF OwedComesFirst
    <3> QED  BY <3>2
  <2>2. ASSUME NEW x \in Workers, worker'[x] \in {"none", "quit"}
        PROVE  Queued' \cap (1 .. owed) = {}
    <3>1. CASE x = w
      <4>1. h = NULL  BY <1>6, <2>2, <3>1
      <4>2. \A j \in 1 .. Len(q) : q[j] \in 1 .. owed => j < 1  BY <1>3, <4>1 DEF OwedComesFirst
      <4>3. \A j \in 1 .. Len(q) : q[j] \notin 1 .. owed  BY <1>3, <4>2
      <4>4. Queued \cap (1 .. owed) = {}  BY <4>3 DEF Queued
      <4> QED  BY <1>4, <4>4
    <3>2. CASE x # w
      <4>1. Queued \cap (1 .. owed) = {}  BY <1>6, <2>2, <3>2 DEF OwedComesFirst
      <4> QED  BY <1>4, <4>1
    <3> QED  BY <3>1, <3>2
  <2> QED  BY <2>1, <2>2
<1>12. \A i, j \in 1 .. Len(r) : i < j /\ r[i] # NULL /\ r[j] # NULL => r[i] < r[j]
  <2> SUFFICES ASSUME NEW i \in 1 .. Len(r), NEW j \in 1 .. Len(r), i < j, r[i] # NULL, r[j] # NULL
               PROVE  r[i] < r[j]
    OBVIOUS
  <2>1. i + 1 \in 1 .. Len(q) /\ j + 1 \in 1 .. Len(q) /\ i + 1 < j + 1
        /\ r[i] = q[i + 1] /\ r[j] = q[j + 1]
    BY <1>3
  <2> QED  BY <2>1 DEF EachRunsOnce
<1>13. h # NULL => h \notin Queued'
  <2> SUFFICES ASSUME h # NULL, NEW k \in 1 .. Len(r), r[k] = h PROVE FALSE
    BY <1>1 DEF Queued
  <2>1. 1 < k + 1 /\ k + 1 \in 1 .. Len(q) /\ q[k + 1] = h  BY <1>3
  <2>2. h < h  BY <1>3, <2>1 DEF EachRunsOnce
  <2> QED  BY <1>4, <2>2
<1>14. NullsLeft' = {i + (-1) : i \in NullsLeft \ {1}}
  <2>1. ASSUME NEW k \in NullsLeft' PROVE k \in {i + (-1) : i \in NullsLeft \ {1}}
    <3>1. k \in Nat /\ k # 0 /\ k + 1 \in NullsLeft  BY <1>3, <1>5
    <3>2. k = (k + 1) + (-1) /\ k + 1 # 1  BY <3>1
    <3> QED  BY <3>1, <3>2
  <2>2. ASSUME NEW i \in NullsLeft \ {1} PROVE i + (-1) \in NullsLeft'
    BY <1>3, <1>5
  <2> QED  BY <2>1, <2>2
<1>15. Cardinality(NullsLeft') = IF h = NULL THEN Cardinality(NullsLeft) - 1 ELSE Cardinality(NullsLeft)
  <2>1. NullsLeft \in SUBSET (1 .. Len(q)) /\ IsFiniteSet(NullsLeft)  BY <1>3, QueueFacts, IndicesFinite
  <2>2. Cardinality(NullsLeft') = Cardinality(NullsLeft \ {1})
    <3> DEFINE S == NullsLeft \ {1}
    <3>1. S \in SUBSET (1 .. Len(q)) /\ Len(q) \in Nat /\ -1 \in Int  BY <1>3, <2>1
    <3>2. NullsLeft' = {i + (-1) : i \in S}  BY <1>14
    <3> HIDE DEF S
    <3>3. Cardinality({i + (-1) : i \in S}) = Cardinality(S)  BY <3>1, ShiftedCount
    <3> QED  BY <3>2, <3>3 DEF S
  <2>3. 1 \in NullsLeft <=> h = NULL  BY <1>3, <1>5
  <2> QED  BY <2>1, <2>2, <2>3, FS_RemoveElement
<1>16. Cardinality(NullsLeft') = NullsDue'
  <2>1. Cardinality(NullsLeft) = NullsDue  BY DEF EachRunsOnce, NullsDue, Unstopped
  <2>2. CASE h # NULL
    <3>1. Unstopped' = Unstopped  BY <1>1, <1>6, <2>2 DEF Unstopped
    <3> QED  BY <1>1, <1>15, <2>1, <2>2, <3>1 DEF NullsDue
  <2>3. CASE h = NULL
    <3>1. Unstopped' = Unstopped \ {w} /\ w \in Unstopped /\ Unstopped \in SUBSET Workers
      BY <1>1, <1>6, <2>3 DEF Unstopped
    <3>2. Cardinality(Unstopped') = Cardinality(Unstopped) - 1
      BY <3>1, WorkersFinite, FS_RemoveElement
    <3> QED  BY <1>1, <1>9, <1>15, <2>3, <3>2 DEF NullsDue
  <2> QED  BY <2>2, <2>3
<1>17. w \notin Running /\ Running' = (IF h = NULL THEN Running ELSE Running \cup {w})
  BY <1>1, <1>6 DEF Running
<1>18. EachRunsOnce'
  <2>1. \A x \in Running : work'[x] = work[x]  BY <1>6, <1>17 DEF Running
  <2>2. work'[w] = h  BY <1>6
  <2>3. h # NULL => h \notin done /\ \A x \in Running : work[x] # h
    <3>1. h \in Queued  BY <1>4
    <3> QED  BY <3>1 DEF EachRunsOnce
  <2>4. {work'[x] : x \in Running'} = {work[x] : x \in Running} \cup (IF h = NULL THEN {} ELSE {h})
    BY <1>17, <2>1, <2>2
  <2>5. 1 .. added' = (Queued' \ {NULL}) \cup {work'[x] : x \in Running'} \cup done'
    <3>1. Queued \ {NULL} = (Queued' \ {NULL}) \cup (IF h = NULL THEN {} ELSE {h})  BY <1>4
    <3> QED  BY <1>1, <2>4, <3>1 DEF EachRunsOnce
  <2>6. \A x \in Running' : work'[x] \notin Queued' \cup done'
    BY <1>1, <1>4, <1>13, <1>17, <2>1, <2>2, <2>3 DEF EachRunsOnce
  <2>7. \A x, y \in Running' : work'[x] = work'[y] => x = y
    BY <1>17, <2>1, <2>2, <2>3 DEF EachRunsOnce
  <2>8. Queued' \cap done' = {}  BY <1>1, <1>4 DEF EachRunsOnce
  <2>9. Cardinality(NullsLeft') =
          IF owner' = "joining" THEN Cardinality({x \in Workers : worker'[x] \notin {"none", "quit"}})
          ELSE 0
    BY <1>16 DEF NullsDue, Unstopped
  <2> QED  BY <1>1, <1>12, <2>5, <2>6, <2>7, <2>8, <2>9 DEF EachRunsOnce
<1> QED  BY <1>7, <1>8, <1>10, <1>11, <1>18

(* Another worker has emptied the queue.                                   *)
LEMMA TakeNothingKeeps ==
  ASSUME IInv, NEW w \in Workers, Take(w), ~dry_
  PROVE  IInv'
<1> USE DEF IInv, Take, Goto
<1>1. UNCHANGED <<delegates_, dry_, added, owed, done, work, event_, owner, next, starts>>
  BY DEF poolVars, ownerVars
<1>2. TypeOK'  BY <1>1 DEF TypeOK
<1>3. \A x \in Workers : worker'[x] = IF x = w THEN "wait" ELSE worker[x]  BY DEF TypeOK
<1>4. OwnerKnows'  BY <1>1, <1>3, LoopKeepsOwner DEF InLoop
<1>5. Running' = Running /\ Unstopped' = Unstopped  BY <1>3 DEF Running, Unstopped
<1>6. NullsDue' = NullsDue  BY <1>1, <1>5 DEF NullsDue
<1> QED  BY <1>1, <1>2, <1>3, <1>4, <1>5, <1>6, QueueStays

(* Signal releases the workers that wait, and no one else moves.           *)
LEMMA PushWakes ==
  ASSUME TypeOK, DryTellsWork, OwnerKnows, NEW items, Push(items)
  PROVE  /\ worker' \in [Workers -> {"none", "born", "wait", "blocked", "take", "run", "quit"}]
         /\ \A w \in Workers : /\ worker'[w] # "blocked"
                               /\ \/ worker'[w] = worker[w]
                                  \/ worker[w] = "blocked" /\ worker'[w] = "take"
         /\ Running' = Running /\ Unstopped' = Unstopped
         /\ \A w \in Workers : InLoop(w)' <=> InLoop(w)
<1>1. /\ worker' \in [Workers -> {"none", "born", "wait", "blocked", "take", "run", "quit"}]
      /\ \A w \in Workers : /\ worker'[w] # "blocked"
                            /\ \/ worker'[w] = worker[w]
                               \/ worker[w] = "blocked" /\ worker'[w] = "take"
  <2>1. CASE dry_  BY <2>1 DEF Push, TypeOK, DryTellsWork
  <2>2. CASE ~dry_
    <3>1. worker' = [w \in Workers |-> IF worker[w] = "blocked" THEN "take" ELSE worker[w]]
      BY <2>2 DEF Push
    <3> QED  BY <3>1 DEF TypeOK
  <2> QED  BY <2>1, <2>2
<1> QED  BY <1>1 DEF Running, Unstopped, InLoop

LEMMA AddWorkKeeps ==
  ASSUME IInv, NEW n \in Repeats, AddWork(n)
  PROVE  IInv'
<1> USE DEF IInv
<1> DEFINE q == delegates_
           items == [i \in 1 .. n |-> added + i]
           r == q \o items
<1>1. /\ added + n <= MaxWork /\ Push(items) /\ added' = added + n
      /\ UNCHANGED <<owner, next, owed, starts, event_, work, done>>
      /\ delegates_' = r /\ dry_'
  BY DEF AddWork, ownerVars, Push
<1>2. n \in Nat \ {0} /\ added \in Nat /\ MaxWork \in Nat  BY PoolAssumption DEF TypeOK
<1>3. items \in Seq(0 .. MaxWork) /\ Len(items) = n /\ \A i \in 1 .. n : items[i] = added + i
  <2>1. \A i \in 1 .. n : added + i \in 0 .. MaxWork  BY <1>1, <1>2
  <2> QED  BY <1>2, <2>1
<1>4. q \in Seq(0 .. MaxWork)  BY DEF TypeOK
<1> HIDE DEF items
<1>5. /\ r \in Seq(0 .. MaxWork) /\ Len(r) = Len(q) + n /\ Len(q) \in Nat
      /\ \A k \in 1 .. Len(r) :
           IF k <= Len(q) THEN k \in 1 .. Len(q) /\ r[k] = q[k]
           ELSE k - Len(q) \in 1 .. n /\ r[k] = items[k - Len(q)]
      /\ {r[k] : k \in 1 .. Len(r)} = {q[i] : i \in 1 .. Len(q)} \cup {items[i] : i \in 1 .. Len(items)}
  <2>1. items \in Seq(0 .. MaxWork) /\ Len(items) = n  BY <1>3
  <2>2. r \in Seq(0 .. MaxWork) /\ Len(r) = Len(q) + Len(items) /\ Len(q) \in Nat
    BY <1>4, <2>1, QueueAfterPush
  <2>3. \A k \in 1 .. Len(r) :
          IF k <= Len(q) THEN k \in 1 .. Len(q) /\ r[k] = q[k]
          ELSE k - Len(q) \in 1 .. Len(items) /\ r[k] = items[k - Len(q)]
    BY <1>4, <2>1, QueueAfterPush
  <2>4. {r[k] : k \in 1 .. Len(r)} = {q[i] : i \in 1 .. Len(q)} \cup {items[i] : i \in 1 .. Len(items)}
    <3> DEFINE S == 0 .. MaxWork
    <3>1. r = q \o items  OBVIOUS
    <3>2. q \in Seq(S) /\ items \in Seq(S)  BY <1>4, <2>1
    <3> HIDE DEF q, r, S, IInv
    <3>3. \A s : s = q \o items =>
            {s[k] : k \in 1 .. Len(s)} = {q[i] : i \in 1 .. Len(q)} \cup {items[i] : i \in 1 .. Len(items)}
      BY <3>2, QueueAfterPush
    <3> QED  BY <3>1, <3>3
  <2> HIDE DEF r, q
  <2> QED  BY <2>1, <2>2, <2>3, <2>4
<1> HIDE DEF r
<1>6. \A k \in 1 .. Len(r) : ~ (k <= Len(q)) => r[k] = added + (k - Len(q)) /\ k - Len(q) \in 1 .. n
  BY <1>3, <1>5
<1>7. Queued' = Queued \cup added + 1 .. added + n
  <2>1. {items[i] : i \in 1 .. n} = added + 1 .. added + n
    <3>1. ASSUME NEW x \in added + 1 .. added + n PROVE x \in {items[i] : i \in 1 .. n}
      <4>1. x - added \in 1 .. n /\ added + (x - added) = x  BY <1>2
      <4>2. items[x - added] = x  BY <1>3, <4>1
      <4> QED  BY <4>1, <4>2
    <3>2. ASSUME NEW i \in 1 .. n PROVE items[i] \in added + 1 .. added + n  BY <1>2, <1>3
    <3> QED  BY <3>1, <3>2
  <2>2. Queued' = {r[k] : k \in 1 .. Len(r)}  BY <1>1 DEF Queued
  <2>3. Queued = {q[i] : i \in 1 .. Len(q)}  BY DEF Queued
  <2> QED  BY <1>3, <1>5, <2>1, <2>2, <2>3
<1>8. /\ worker' \in [Workers -> {"none", "born", "wait", "blocked", "take", "run", "quit"}]
      /\ \A w \in Workers : /\ worker'[w] # "blocked"
                            /\ \/ worker'[w] = worker[w]
                               \/ worker[w] = "blocked" /\ worker'[w] = "take"
      /\ Running' = Running /\ Unstopped' = Unstopped
      /\ \A w \in Workers : InLoop(w)' <=> InLoop(w)
  BY <1>1, PushWakes
<1>9. TypeOK'
  <2>1. added' \in 0 .. MaxWork  BY <1>1, <1>2
  <2>2. dry_' \in BOOLEAN  BY DEF AddWork, Push
  <2> QED  BY <1>1, <1>5, <1>8, <2>1, <2>2 DEF TypeOK
<1>10. DryTellsWork'
  <2>1. r # <<>>  BY <1>2, <1>5, EmptySeq
  <2> QED  BY <1>1, <1>8, <2>1 DEF DryTellsWork
<1>11. OwnerKnows'  BY <1>1, <1>8, LoopKeepsOwner DEF InLoop
<1>12. \A x \in 1 .. added + n : x \in 1 .. added \/ x \in added + 1 .. added + n  BY <1>2
<1>13. OwedComesFirst'
  <2>1. owed' <= added'  BY <1>1, <1>2 DEF OwedComesFirst, TypeOK
  <2>2. (added + 1 .. added + n) \cap (1 .. owed) = {}  BY <1>2 DEF OwedComesFirst, TypeOK
  <2>3. ASSUME owner = "joining", NEW i \in 1 .. Len(r), NEW j \in 1 .. Len(r),
               r[i] = NULL, r[j] \in 1 .. owed
        PROVE  j < i
    <3>1. r[j] \in Nat /\ owed \in Nat /\ r[j] <= added  BY <1>2, <2>3 DEF OwedComesFirst, TypeOK
    <3>2. j <= Len(q)  BY <1>2, <1>6, <3>1
    <3>3. i <= Len(q)  BY <1>2, <1>6, <2>3 DEF NULL
    <3>4. i \in 1 .. Len(q) /\ j \in 1 .. Len(q) /\ q[i] = NULL /\ q[j] \in 1 .. owed
      BY <1>5, <2>3, <3>2, <3>3
    <3> QED  BY <2>3, <3>4 DEF OwedComesFirst
  <2>4. ASSUME owner = "joining", NEW w \in Workers, worker'[w] \in {"none", "quit"}
        PROVE  Queued' \cap (1 .. owed) = {}
    <3>1. worker[w] \in {"none", "quit"}  BY <1>8, <2>4
    <3> QED  BY <1>7, <2>2, <2>4, <3>1 DEF OwedComesFirst
  <2> QED  BY <1>1, <2>1, <2>3, <2>4 DEF OwedComesFirst
<1>14. NullsLeft' = NullsLeft
  <2>1. \A k \in 1 .. Len(r) : r[k] = NULL => k \in 1 .. Len(q) /\ q[k] = NULL
    <3> SUFFICES ASSUME NEW k \in 1 .. Len(r), r[k] = NULL PROVE k \in 1 .. Len(q) /\ q[k] = NULL
      OBVIOUS
    <3>1. k <= Len(q)  BY <1>2, <1>6 DEF NULL
    <3> QED  BY <1>5, <3>1
  <2>2. \A k \in 1 .. Len(q) : k \in 1 .. Len(r) /\ r[k] = q[k]  BY <1>2, <1>5
  <2>3. NullsLeft' = {k \in 1 .. Len(r) : r[k] = NULL}  BY <1>1 DEF NullsLeft
  <2>4. NullsLeft = {k \in 1 .. Len(q) : q[k] = NULL}  BY DEF NullsLeft
  <2> QED  BY <2>1, <2>2, <2>3, <2>4
<1>15. EachRunsOnce'
  <2>1. \A i \in 1 .. Len(q) : q[i] # NULL => q[i] \in 1 .. added
    BY DEF EachRunsOnce, Queued
  <2>2. ASSUME NEW i \in 1 .. Len(r), NEW j \in 1 .. Len(r), i < j, r[i] # NULL, r[j] # NULL
        PROVE  r[i] < r[j]
    <3>1. CASE j <= Len(q)
      <4>1. i \in 1 .. Len(q) /\ j \in 1 .. Len(q) /\ r[i] = q[i] /\ r[j] = q[j]
        BY <1>5, <2>2, <3>1
      <4> QED  BY <2>2, <4>1 DEF EachRunsOnce
    <3>2. CASE ~ (j <= Len(q)) /\ i <= Len(q)
      <4>1. r[i] \in 1 .. added  BY <1>5, <2>1, <2>2, <3>2
      <4>2. r[j] = added + (j - Len(q)) /\ j - Len(q) \in 1 .. n  BY <1>6, <3>2
      <4> QED  BY <1>2, <4>1, <4>2
    <3>3. CASE ~ (j <= Len(q)) /\ ~ (i <= Len(q))
      <4>1. r[i] = added + (i - Len(q)) /\ r[j] = added + (j - Len(q))  BY <1>6, <3>3
      <4> QED  BY <1>2, <1>5, <2>2, <4>1
    <3> QED  BY <3>1, <3>2, <3>3
  <2>3. {work'[w] : w \in Running'} = {work[w] : w \in Running} /\ done' = done  BY <1>1, <1>8
  <2>4. {work[w] : w \in Running} \subseteq 1 .. added /\ done \subseteq 1 .. added
    BY DEF EachRunsOnce
  <2>5. NULL \notin added + 1 .. added + n  BY <1>2 DEF NULL
  <2>6. (added + 1 .. added + n) \cap (1 .. added) = {}  BY <1>2
  <2>7. 1 .. added' = (Queued' \ {NULL}) \cup {work'[w] : w \in Running'} \cup done'
    <3>1. 1 .. added + n = 1 .. added \cup added + 1 .. added + n  BY <1>2
    <3>2. Queued' \ {NULL} = (Queued \ {NULL}) \cup added + 1 .. added + n  BY <1>7, <2>5
    <3> QED  BY <1>1, <2>3, <3>1, <3>2 DEF EachRunsOnce
  <2>8. \A w \in Running' : work'[w] \notin Queued' \cup done'
    <3> SUFFICES ASSUME NEW w \in Running PROVE work[w] \notin Queued' \cup done
      BY <1>1, <1>8
    <3>1. work[w] \notin Queued \cup done /\ work[w] \in 1 .. added  BY <2>4 DEF EachRunsOnce
    <3> QED  BY <1>7, <2>6, <3>1
  <2>9. \A v, w \in Running' : work'[v] = work'[w] => v = w  BY <1>1, <1>8 DEF EachRunsOnce
  <2>10. Queued' \cap done' = {}  BY <1>7, <2>3, <2>4, <2>6 DEF EachRunsOnce
  <2>11. Cardinality(NullsLeft') =
           IF owner' = "joining" THEN Cardinality({w \in Workers : worker'[w] \notin {"none", "quit"}})
           ELSE 0
    BY <1>1, <1>8, <1>14 DEF EachRunsOnce, Unstopped
  <2> QED  BY <1>1, <2>2, <2>7, <2>8, <2>9, <2>10, <2>11 DEF EachRunsOnce
<1> QED  BY <1>9, <1>10, <1>11, <1>13, <1>15

LEMMA JoinAllKeeps ==
  ASSUME IInv, JoinAll
  PROVE  IInv'
<1> USE DEF IInv
<1> DEFINE q == delegates_
           n == NumThreads
           items == Quits(n)
           r == q \o items
<1>1. /\ owner = "up" /\ owner' = "joining" /\ next' = 1 /\ owed' = added
      /\ Push(items) /\ delegates_' = r /\ dry_'
      /\ UNCHANGED <<starts, event_, work, done, added>>
  BY DEF JoinAll, Push
<1>2. n \in Nat \ {0} /\ added \in Nat  BY PoolAssumption DEF TypeOK
<1>3. items \in Seq(0 .. MaxWork) /\ Len(items) = n /\ \A i \in 1 .. n : items[i] = NULL
  <2>1. NULL \in 0 .. MaxWork  BY PoolAssumption DEF NULL
  <2> QED  BY <1>2, <2>1 DEF Quits
<1>4. q \in Seq(0 .. MaxWork)  BY DEF TypeOK
<1> HIDE DEF items, n
<1>5. /\ r \in Seq(0 .. MaxWork) /\ Len(r) = Len(q) + n /\ Len(q) \in Nat
      /\ \A k \in 1 .. Len(r) :
           IF k <= Len(q) THEN k \in 1 .. Len(q) /\ r[k] = q[k]
           ELSE k - Len(q) \in 1 .. n /\ r[k] = items[k - Len(q)]
      /\ {r[k] : k \in 1 .. Len(r)} = {q[i] : i \in 1 .. Len(q)} \cup {items[i] : i \in 1 .. Len(items)}
  BY <1>3, <1>4, QueueAfterPush, ZenonT(60)
<1> HIDE DEF r
<1>6. NullsLeft = {} /\ NULL \notin Queued /\ \A i \in 1 .. Len(q) : q[i] # NULL
  <2>1. Cardinality(NullsLeft) = 0  BY <1>1 DEF EachRunsOnce
  <2>2. IsFiniteSet(NullsLeft)  BY QueueFacts, IndicesFinite
  <2>3. NullsLeft = {}  BY <2>1, <2>2, FS_EmptySet
  <2> QED  BY <2>3, QueueFacts DEF NullsLeft
<1>7. \A k \in 1 .. Len(r) : r[k] = NULL <=> ~ (k <= Len(q))  BY <1>3, <1>5, <1>6
<1>8. Queued' = Queued \cup {NULL}
  <2>1. {items[i] : i \in 1 .. n} = {NULL}
    <3>1. 1 \in 1 .. n  BY <1>2
    <3> QED  BY <1>3, <3>1
  <2>2. Queued' = {r[k] : k \in 1 .. Len(r)}  BY <1>1 DEF Queued
  <2>3. Queued = {q[i] : i \in 1 .. Len(q)}  BY DEF Queued
  <2> QED  BY <1>3, <1>5, <2>1, <2>2, <2>3
<1>9. /\ worker' \in [Workers -> {"none", "born", "wait", "blocked", "take", "run", "quit"}]
      /\ \A w \in Workers : /\ worker'[w] # "blocked"
                            /\ \/ worker'[w] = worker[w]
                               \/ worker[w] = "blocked" /\ worker'[w] = "take"
      /\ Running' = Running /\ Unstopped' = Unstopped
      /\ \A w \in Workers : InLoop(w)' <=> InLoop(w)
  BY <1>1, PushWakes
<1>10. TypeOK'
  <2>1. 1 \in Workers  BY WorkersFinite DEF Workers
  <2>2. dry_' \in BOOLEAN  BY DEF JoinAll, Push
  <2> QED  BY <1>1, <1>5, <1>9, <2>1, <2>2 DEF TypeOK
<1>11. DryTellsWork'
  <2>1. r # <<>>  BY <1>2, <1>5, EmptySeq
  <2> QED  BY <1>1, <1>9, <2>1 DEF DryTellsWork
<1>12. \A w \in Workers : InLoop(w) /\ InLoop(w)' /\ worker'[w] \notin {"none", "quit"}
  BY <1>1, <1>9 DEF OwnerKnows, InLoop
<1>13. OwnerKnows'
  <2>1. \A w \in Workers : ~ (w < 1)  BY WorkersFinite DEF Workers
  <2> QED  BY <1>1, <1>12, <2>1 DEF OwnerKnows
<1>14. OwedComesFirst'
  <2>1. ASSUME NEW i \in 1 .. Len(r), NEW j \in 1 .. Len(r), r[i] = NULL, r[j] \in 1 .. added
        PROVE  j < i
    <3>1. ~ (i <= Len(q)) /\ r[j] # NULL  BY <1>2, <1>7, <2>1 DEF NULL
    <3>2. j <= Len(q)  BY <1>7, <3>1
    <3> QED  BY <1>5, <3>1, <3>2
  <2> QED  BY <1>1, <1>2, <1>12, <2>1 DEF OwedComesFirst
<1>15. EachRunsOnce'
  <2>1. Cardinality(NullsLeft') = n
    <3>1. NullsLeft' = {k \in 1 .. Len(r) : r[k] = NULL}  BY <1>1 DEF NullsLeft
    <3>2. NullsLeft' = {i + Len(q) : i \in 1 .. n}
      <4>1. ASSUME NEW k \in NullsLeft' PROVE k \in {i + Len(q) : i \in 1 .. n}
        <5>1. k \in 1 .. Len(r) /\ ~ (k <= Len(q))  BY <1>7, <3>1
        <5>2. k - Len(q) \in 1 .. n /\ k = (k - Len(q)) + Len(q)  BY <1>5, <5>1
        <5> QED  BY <5>2
      <4>2. ASSUME NEW i \in 1 .. n PROVE i + Len(q) \in NullsLeft'
        <5>1. i + Len(q) \in 1 .. Len(r) /\ ~ (i + Len(q) <= Len(q))  BY <1>2, <1>5
        <5> QED  BY <1>7, <3>1, <5>1
      <4> QED  BY <4>1, <4>2
    <3> DEFINE S == 1 .. n
    <3>3. S \in SUBSET (1 .. n) /\ n \in Nat /\ Len(q) \in Int /\ Cardinality(S) = n
      BY <1>2, <1>5, IndicesFinite
    <3>4. NullsLeft' = {i + Len(q) : i \in S}  BY <3>2
    <3> HIDE DEF S
    <3>5. Cardinality({i + Len(q) : i \in S}) = Cardinality(S)  BY <3>3, ShiftedCount
    <3> QED  BY <3>3, <3>4, <3>5
  <2>2. {w \in Workers : worker'[w] \notin {"none", "quit"}} = Workers  BY <1>12
  <2>3. Cardinality(NullsLeft') = Cardinality({w \in Workers : worker'[w] \notin {"none", "quit"}})
    BY <2>1, <2>2, WorkersFinite DEF n
  <2>4. ASSUME NEW i \in 1 .. Len(r), NEW j \in 1 .. Len(r), i < j, r[i] # NULL, r[j] # NULL
        PROVE  r[i] < r[j]
    <3>1. i \in 1 .. Len(q) /\ j \in 1 .. Len(q) /\ r[i] = q[i] /\ r[j] = q[j]
      BY <1>5, <1>7, <2>4
    <3> QED  BY <2>4, <3>1 DEF EachRunsOnce
  <2>5. {work'[w] : w \in Running'} = {work[w] : w \in Running} /\ done' = done  BY <1>1, <1>9
  <2>6. \A w \in Running' : work'[w] \notin Queued' \cup done'
    <3> SUFFICES ASSUME NEW w \in Running PROVE work[w] \notin Queued' \cup done
      BY <1>1, <1>9
    <3>1. work[w] \notin Queued \cup done /\ work[w] \in 1 .. added  BY DEF EachRunsOnce
    <3>2. work[w] # NULL  BY <1>2, <3>1 DEF NULL
    <3> QED  BY <1>8, <3>1, <3>2
  <2>7. \A v, w \in Running' : work'[v] = work'[w] => v = w  BY <1>1, <1>9 DEF EachRunsOnce
  <2>8. Queued' \cap done' = {}
    <3>1. NULL \notin done  BY <1>2 DEF EachRunsOnce, NULL
    <3> QED  BY <1>8, <2>5, <3>1 DEF EachRunsOnce
  <2>9. 1 .. added' = (Queued' \ {NULL}) \cup {work'[w] : w \in Running'} \cup done'
    BY <1>1, <1>8, <2>5 DEF EachRunsOnce
  <2> QED  BY <1>1, <2>3, <2>4, <2>6, <2>7, <2>8, <2>9 DEF EachRunsOnce
<1> QED  BY <1>10, <1>11, <1>13, <1>14, <1>15
-----------------------------------------------------------------------------
LEMMA InitIInv == Init => IInv
<1> SUFFICES ASSUME Init PROVE IInv  OBVIOUS
<1> USE DEF Init
<1>1. NumThreads \in Nat \ {0} /\ MaxWork \in Nat /\ MaxStarts \in Nat  BY PoolAssumption
<1>2. \A w \in Workers : worker[w] = "none"  OBVIOUS
<1>3. TypeOK
  <2>1. worker \in [Workers -> {"none", "born", "wait", "blocked", "take", "run", "quit"}]
    OBVIOUS
  <2>2. event_ \in [Workers -> BOOLEAN] /\ dry_ \in BOOLEAN  OBVIOUS
  <2>3. work \in [Workers -> 0 .. MaxWork]  BY <1>1 DEF NULL
  <2>4. delegates_ \in Seq(0 .. MaxWork)  BY EmptySeq
  <2>5. next \in Workers  BY <1>1 DEF Workers
  <2>6. added \in 0 .. MaxWork /\ owed \in 0 .. MaxWork /\ starts \in 0 .. MaxStarts  BY <1>1
  <2>7. owner \in {"idle", "create", "starting", "up", "joining"} /\ done \subseteq 1 .. MaxWork
    OBVIOUS
  <2> HIDE DEF Init
  <2> QED  BY <2>1, <2>2, <2>3, <2>4, <2>5, <2>6, <2>7 DEF TypeOK
<1>4. Queued = {} /\ NullsLeft = {} /\ Running = {} /\ Len(delegates_) = 0
  <2>1. Running = {}  BY <1>2 DEF Running
  <2> QED  BY <2>1 DEF Queued, NullsLeft
<1>5. DryTellsWork  BY DEF DryTellsWork
<1>6. EachRunsOnce
  <2>1. Cardinality(NullsLeft) = 0  BY <1>4, FS_EmptySet
  <2>2. {work[w] : w \in Running} = {} /\ 1 .. added = {}  BY <1>4
  <2> HIDE DEF Init
  <2>3. owner # "joining" /\ done = {} /\ added = 0  BY DEF Init
  <2> QED  BY <1>4, <2>1, <2>2, <2>3 DEF EachRunsOnce
<1>7. OwnerKnows  BY <1>2 DEF OwnerKnows
<1>8. OwedComesFirst  BY DEF OwedComesFirst
<1> QED  BY <1>3, <1>5, <1>6, <1>7, <1>8 DEF IInv

LEMMA NextKeepsIInv == IInv /\ [Next]_vars => IInv'
<1> SUFFICES ASSUME IInv, [Next]_vars PROVE IInv'  OBVIOUS
<1>1. ASSUME NEW w \in Workers, WorkerStep(w) PROVE IInv'
  <2>1. CASE Take(w) /\ dry_  BY <2>1, TakeKeeps
  <2>2. CASE Take(w) /\ ~dry_  BY <2>2, TakeNothingKeeps
  <2> QED  BY <1>1, <2>1, <2>2, ThreadMainKeeps, WaitDryKeeps, RunWorkKeeps DEF WorkerStep
<1>2. CASE OwnerStep
  BY <1>2, CreateThreadKeeps, StartReturnsKeeps, JoinThreadKeeps DEF OwnerStep
<1>3. CASE UNCHANGED vars
  <2>1. /\ UNCHANGED <<delegates_, dry_, owner, next, owed, starts, worker, event_, work, done, added>>
    BY <1>3 DEF vars, poolVars, ownerVars, workerVars
  <2>2. TypeOK' /\ DryTellsWork' /\ OwnerKnows'
    BY <2>1 DEF IInv, TypeOK, DryTellsWork, OwnerKnows, InLoop
  <2>3. Queued' = Queued /\ NullsLeft' = NullsLeft /\ Running' = Running
    BY <2>1 DEF Queued, NullsLeft, Running
  <2>4. EachRunsOnce' /\ OwedComesFirst'
    BY <2>1, <2>3 DEF IInv, EachRunsOnce, OwedComesFirst
  <2> QED  BY <2>2, <2>4 DEF IInv
<1> QED  BY <1>1, <1>2, <1>3, StartKeeps, JoinAllKeeps, AddWorkKeeps DEF Next

(* What the last Join finds: every worker has taken its NULL, hence all of *)
(* what was queued before the NULLs is out of the queue, and not running.  *)
LEMMA LastJoin ==
  ASSUME IInv, [Next]_vars, owner = "joining", owner' = "idle"
  PROVE  /\ 1 .. owed \subseteq done'
         /\ \A w \in Workers : worker'[w] = "none"
         /\ added = owed => delegates_' = <<>> /\ ~dry_'
<1> USE DEF IInv
<1>1. JoinThread
  <2>1. owner' # owner  OBVIOUS
  <2> QED
    BY <2>1 DEF Next, vars, ownerVars, Start, JoinAll, OwnerStep, CreateThread, StartReturns, AddWork,
                WorkerStep, ThreadMain, WaitDry, Take, RunWork
<1>2. /\ worker[next] = "quit" /\ ~ (next < NumThreads) /\ done' = done
      /\ worker' = [worker EXCEPT ![next] = "none"]
      /\ delegates_' = delegates_ /\ dry_' = dry_
  BY <1>1 DEF JoinThread, Goto, poolVars
<1>3. /\ next \in Workers /\ NullsLeft = {} /\ Running = {}
      /\ \A w \in Workers \ {next} : worker[w] = "none"
  BY <1>2, JoiningFacts
<1>4. NULL \notin Queued  BY <1>3 DEF NullsLeft, Queued
<1>5. Queued \cap (1 .. owed) = {} /\ owed <= added /\ owed \in Nat /\ added \in Nat
  BY <1>2, <1>3, PoolAssumption DEF OwedComesFirst, TypeOK
<1>6. 1 .. added = Queued \cup done
  BY <1>3, <1>4 DEF EachRunsOnce
<1>7. 1 .. owed \subseteq done
  <2>1. 1 .. owed \subseteq 1 .. added  BY <1>5
  <2> QED  BY <1>5, <1>6, <2>1
<1>8. \A w \in Workers : worker'[w] = "none"  BY <1>2, <1>3 DEF TypeOK
<1>9. ASSUME added = owed PROVE delegates_ = <<>> /\ ~dry_
  <2>1. Queued = {}  BY <1>5, <1>6, <1>9
  <2>2. Len(delegates_) \in Nat /\ delegates_ \in Seq(0 .. MaxWork)  BY QueueFacts DEF TypeOK
  <2>3. Len(delegates_) = 0
    <3>1. 1 \notin 1 .. Len(delegates_)  BY <2>1 DEF Queued
    <3> QED  BY <2>2, <3>1
  <2>4. delegates_ = <<>>  BY <2>2, <2>3, EmptySeq
  <2> QED  BY <2>4 DEF DryTellsWork
<1> QED  BY <1>2, <1>7, <1>8, <1>9
-----------------------------------------------------------------------------
(* A behaviour of one pool or of the other takes the steps of that pool,   *)
(* and leaves the other alone.                                             *)
LEMMA EitherPool ==
  /\ EachInit => Init /\ Posting!Init
  /\ [EachNext]_<<subject, vars, posting>> => [Next]_vars /\ [Posting!Next]_posting
  BY DEF EachInit, EachNext, Pool, DynamicPool

(* The inductive invariant of AddWork, Start, JoinAll and the worker loop. *)
THEOREM Invariance == EachSpec => []IInv
<1>1. EachInit => IInv  BY EitherPool, InitIInv
<1>2. IInv /\ [EachNext]_<<subject, vars, posting>> => IInv'  BY EitherPool, NextKeepsIInv
<1> QED  BY <1>1, <1>2, PTL DEF EachSpec

(* JoinAll returns only when the workers have stopped and every delegate   *)
(* queued before it has run: the queue and dry_ are as the destructor      *)
(* asserts unless work was added meanwhile.                                *)
THEOREM JoiningFinishes == EachSpec => JoinAllFinishes
<1>1. IInv /\ [EachNext]_<<subject, vars, posting>> =>
        [owner = "joining" /\ owner' = "idle" =>
           /\ 1 .. owed \subseteq done'
           /\ \A w \in Workers : worker'[w] = "none"
           /\ added = owed => delegates_' = <<>> /\ ~dry_']_vars
  BY EitherPool, LastJoin
<1> QED  BY <1>1, Invariance, PTL DEF EachSpec, JoinAllFinishes
-----------------------------------------------------------------------------
(* What the two instances of WorkerPool call the same is the same.         *)
LEMMA SamePool ==
  /\ Pooled!WorkerPoolAssumption
  /\ Pooled!Init <=> Posting!Init
  /\ [Posting!Next]_posting => [Pooled!Next]_(Pooled!vars)
  /\ Pooled!TypeOK <=> Posting!TypeOK
  /\ Pooled!EachTaskRunsOnce <=> Posting!EachTaskRunsOnce
  /\ Pooled!TasksHaveThreads <=> Posting!TasksHaveThreads
<1>1. Pooled!WorkerPoolAssumption
  BY PostingAssumption DEF Pooled!WorkerPoolAssumption, Posting!WorkerPoolAssumption
<1>2. \A S : Pooled!Cardinality(S) = Posting!Cardinality(S)
  BY Zenon DEF Pooled!Cardinality, Posting!Cardinality, Pooled!IsFiniteSet, Posting!IsFiniteSet
<1>3. Pooled!Tasks = Posting!Tasks  BY DEF Pooled!Tasks, Posting!Tasks
<1>4. /\ Pooled!At("running") = Posting!At("running")
      /\ Pooled!At("asleep") = Posting!At("asleep")
      /\ Pooled!At("woken") = Posting!At("woken")
      /\ Pooled!At("waiting") = Posting!At("waiting")
      /\ Pooled!At("failed") = Posting!At("failed")
  BY <1>3, Zenon DEF Pooled!At, Posting!At
<1>5. Pooled!Init <=> Posting!Init
  BY <1>3, Zenon DEF Pooled!Init, Posting!Init
<1>6. Pooled!TypeOK <=> Posting!TypeOK
  BY <1>3, Zenon DEF Pooled!TypeOK, Posting!TypeOK
<1>7. Pooled!Queued = Posting!Queued /\ Pooled!Running = Posting!Running
  BY <1>4, Zenon DEF Pooled!Queued, Posting!Queued, Pooled!Running, Posting!Running
<1>8. Pooled!EachTaskRunsOnce <=> Posting!EachTaskRunsOnce
  <2>1. /\ Pooled!Cardinality(Pooled!Running) = Posting!Cardinality(Posting!Running)
        /\ Pooled!Cardinality(Pooled!At("running")) = Posting!Cardinality(Posting!At("running"))
    BY <1>2, <1>4, <1>7
  <2> QED  BY <1>7, <2>1, Zenon DEF Pooled!EachTaskRunsOnce, Posting!EachTaskRunsOnce
<1>9. Pooled!TasksHaveThreads <=> Posting!TasksHaveThreads
  <2> DEFINE A == Posting!At("asleep") \cup Posting!At("woken")
             B == Posting!At("waiting") \cup Posting!At("woken") \cup Posting!At("failed")
  <2>1. Pooled!Cardinality(A) = Posting!Cardinality(A) /\ Pooled!Cardinality(B) = Posting!Cardinality(B)
    BY <1>2
  <2>2. A = Pooled!At("asleep") \cup Pooled!At("woken")
    BY <1>4
  <2>3. B = Pooled!At("waiting") \cup Pooled!At("woken") \cup Pooled!At("failed")
    BY <1>4
  <2> QED  BY <2>1, <2>2, <2>3, Zenon DEF Pooled!TasksHaveThreads, Posting!TasksHaveThreads
<1>10. [Posting!Next]_posting => [Pooled!Next]_(Pooled!vars)
  <2>1. Posting!Next => Pooled!Next
    BY <1>2, <1>3, <1>4, Zenon DEF Pooled!Next, Posting!Next, Pooled!AddTask, Posting!AddTask, Pooled!Terminate,
          Posting!Terminate, Pooled!WakeAll, Posting!WakeAll, Pooled!Step, Posting!Step,
          Pooled!TimeOut, Posting!TimeOut, Pooled!Signal, Posting!Signal, Pooled!CreateNonJoinable,
          Posting!CreateNonJoinable, Pooled!Take, Posting!Take, Pooled!WaitForTask,
          Posting!WaitForTask, Pooled!StopWaiting, Posting!StopWaiting, Pooled!RunTask,
          Posting!RunTask, Pooled!Goto, Posting!Goto
  <2>2. UNCHANGED posting => UNCHANGED Pooled!vars  BY DEF posting, Pooled!vars
  <2> QED  BY <2>1, <2>2
<1> QED  BY <1>1, <1>5, <1>6, <1>8, <1>9, <1>10

LEMMA DynamicPoolSpec == EachSpec => Pooled!Spec
  BY EitherPool, SamePool, PTL DEF EachSpec, Pooled!Spec

(* Both pools keep their types.                                            *)
THEOREM TypeCorrect == EachSpec => []TypesOK
<1>1. IInv => TypeOK  BY DEF IInv
<1>2. Pooled!Spec => []Pooled!IInv  BY SamePool, Pooled!Invariance
<1>3. Pooled!IInv => Posting!TypeOK  BY SamePool DEF Pooled!IInv
<1> QED  BY <1>1, <1>2, <1>3, DynamicPoolSpec, Invariance, PTL DEF TypesOK

(* AddWork and PostTask lose nothing, and no two threads run one work.     *)
THEOREM EachWorkRunsOnce == EachSpec => []WorkRunsOnce
<1>1. IInv => EachRunsOnce  BY DEF IInv
<1>2. Pooled!Spec => []Pooled!EachTaskRunsOnce  BY SamePool, Pooled!TasksRunOnce
<1> QED  BY <1>1, <1>2, SamePool, DynamicPoolSpec, Invariance, PTL DEF WorkRunsOnce

(* While there is work no worker sleeps on dry_, and enough threads of the *)
(* other pool are about to look at the queue.                              *)
THEOREM WorkIsNotSleptOn == EachSpec => []NobodySleepsOnWork
<1>1. IInv => DryTellsWork  BY DEF IInv
<1>2. Pooled!Spec => []Pooled!TasksHaveThreads  BY SamePool, Pooled!ThreadsForTasks
<1> QED  BY <1>1, <1>2, SamePool, DynamicPoolSpec, Invariance, PTL DEF NobodySleepsOnWork
=============================================================================

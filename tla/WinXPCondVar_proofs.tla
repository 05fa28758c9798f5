------------------------- MODULE WinXPCondVar_proofs -------------------------
(* Proofs about WinXPCondVar, for any threads and bounds: no event is lost *)
(* or shared, no waiter is out of reach, and a wait returns without having *)
(* been picked only after a timeout has raced with a pick.                 *)
EXTENDS WinXPCondVar, SequenceTheorems, FiniteSetTheorems, TLAPS

(* What the operations of class Event do to a circular list: the events it *)
(* holds, and that it holds each of them once.                             *)
LEMMA ListTyped ==
  ASSUME NEW S, NEW q \in Seq(S)
  PROVE  /\ Len(q) \in Nat /\ DOMAIN q = 1 .. Len(q)
         /\ Elements(q) \subseteq S
         /\ \A i \in 1 .. Len(q) : q[i] \in Elements(q)
         /\ q = <<>> <=> Len(q) = 0
         /\ q = <<>> <=> Elements(q) = {}
         /\ IsInjective(q) <=> \A i, j \in 1 .. Len(q) : q[i] = q[j] => i = j
<1>1. Len(q) \in Nat /\ DOMAIN q = 1 .. Len(q) /\ (q = <<>> <=> Len(q) = 0)
  BY LenProperties, EmptySeq
<1>2. \A i \in 1 .. Len(q) : q[i] \in S  BY ElementOfSeq
<1>3. Elements(q) \subseteq S /\ \A i \in 1 .. Len(q) : q[i] \in Elements(q)  BY <1>2 DEF Elements
<1>4. q = <<>> <=> Elements(q) = {}
  <2>1. CASE q = <<>>
    <3>1. 1 .. Len(q) = {}  BY <1>1, <2>1
    <3> QED  BY <2>1, <3>1 DEF Elements
  <2>2. CASE q # <<>>
    <3>1. 1 \in 1 .. Len(q)  BY <1>1, <2>2
    <3> QED  BY <2>2, <3>1 DEF Elements
  <2> QED  BY <2>1, <2>2
<1>5. IsInjective(q) <=> \A i, j \in 1 .. Len(q) : q[i] = q[j] => i = j  BY <1>1 DEF IsInjective
<1> QED  BY <1>1, <1>3, <1>4, <1>5

LEMMA PushBackElements ==
  ASSUME NEW S, NEW q \in Seq(S), NEW x \in S
  PROVE  /\ Append(q, x) \in Seq(S) /\ Len(Append(q, x)) = Len(q) + 1
         /\ Elements(Append(q, x)) = Elements(q) \cup {x}
         /\ IsInjective(q) /\ x \notin Elements(q) => IsInjective(Append(q, x))
<1> DEFINE r == Append(q, x)
<1>1. /\ r \in Seq(S) /\ Len(r) = Len(q) + 1 /\ r[Len(q) + 1] = x /\ Len(q) \in Nat
      /\ \A i \in 1 .. Len(q) : r[i] = q[i]
  BY AppendProperties, LenProperties
<1> HIDE DEF r
<1>2. Elements(r) = Elements(q) \cup {x}
  <2>1. \A i \in 1 .. Len(r) : r[i] \in Elements(q) \cup {x}  BY <1>1 DEF Elements
  <2>2. \A i \in 1 .. Len(q) : q[i] \in Elements(r)
    <3> SUFFICES ASSUME NEW i \in 1 .. Len(q) PROVE q[i] \in Elements(r)  OBVIOUS
    <3>1. i \in 1 .. Len(r) /\ r[i] = q[i]  BY <1>1
    <3> QED  BY <3>1 DEF Elements
  <2>3. x \in Elements(r)
    <3>1. Len(q) + 1 \in 1 .. Len(r)  BY <1>1
    <3> QED  BY <1>1, <3>1 DEF Elements
  <2> QED  BY <2>1, <2>2, <2>3 DEF Elements
<1>3. ASSUME IsInjective(q), x \notin Elements(q) PROVE IsInjective(r)
  <2>1. \A i, j \in 1 .. Len(q) : q[i] = q[j] => i = j  BY <1>3, ListTyped
  <2>2. \A i \in 1 .. Len(q) : q[i] # x  BY <1>3 DEF Elements
  <2>3. \A i, j \in 1 .. Len(r) : r[i] = r[j] => i = j  BY <1>1, <2>1, <2>2
  <2> QED  BY <1>1, <2>3, ListTyped
<1> QED  BY <1>1, <1>2, <1>3 DEF r

LEMMA PopFrontElements ==
  ASSUME NEW S, NEW q \in Seq(S), q # <<>>
  PROVE  /\ Tail(q) \in Seq(S) /\ Len(Tail(q)) = Len(q) - 1 /\ Head(q) \in S
         /\ Elements(q) = Elements(Tail(q)) \cup {Head(q)}
         /\ IsInjective(q) => IsInjective(Tail(q)) /\ Head(q) \notin Elements(Tail(q))
<1> DEFINE r == Tail(q)
<1>1. /\ r \in Seq(S) /\ Len(r) = Len(q) - 1 /\ Len(q) \in Nat \ {0}
      /\ Head(q) \in S /\ Head(q) = q[1]
      /\ \A i \in 1 .. Len(r) : r[i] = q[i + 1]
  BY HeadTailProperties, EmptySeq DEF Head
<1> DEFINE h == Head(q)
<1> HIDE DEF r, h
<1>2. Elements(q) = Elements(r) \cup {h}
  <2>1. \A i \in 1 .. Len(q) : q[i] \in Elements(r) \cup {h}
    <3> SUFFICES ASSUME NEW i \in 1 .. Len(q), i # 1 PROVE q[i] \in Elements(r)
      BY <1>1 DEF h
    <3>1. i - 1 \in 1 .. Len(r) /\ r[i - 1] = q[i]  BY <1>1
    <3> QED  BY <3>1 DEF Elements
  <2>2. \A i \in 1 .. Len(r) : r[i] \in Elements(q)
    <3> SUFFICES ASSUME NEW i \in 1 .. Len(r) PROVE r[i] \in Elements(q)  OBVIOUS
    <3>1. i + 1 \in 1 .. Len(q) /\ r[i] = q[i + 1]  BY <1>1
    <3> QED  BY <3>1 DEF Elements
  <2>3. h \in Elements(q)
    <3>1. 1 \in 1 .. Len(q)  BY <1>1
    <3> QED  BY <1>1, <3>1 DEF Elements, h
  <2> QED  BY <2>1, <2>2, <2>3 DEF Elements
<1>3. ASSUME IsInjective(q) PROVE IsInjective(r) /\ h \notin Elements(r)
  <2>1. \A i, j \in 1 .. Len(q) : q[i] = q[j] => i = j  BY <1>3, ListTyped
  <2>2. \A i, j \in 1 .. Len(r) : r[i] = r[j] => i = j
    <3> SUFFICES ASSUME NEW i \in 1 .. Len(r), NEW j \in 1 .. Len(r), r[i] = r[j] PROVE i = j
      OBVIOUS
    <3>1. i + 1 \in 1 .. Len(q) /\ j + 1 \in 1 .. Len(q) /\ q[i + 1] = q[j + 1]  BY <1>1
    <3>2. i + 1 = j + 1  BY <2>1, <3>1
    <3> QED  BY <3>2
  <2>3. \A i \in 1 .. Len(r) : r[i] # h
    <3> SUFFICES ASSUME NEW i \in 1 .. Len(r), r[i] = h PROVE FALSE  OBVIOUS
    <3>1. i + 1 \in 1 .. Len(q) /\ 1 \in 1 .. Len(q) /\ q[i + 1] = q[1]  BY <1>1 DEF h
    <3>2. i + 1 = 1  BY <2>1, <3>1
    <3> QED  BY <3>2
  <2> QED  BY <1>1, <2>2, <2>3, ListTyped DEF Elements
<1> QED  BY <1>1, <1>2, <1>3 DEF r, h

LEMMA PopBackElements ==
  ASSUME NEW S, NEW q \in Seq(S), q # <<>>
  PROVE  /\ Front(q) \in Seq(S) /\ Last(q) \in S
         /\ Elements(q) = Elements(Front(q)) \cup {Last(q)}
         /\ IsInjective(q) => IsInjective(Front(q)) /\ Last(q) \notin Elements(Front(q))
<1> DEFINE r == Front(q)
           h == Last(q)
<1>1. /\ r \in Seq(S) /\ Len(r) = Len(q) - 1 /\ Len(q) \in Nat \ {0}
      /\ \A i \in 1 .. Len(r) : r[i] = q[i]
  <2>1. Len(q) \in Nat \ {0} /\ \A i \in 1 .. Len(q) : q[i] \in S  BY EmptySeq, ElementOfSeq
  <2>2. r = SubSeq(q, 1, Len(q) - 1)  BY DEF Front
  <2> HIDE DEF r
  <2>3. r \in Seq(S) /\ Len(r) = Len(q) - 1 /\ \A i \in 1 .. Len(q) - 1 : r[i] = q[i]
    <3> DEFINE n == Len(q) - 1
    <3>1. n \in Nat /\ Len(q) = n + 1  BY <2>1
    <3> HIDE DEF n
    <3>2. SubSeq(q, 1, n) \in Seq(S) /\ Len(SubSeq(q, 1, n)) = n
          /\ \A i \in 1 .. n : SubSeq(q, 1, n)[i] = q[i]
      BY <2>1, <3>1
    <3> QED  BY <2>2, <3>2 DEF n
  <2> QED  BY <2>1, <2>3
<1>2. h = q[Len(q)] /\ h \in S  BY <1>1, ElementOfSeq DEF Last
<1> HIDE DEF r, h
<1>3. Elements(q) = Elements(r) \cup {h}
  <2>1. \A i \in 1 .. Len(q) : q[i] \in Elements(r) \cup {h}
    <3> SUFFICES ASSUME NEW i \in 1 .. Len(q), i # Len(q) PROVE q[i] \in Elements(r)
      BY <1>2
    <3>1. i \in 1 .. Len(r) /\ r[i] = q[i]  BY <1>1
    <3> QED  BY <3>1 DEF Elements
  <2>2. \A i \in 1 .. Len(r) : r[i] \in Elements(q)
    <3> SUFFICES ASSUME NEW i \in 1 .. Len(r) PROVE r[i] \in Elements(q)  OBVIOUS
    <3>1. i \in 1 .. Len(q) /\ r[i] = q[i]  BY <1>1
    <3> QED  BY <3>1 DEF Elements
  <2>3. h \in Elements(q)
    <3>1. Len(q) \in 1 .. Len(q)  BY <1>1
    <3> QED  BY <1>2, <3>1 DEF Elements
  <2> QED  BY <2>1, <2>2, <2>3 DEF Elements
<1>4. ASSUME IsInjective(q) PROVE IsInjective(r) /\ h \notin Elements(r)
  <2>1. \A i, j \in 1 .. Len(q) : q[i] = q[j] => i = j  BY <1>4, ListTyped
  <2>2. \A i, j \in 1 .. Len(r) : r[i] = r[j] => i = j  BY <1>1, <2>1
  <2>3. \A i \in 1 .. Len(r) : r[i] # h  BY <1>1, <1>2, <2>1
  <2> QED  BY <1>1, <2>2, <2>3, ListTyped DEF Elements
<1> QED  BY <1>1, <1>2, <1>3, <1>4 DEF r, h

LEMMA ExtractElements ==
  ASSUME NEW S, NEW q \in Seq(S), NEW e, IsInjective(q)
  PROVE  /\ Extract(q, e) \in Seq(S) /\ IsInjective(Extract(q, e))
         /\ Elements(Extract(q, e)) = Elements(q) \ {e}
         /\ e \notin Elements(q) => Extract(q, e) = q
<1>1. CASE e \notin Elements(q)  BY <1>1 DEF Extract
<1>2. CASE e \in Elements(q)
  <2> DEFINE k == CHOOSE i \in 1 .. Len(q) : q[i] = e
             a == SubSeq(q, 1, k - 1)
             b == SubSeq(q, k + 1, Len(q))
             r == Extract(q, e)
  <2>1. k \in 1 .. Len(q) /\ q[k] = e /\ Len(q) \in Nat  BY <1>2, ListTyped DEF Elements
  <2>2. r = a \o b  BY <1>2 DEF Extract, RemoveAt
  <2> HIDE DEF k
  <2>3. \A i \in 1 .. Len(q) : q[i] \in S  BY ElementOfSeq
  <2>4. a \in Seq(S) /\ Len(a) = k - 1 /\ \A i \in 1 .. k - 1 : a[i] = q[i]  BY <2>1
  <2>5. b \in Seq(S) /\ Len(b) = Len(q) - k /\ \A i \in 1 .. Len(q) - k : b[i] = q[k + i]
    BY <2>1
  <2> HIDE DEF a, b, r
  <2>6. /\ r \in Seq(S) /\ Len(r) = Len(a) + Len(b)
        /\ \A i \in 1 .. Len(a) + Len(b) : r[i] = IF i <= Len(a) THEN a[i] ELSE b[i - Len(a)]
    <3>1. /\ a \o b \in Seq(S) /\ Len(a \o b) = Len(a) + Len(b)
          /\ \A i \in 1 .. Len(a) + Len(b) :
               (a \o b)[i] = IF i <= Len(a) THEN a[i] ELSE b[i - Len(a)]
      BY <2>4, <2>5, ConcatProperties, Zenon
    <3> QED  BY <2>2, <3>1
  <2>7. Len(r) = Len(q) - 1  BY <2>1, <2>4, <2>5, <2>6
  <2>8. ASSUME NEW i \in 1 .. Len(r) PROVE r[i] = q[IF i < k THEN i ELSE i + 1]
    <3>1. CASE i < k  BY <2>1, <2>4, <2>6, <2>7, <3>1
    <3>2. CASE ~ (i < k)
      <4>1. r[i] = b[i - (k - 1)]  BY <2>1, <2>4, <2>5, <2>6, <2>7, <3>2
      <4>2. i - (k - 1) \in 1 .. Len(q) - k /\ k + (i - (k - 1)) = i + 1  BY <2>1, <2>7, <3>2
      <4> QED  BY <2>5, <3>2, <4>1, <4>2
    <3> QED  BY <3>1, <3>2
  <2>9. \A i, j \in 1 .. Len(q) : q[i] = q[j] => i = j  BY ListTyped
  <2>10. IsInjective(r)
    <3>1. ASSUME NEW i \in 1 .. Len(r), NEW j \in 1 .. Len(r), r[i] = r[j] PROVE i = j
      <4> DEFINE m == IF i < k THEN i ELSE i + 1
                 n == IF j < k THEN j ELSE j + 1
      <4>1. m \in 1 .. Len(q) /\ n \in 1 .. Len(q)  BY <2>1, <2>7
      <4>2. q[m] = q[n]  BY <2>8, <3>1
      <4>3. m = n  BY <2>9, <4>1, <4>2
      <4> QED  BY <2>1, <2>7, <4>3
    <3> QED  BY <2>6, <3>1, ListTyped
  <2>11. Elements(r) = Elements(q) \ {e}
    <3>1. ASSUME NEW i \in 1 .. Len(r) PROVE r[i] \in Elements(q) \ {e}
      <4> DEFINE m == IF i < k THEN i ELSE i + 1
      <4>1. m \in 1 .. Len(q) /\ m # k  BY <2>1, <2>7
      <4>2. q[m] \in Elements(q) /\ q[m] # e  BY <2>1, <2>9, <4>1 DEF Elements
      <4> QED  BY <2>8, <4>2
    <3>2. ASSUME NEW j \in 1 .. Len(q), q[j] # e PROVE q[j] \in Elements(r)
      <4> DEFINE i == IF j < k THEN j ELSE j - 1
      <4>1. j # k  BY <2>1, <3>2
      <4>2. i \in 1 .. Len(r) /\ (IF i < k THEN i ELSE i + 1) = j  BY <2>1, <2>7, <4>1
      <4>3. r[i] = q[j]  BY <2>8, <4>2
      <4> QED  BY <4>2, <4>3 DEF Elements
    <3> QED  BY <3>1, <3>2 DEF Elements
  <2> QED  BY <1>2, <2>6, <2>10, <2>11 DEF r
<1> QED  BY <1>1, <1>2
-----------------------------------------------------------------------------
(* A step that moves no event: the lists, the events set and picked, and   *)
(* who owns which stay; no thread begins to wait, or is woken by an event. *)
LEMMA AsideKeeps ==
  ASSUME IInv, Types', UNCHANGED <<listVars, set, waiting_event, handles, raced>>,
         waits' \in {waits, waits + 1},
         \A x \in Threads :
           /\ pc'[x] \in {"unlock", "waiting", "woken"} <=> pc[x] \in {"unlock", "waiting", "woken"}
           /\ pc'[x] \in {"unlock", "waiting"} => pc[x] \in {"unlock", "waiting"}
           /\ pc'[x] \in {"setting", "lastSetting"} <=> pc[x] \in {"setting", "lastSetting"}
           /\ pc'[x] = "woken" /\ reason'[x] = "event" => pc[x] = "woken" /\ reason[x] = "event"
  PROVE  IInv'
<1> USE DEF IInv, listVars
<1>1. InCall' = InCall  BY DEF InCall
<1>2. allocation_counter_' <= waits'  BY DEF Types
<1>3. EventsAccounted'  BY <1>1 DEF EventsAccounted
<1>4. WaiterIsReachable'  BY DEF WaiterIsReachable
<1>5. ListsDistinct'  BY DEF ListsDistinct
<1>6. HandlesMatch'  BY DEF HandlesMatch
<1>7. ~raced' => PickedOnce'  BY <1>1 DEF PickedOnce, Picked
<1> QED  BY <1>2, <1>3, <1>4, <1>5, <1>6, <1>7

LEMMA UserLockKeeps ==
  ASSUME IInv, NEW t \in Threads, AcquireUserLock(t) \/ ReleaseUserLock(t)
  PROVE  IInv'
<1> USE DEF AcquireUserLock, ReleaseUserLock, localVars
<1>1. Types'  BY DEF IInv, Types, listVars
<1> QED  BY <1>1, AsideKeeps

LEMMA ReacquireKeeps ==
  ASSUME IInv, NEW t \in Threads, Reacquire(t)
  PROVE  IInv'
<1> USE DEF Reacquire, Goto
<1>1. Types'  BY DEF IInv, Types, listVars, Labels
<1>2. \A x \in Threads : pc'[x] = IF x = t THEN "ready" ELSE pc[x]  BY DEF IInv, Types
<1> QED  BY <1>1, <1>2, AsideKeeps

LEMMA ReleaseAndWaitKeeps ==
  ASSUME IInv, NEW t \in Threads, ReleaseAndWait(t)
  PROVE  IInv'
<1> USE DEF ReleaseAndWait, Goto
<1>1. Types'  BY DEF IInv, Types, listVars, Labels
<1>2. \A x \in Threads : pc'[x] = IF x = t THEN "waiting" ELSE pc[x]  BY DEF IInv, Types
<1> QED  BY <1>1, <1>2, AsideKeeps

LEMMA TimeOutKeeps ==
  ASSUME IInv, NEW t \in Threads, TimeOut(t)
  PROVE  IInv'
<1> USE DEF TimeOut, Goto
<1>1. Types'  BY DEF IInv, Types, listVars, Labels
<1>2. \A x \in Threads : IF x = t THEN pc'[x] = "woken" /\ reason'[x] = "timeout"
                                    ELSE pc'[x] = pc[x] /\ reason'[x] = reason[x]
  BY DEF IInv, Types
<1> QED  BY <1>1, <1>2, AsideKeeps

LEMMA ShutdownKeeps ==
  ASSUME IInv, NEW t \in Threads, Shutdown(t)
  PROVE  IInv'
<1> USE DEF Shutdown, Goto
<1>1. Types'  BY DEF IInv, Types, listVars, Labels
<1>2. \A x \in Threads : IF x = t THEN pc'[x] \in {"destroyed", "closing"} ELSE pc'[x] = pc[x]
  BY DEF IInv, Types
<1> QED  BY <1>1, <1>2, AsideKeeps

LEMMA DestroyKeeps ==
  ASSUME IInv, NEW t \in Threads, Destroy(t)
  PROVE  IInv'
<1> USE DEF Destroy, Goto
<1>1. Types'  BY DEF IInv, Types, listVars, Labels
<1>2. \A x \in Threads : pc'[x] = IF x = t THEN "destroyed" ELSE pc[x]  BY DEF IInv, Types
<1> QED  BY <1>1, <1>2, AsideKeeps
-----------------------------------------------------------------------------
(* What the invariant says of the lists.                                   *)
LEMMA ListsTyped ==
  ASSUME Types
  PROVE  /\ Elements(waiting_list_) \subseteq Events
         /\ Elements(recycling_list_) \subseteq Events
         /\ \A t \in Threads : handles[t] \in Seq(Events) /\ Elements(handles[t]) \subseteq Events
BY ListTyped DEF Types

(* Some events leave waiting_list_ for handles[t].                         *)
LEMMA PickKeeps ==
  ASSUME IInv, Types', NEW t \in Threads, NEW h \in Seq(Events), h # <<>>, IsInjective(h),
         pc[t] \in {"ready", "closing"}, pc'[t] \in {"setting", "lastSetting"},
         \A x \in Threads \ {t} : pc'[x] = pc[x],
         handles' = [handles EXCEPT ![t] = h],
         Elements(waiting_list_) = Elements(waiting_list_') \cup Elements(h),
         Elements(waiting_list_') \cap Elements(h) = {},
         IsInjective(waiting_list_'),
         UNCHANGED <<recycling_list_, recycling_list_size_, allocation_counter_,
                     set, waiting_event, reason, raced, waits>>
  PROVE  IInv'
<1> USE DEF IInv
<1>1. InCall' = InCall /\ t \notin InCall
  <2>1. \A x \in Threads : pc'[x] \in {"unlock", "waiting", "woken"}
                           <=> pc[x] \in {"unlock", "waiting", "woken"}
    OBVIOUS
  <2> QED  BY <2>1 DEF InCall
<1>2. handles[t] = <<>>  BY DEF HandlesMatch
<1>3. Elements(handles[t]) = {}  BY <1>2, ListTyped, ListsTyped
<1>4. \A x \in Threads : handles'[x] = IF x = t THEN h ELSE handles[x]  BY DEF Types
<1>5. Picked' = Picked \cup Elements(h)
  <2>1. \A x \in Threads : Elements(handles'[x]) = IF x = t THEN Elements(h) ELSE Elements(handles[x])
    BY <1>4
  <2> QED  BY <1>3, <2>1 DEF Picked
<1>6. EventsAccounted'
  <2>1. Elements(waiting_list_') \subseteq Elements(waiting_list_)  OBVIOUS
  <2> QED  BY <1>1, <2>1 DEF EventsAccounted
<1>7. WaiterIsReachable'
  <2> SUFFICES ASSUME NEW x \in Threads, pc'[x] \in {"unlock", "waiting"}
               PROVE  \/ waiting_event[x] \in Elements(waiting_list_') \cup set
                      \/ \E s \in Threads : waiting_event[x] \in Elements(handles'[s])
    BY DEF WaiterIsReachable
  <2>1. x # t /\ pc[x] \in {"unlock", "waiting"}  OBVIOUS
  <2>2. CASE waiting_event[x] \in Elements(waiting_list_) \cup set
    BY <1>4, <2>2
  <2>3. CASE \E s \in Threads : waiting_event[x] \in Elements(handles[s])
    <3>1. PICK s \in Threads : waiting_event[x] \in Elements(handles[s])  BY <2>3
    <3>2. s # t  BY <1>3, <3>1
    <3> QED  BY <1>4, <3>1, <3>2
  <2> QED  BY <2>1, <2>2, <2>3 DEF WaiterIsReachable
<1>8. ListsDistinct'  BY DEF ListsDistinct
<1>9. HandlesMatch'
  <2>1. \A x \in Threads \ {t} : handles'[x] = handles[x] /\ pc'[x] = pc[x]  BY <1>4
  <2> QED  BY <1>4, <2>1 DEF HandlesMatch
<1>10. ASSUME ~raced PROVE PickedOnce'
  <2> USE <1>10 DEF PickedOnce
  <2>1. \A e \in Picked' : e \notin Elements(waiting_list_') /\ \E x \in InCall : waiting_event[x] = e
    <3>1. \A e \in Elements(h) : \E x \in InCall : waiting_event[x] = e  BY DEF EventsAccounted
    <3> QED  BY <1>5, <3>1
  <2>2. Elements(h) \cap Picked = {}  OBVIOUS
  <2>3. set \subseteq Picked /\ \A x \in Threads : Elements(handles[x]) \subseteq Picked  BY DEF Picked
  <2>4. ASSUME NEW x \in Threads
        PROVE  /\ IsInjective(handles'[x])
               /\ Elements(handles'[x]) \cap set = {}
               /\ \A y \in Threads \ {x} : Elements(handles'[y]) \cap Elements(handles'[x]) = {}
               /\ pc'[x] = "woken" /\ reason[x] = "event" =>
                    waiting_event[x] \notin Picked' \cup Elements(waiting_list_')
    <3>1. CASE x = t  BY <1>4, <2>2, <2>3, <3>1
    <3>2. CASE x # t
      <4>1. handles'[x] = handles[x] /\ pc'[x] = pc[x]  BY <1>4, <3>2
      <4>2. \A y \in Threads \ {x} : Elements(handles'[y]) \cap Elements(handles'[x]) = {}
        BY <1>4, <2>2, <2>3, <4>1
      <4> QED  BY <1>5, <4>1, <4>2
    <3> QED  BY <3>1, <3>2
  <2> QED  BY <1>1, <2>1, <2>4
<1> QED  BY <1>6, <1>7, <1>8, <1>9, <1>10

LEMMA SignalKeeps ==
  ASSUME IInv, NEW t \in Threads, Signal(t)
  PROVE  IInv'
<1> USE DEF IInv, Signal, Goto
<1>1. /\ waiting_list_ \in Seq(Events) /\ IsInjective(waiting_list_)
      /\ signals + 1 \in 0 .. MaxSignals
  BY CondVarAssumption DEF Types, ListsDistinct
<1>2. CASE waiting_list_ = <<>>
  <2>1. Types'  BY <1>1, <1>2 DEF Types
  <2> QED  BY <1>2, <2>1, AsideKeeps DEF listVars
<1>3. CASE waiting_list_ # <<>>
  <2> DEFINE h == <<Last(waiting_list_)>>
  <2>1. /\ waiting_list_' \in Seq(Events) /\ Last(waiting_list_) \in Events
        /\ Elements(waiting_list_) = Elements(waiting_list_') \cup {Last(waiting_list_)}
        /\ IsInjective(waiting_list_') /\ Last(waiting_list_) \notin Elements(waiting_list_')
    BY <1>1, <1>3, PopBackElements
  <2>2. /\ h \in Seq(Events) /\ h # <<>>
        /\ IsInjective(h) /\ Elements(h) = {Last(waiting_list_)}
    <3> DEFINE l == Last(waiting_list_)
    <3> HIDE DEF l
    <3>1. l \in Events  BY <2>1 DEF l
    <3>2. <<l>> \in Seq(Events) /\ Len(<<l>>) = 1 /\ <<l>>[1] = l  BY <3>1
    <3>3. Elements(<<l>>) = {l}  BY <3>2 DEF Elements
    <3>4. IsInjective(<<l>>) /\ <<l>> # <<>>
      <4> DEFINE q == <<l>>
      <4>1. q \in Seq(Events) /\ Len(q) = 1  BY <3>2
      <4> HIDE DEF q
      <4>2. \A i, j \in 1 .. Len(q) : i = j  BY <4>1
      <4>3. q = <<>> <=> Len(q) = 0  BY <4>1, ListTyped
      <4>4. IsInjective(q)  BY <4>1, <4>2, ListTyped
      <4> QED  BY <4>1, <4>3, <4>4 DEF q
    <3> QED  BY <3>2, <3>3, <3>4 DEF l
  <2> HIDE DEF h
  <2>3. handles' = [handles EXCEPT ![t] = h]  BY <1>3 DEF h
  <2>4. pc' = [pc EXCEPT ![t] = "setting"]  BY <1>3
  <2>5. Types'  BY <1>1, <2>1, <2>2, <2>3, <2>4 DEF Types, Labels
  <2>6. pc'[t] = "setting" /\ \A x \in Threads \ {t} : pc'[x] = pc[x]  BY <2>4 DEF Types
  <2> QED  BY <2>1, <2>2, <2>3, <2>5, <2>6, PickKeeps
<1> QED  BY <1>2, <1>3

(* Broadcast and the destructor take all there are.                        *)
LEMMA TakeAllKeeps ==
  ASSUME IInv, NEW t \in Threads, TakeAll(t), waiting_list_ # <<>>,
         pc[t] \in {"ready", "closing"},
         NEW label \in {"setting", "lastSetting"}, Goto(t, label),
         signals' \in 0 .. MaxSignals,
         UNCHANGED <<run_state_, user_lock_, recycling_list_, recycling_list_size_,
                     allocation_counter_, set, waiting_event, reason, raced, waits>>
  PROVE  IInv'
<1> USE DEF IInv, TakeAll, Goto
<1>1. waiting_list_ \in Seq(Events) /\ IsInjective(waiting_list_)  BY DEF Types, ListsDistinct
<1>2. /\ waiting_list_' \in Seq(Events) /\ Elements(waiting_list_') = {}
      /\ IsInjective(waiting_list_')
  <2>1. <<>> \in Seq(Events) /\ Len(<<>>) = 0  OBVIOUS
  <2>2. Elements(<<>>) = {} /\ IsInjective(<<>>)  BY <2>1, ListTyped
  <2> QED  BY <2>1, <2>2
<1>3. Types'  BY <1>1, <1>2 DEF Types, Labels
<1>4. pc'[t] = label /\ \A x \in Threads \ {t} : pc'[x] = pc[x]  BY DEF Types
<1> QED  BY <1>1, <1>2, <1>3, <1>4, PickKeeps

(* With no waiter in the list there is nothing to take.                    *)
LEMMA TakeNoneKeeps ==
  ASSUME IInv, NEW t \in Threads, TakeAll(t), waiting_list_ = <<>>,
         pc[t] \in {"ready", "closing"}, pc'[t] \in {"ready", "sleeping"},
         pc' = [pc EXCEPT ![t] = pc'[t]],
         signals' \in 0 .. MaxSignals,
         UNCHANGED <<run_state_, user_lock_, recycling_list_, recycling_list_size_,
                     allocation_counter_, set, waiting_event, reason, raced, waits>>
  PROVE  IInv'
<1> USE DEF IInv, TakeAll
<1>1. handles[t] = <<>>  BY DEF HandlesMatch
<1>2. handles' = handles /\ waiting_list_' = waiting_list_  BY <1>1 DEF Types
<1>3. Types'  BY <1>2 DEF Types, Labels
<1>4. \A x \in Threads \ {t} : pc'[x] = pc[x]  BY DEF Types
<1> QED  BY <1>2, <1>3, <1>4, AsideKeeps DEF listVars

LEMMA BroadcastKeeps ==
  ASSUME IInv, NEW t \in Threads, Broadcast(t)
  PROVE  IInv'
<1>1. signals' \in 0 .. MaxSignals  BY CondVarAssumption DEF Broadcast, IInv, Types
<1>2. CASE waiting_list_ = <<>>
  <2>1. pc' = pc /\ pc'[t] = "ready" /\ pc' = [pc EXCEPT ![t] = pc'[t]]
    BY <1>2 DEF Broadcast, IInv, Types
  <2> QED  BY <1>1, <1>2, <2>1, TakeNoneKeeps DEF Broadcast
<1>3. CASE waiting_list_ # <<>>  BY <1>1, <1>3, TakeAllKeeps DEF Broadcast
<1> QED  BY <1>2, <1>3

LEMMA LastBroadcastKeeps ==
  ASSUME IInv, NEW t \in Threads, LastBroadcast(t)
  PROVE  IInv'
<1>1. signals' \in 0 .. MaxSignals  BY DEF LastBroadcast, IInv, Types
<1>2. CASE waiting_list_ = <<>>
  <2>1. pc'[t] = "sleeping" /\ pc' = [pc EXCEPT ![t] = pc'[t]]
    BY <1>2 DEF LastBroadcast, Goto, IInv, Types
  <2> QED  BY <1>1, <1>2, <2>1, TakeNoneKeeps DEF LastBroadcast
<1>3. CASE waiting_list_ # <<>>
  <2>1. Goto(t, "lastSetting")  BY <1>3 DEF LastBroadcast
  <2> QED  BY <1>1, <1>3, <2>1, TakeAllKeeps DEF LastBroadcast
<1> QED  BY <1>2, <1>3
-----------------------------------------------------------------------------
(* The event that SetEvent sets comes from the front of handles[t].        *)
LEMMA SetEventKeeps ==
  ASSUME IInv, NEW t \in Threads, SetEvent(t)
  PROVE  IInv'
<1> USE DEF IInv
<1> DEFINE q == handles[t]
           e == Head(q)
<1>1. pc[t] \in {"setting", "lastSetting"} /\ q \in Seq(Events) /\ q # <<>>
  BY DEF SetEvent, HandlesMatch, Types
<1>2. /\ Tail(q) \in Seq(Events) /\ Len(Tail(q)) = Len(q) - 1 /\ e \in Events
      /\ Elements(q) = Elements(Tail(q)) \cup {e}
      /\ IsInjective(q) => IsInjective(Tail(q)) /\ e \notin Elements(Tail(q))
  BY <1>1, PopFrontElements
<1>3. /\ Len(q) \in Nat /\ (q = <<>> <=> Len(q) = 0)
      /\ Len(Tail(q)) \in Nat /\ (Tail(q) = <<>> <=> Len(Tail(q)) = 0)
  BY <1>1, <1>2, ListTyped
<1>4. /\ set' = set \cup {e}
      /\ \A x \in Threads : handles'[x] = IF x = t THEN Tail(q) ELSE handles[x]
      /\ handles' \in [Threads -> Seq(Events)]
  BY <1>2 DEF SetEvent, Types
<1>5. /\ \A x \in Threads \ {t} : pc'[x] = pc[x]
      /\ IF Len(q) > 1 THEN pc'[t] = pc[t] ELSE pc'[t] \in {"ready", "sleeping"}
      /\ pc' \in [Threads -> Labels]
  BY <1>1 DEF SetEvent, Goto, Types, Labels
<1>6. UNCHANGED <<run_state_, user_lock_, listVars, waiting_event, reason, raced, waits, signals>>
  BY DEF SetEvent
<1>7. q = handles[t]  OBVIOUS
<1> HIDE DEF q, e
<1>8. Types'  BY <1>2, <1>4, <1>5, <1>6 DEF Types, listVars
<1>9. InCall' = InCall
  <2>1. \A x \in Threads : pc'[x] \in {"unlock", "waiting", "woken"}
                          <=> pc[x] \in {"unlock", "waiting", "woken"}
    BY <1>1, <1>5
  <2> QED  BY <2>1 DEF InCall
<1>10. EventsAccounted'  BY <1>6, <1>9 DEF EventsAccounted, listVars
<1>11. WaiterIsReachable'
  <2> SUFFICES ASSUME NEW x \in Threads, pc'[x] \in {"unlock", "waiting"}
               PROVE  \/ waiting_event[x] \in Elements(waiting_list_) \cup set'
                      \/ \E s \in Threads : waiting_event[x] \in Elements(handles'[s])
    BY <1>6 DEF WaiterIsReachable, listVars
  <2>1. pc[x] \in {"unlock", "waiting"}  BY <1>1, <1>5
  <2>2. CASE waiting_event[x] \in Elements(waiting_list_) \cup set
    BY <1>4, <2>2
  <2>3. ASSUME NEW s \in Threads, waiting_event[x] \in Elements(handles[s])
        PROVE  \/ waiting_event[x] \in set'
               \/ waiting_event[x] \in Elements(handles'[s])
    BY <1>2, <1>4, <1>7, <2>3
  <2> QED  BY <2>1, <2>2, <2>3 DEF WaiterIsReachable
<1>12. ListsDistinct'  BY <1>6 DEF ListsDistinct, listVars
<1>13. HandlesMatch'
  <2>1. Tail(q) # <<>> <=> pc'[t] \in {"setting", "lastSetting"}  BY <1>1, <1>2, <1>3, <1>5
  <2> QED  BY <1>4, <1>5, <2>1 DEF HandlesMatch
<1>14. ASSUME ~raced PROVE PickedOnce'
  <2>1. \A x \in Threads : Elements(handles'[x]) = IF x = t THEN Elements(Tail(q)) ELSE Elements(handles[x])
    BY <1>4
  <2>2. Picked' = Picked
    <3>1. Picked' \subseteq Picked  BY <1>2, <1>4, <1>7, <2>1 DEF Picked
    <3>2. Picked \subseteq Picked'  BY <1>2, <1>4, <1>7, <2>1 DEF Picked
    <3> QED  BY <3>1, <3>2
  <2> USE <1>14 DEF PickedOnce
  <2>3. IsInjective(q) /\ Elements(q) \cap set = {} /\ e \notin Elements(Tail(q))
    BY <1>2, <1>7
  <2>4. \A x \in Threads \ {t} : e \notin Elements(handles[x])  BY <1>2, <1>7
  <2>5. ASSUME NEW x \in Threads
        PROVE  /\ IsInjective(handles'[x])
               /\ Elements(handles'[x]) \cap set' = {}
               /\ \A y \in Threads \ {x} : Elements(handles'[y]) \cap Elements(handles'[x]) = {}
    <3>1. CASE x = t  BY <1>2, <1>4, <1>7, <2>1, <2>3, <2>4, <3>1, ZenonT(60)
    <3>2. CASE x # t
      <4>1. handles'[x] = handles[x]  BY <1>4, <3>2
      <4>2. Elements(handles'[x]) \cap set' = {}  BY <1>4, <2>4, <3>2, <4>1
      <4>3. ASSUME NEW y \in Threads \ {x}
            PROVE  Elements(handles'[y]) \cap Elements(handles'[x]) = {}
        <5>1. Elements(handles'[y]) \subseteq Elements(handles[y])  BY <1>2, <1>7, <2>1
        <5> QED  BY <4>1, <5>1
      <4> QED  BY <4>1, <4>2, <4>3
    <3> QED  BY <3>1, <3>2
  <2>6. \A x \in Threads : pc'[x] = "woken" <=> pc[x] = "woken"  BY <1>1, <1>5
  <2> QED  BY <1>6, <1>9, <2>2, <2>5, <2>6 DEF listVars
<1> QED  BY <1>6, <1>8, <1>10, <1>11, <1>12, <1>13, <1>14 DEF Types, listVars

(* The event resets itself for the one thread that owns it.                *)
LEMMA WakeKeeps ==
  ASSUME IInv, NEW t \in Threads, Wake(t)
  PROVE  IInv'
<1> USE DEF IInv
<1> DEFINE e == waiting_event[t]
<1>1. /\ pc[t] = "waiting" /\ e \in set /\ set' = set \ {e} /\ e = waiting_event[t]
      /\ UNCHANGED <<run_state_, user_lock_, listVars, waiting_event, handles, raced, waits, signals>>
  BY DEF Wake
<1>2. /\ \A x \in Threads : IF x = t THEN pc'[x] = "woken" /\ reason'[x] = "event"
                                   ELSE pc'[x] = pc[x] /\ reason'[x] = reason[x]
      /\ pc' \in [Threads -> Labels] /\ reason' \in [Threads -> {"event", "timeout"}]
  BY DEF Wake, Goto, Types, Labels
<1> HIDE DEF e
<1>3. Types'  BY <1>1, <1>2 DEF Types, listVars
<1>4. InCall' = InCall /\ t \in InCall
  <2>1. \A x \in Threads : pc'[x] \in {"unlock", "waiting", "woken"}
                          <=> pc[x] \in {"unlock", "waiting", "woken"}
    BY <1>1, <1>2
  <2> QED  BY <1>1, <2>1 DEF InCall
<1>5. EventsAccounted'  BY <1>1, <1>4 DEF EventsAccounted, listVars
<1>6. WaiterIsReachable'
  <2> SUFFICES ASSUME NEW x \in Threads, pc'[x] \in {"unlock", "waiting"}
               PROVE  \/ waiting_event[x] \in Elements(waiting_list_) \cup set'
                      \/ \E s \in Threads : waiting_event[x] \in Elements(handles[s])
    BY <1>1 DEF WaiterIsReachable, listVars
  <2>1. x # t /\ pc[x] \in {"unlock", "waiting"}  BY <1>2
  <2>2. waiting_event[x] # e  BY <1>1, <1>4, <2>1 DEF EventsAccounted, InCall
  <2> QED  BY <1>1, <2>1, <2>2 DEF WaiterIsReachable
<1>7. ListsDistinct'  BY <1>1 DEF ListsDistinct, listVars
<1>8. HandlesMatch'  BY <1>1, <1>2 DEF HandlesMatch
<1>9. ASSUME ~raced PROVE PickedOnce'
  <2> USE <1>9 DEF PickedOnce
  <2>1. e \in Picked /\ e \notin Elements(waiting_list_)
        /\ \A x \in Threads : e \notin Elements(handles[x])
    BY <1>1 DEF Picked
  <2>2. Picked' = Picked \ {e}  BY <1>1, <2>1 DEF Picked
  <2>3. ASSUME NEW x \in Threads, pc'[x] = "woken", reason'[x] = "event"
        PROVE  waiting_event[x] \notin Picked' \cup Elements(waiting_list_)
    <3>1. CASE x = t  BY <1>1, <2>1, <2>2, <3>1
    <3>2. CASE x # t  BY <1>2, <2>2, <2>3, <3>2
    <3> QED  BY <3>1, <3>2
  <2> QED  BY <1>1, <1>4, <2>2, <2>3 DEF listVars
<1> QED  BY <1>1, <1>3, <1>5, <1>6, <1>7, <1>8, <1>9 DEF Types, listVars
-----------------------------------------------------------------------------
(* A new event is made only when each of the others belongs to a thread    *)
(* that is inside a wait, so that there is one thread more than there are. *)
LEMMA OneEventPerThread ==
  ASSUME Types, EventsAccounted, NEW t \in Threads, t \notin InCall, recycling_list_size_ = 0
  PROVE  allocation_counter_ + 1 <= Cardinality(Threads)
<1> DEFINE n == allocation_counter_
           owner(i) == CHOOSE x \in InCall : waiting_event[x] = i
           f == [i \in 1 .. n + 1 |-> IF i = n + 1 THEN t ELSE owner(i)]
<1>1. n \in Nat  BY DEF Types
<1>2. Elements(recycling_list_) = {}
  <2>1. recycling_list_ \in Seq(Events) /\ Len(recycling_list_) = 0
    BY DEF Types, EventsAccounted
  <2> QED  BY <2>1, ListTyped
<1>3. 1 .. n = {waiting_event[x] : x \in InCall}  BY <1>2 DEF EventsAccounted
<1>4. \A i \in 1 .. n : owner(i) \in InCall /\ waiting_event[owner(i)] = i  BY <1>3
<1>5. InCall \subseteq Threads  BY DEF InCall
<1> HIDE DEF owner, n
<1>6. \A i \in 1 .. n + 1 : i = n + 1 \/ i \in 1 .. n  BY <1>1
<1>7. f \in [1 .. n + 1 -> Threads]  BY <1>4, <1>5, <1>6
<1>8. ASSUME NEW i \in 1 .. n + 1, NEW j \in 1 .. n + 1, f[i] = f[j] PROVE i = j
  <2>1. CASE i = n + 1 \/ j = n + 1  BY <1>4, <1>6, <1>8, <2>1
  <2>2. CASE i # n + 1 /\ j # n + 1
    <3>1. i \in 1 .. n /\ j \in 1 .. n /\ owner(i) = owner(j)  BY <1>6, <1>8, <2>2
    <3> QED  BY <1>4, <3>1
  <2> QED  BY <2>1, <2>2
<1> HIDE DEF f
<1>9. f \in Injection(1 .. n + 1, Threads)
  <2>1. DOMAIN f = 1 .. n + 1  BY <1>7
  <2>2. IsInjective(f)  BY <1>8, <2>1 DEF IsInjective
  <2> QED  BY <1>7, <2>2 DEF Injection
<1>10. Cardinality(1 .. n + 1) <= Cardinality(Threads)
  BY <1>9, CondVarAssumption, FS_Injection
<1>11. Cardinality(1 .. n + 1) = n + 1  BY <1>1, FS_Interval
<1> QED  BY <1>10, <1>11 DEF n

(* t commits to a wait for e, which no thread has: it was made for the     *)
(* wait, or it comes out of the recycling list.                            *)
LEMMA CommitKeeps ==
  ASSUME IInv, NEW t \in Threads, pc[t] = "ready", Goto(t, "unlock"),
         NEW e \in Events, \A x \in InCall : waiting_event[x] # e,
         waiting_event' = [waiting_event EXCEPT ![t] = e],
         waiting_list_' = Append(waiting_list_, e),
         recycling_list_' \in Seq(Events), IsInjective(recycling_list_'),
         e \notin Elements(recycling_list_'),
         Elements(recycling_list_') \subseteq Elements(recycling_list_),
         recycling_list_size_' = Len(recycling_list_'),
         1 .. allocation_counter_' =
           Elements(recycling_list_') \cup {waiting_event[x] : x \in InCall} \cup {e},
         allocation_counter_' \in Nat, allocation_counter_' <= Cardinality(Threads),
         allocation_counter_' <= waits', waits' = waits + 1, waits < MaxWaits,
         UNCHANGED <<run_state_, user_lock_, set, reason, handles, raced, signals>>
  PROVE  IInv'
<1> USE DEF IInv
<1>1. waiting_list_ \in Seq(Events) /\ IsInjective(waiting_list_)  BY DEF Types, ListsDistinct
<1>2. e \notin Elements(waiting_list_)  BY DEF EventsAccounted
<1>3. /\ waiting_list_' \in Seq(Events) /\ IsInjective(waiting_list_')
      /\ Elements(waiting_list_') = Elements(waiting_list_) \cup {e}
  BY <1>1, <1>2, PushBackElements
<1>4. Len(recycling_list_') \in Nat  BY ListTyped
<1>5. Types'  BY <1>3, <1>4, CondVarAssumption DEF Types, Goto, Labels
<1>6. /\ \A x \in Threads : pc'[x] = IF x = t THEN "unlock" ELSE pc[x]
      /\ \A x \in Threads : waiting_event'[x] = IF x = t THEN e ELSE waiting_event[x]
  BY DEF Types, Goto
<1>7. InCall' = InCall \cup {t} /\ t \notin InCall  BY <1>6 DEF InCall
<1>8. {waiting_event'[x] : x \in InCall'} = {waiting_event[x] : x \in InCall} \cup {e}
      /\ \A x \in InCall : waiting_event'[x] = waiting_event[x]
  <2>1. InCall \subseteq Threads  BY DEF InCall
  <2> QED  BY <1>6, <1>7, <2>1
<1>9. EventsAccounted'
  <2>1. \A x \in InCall' : waiting_event'[x] \notin Elements(recycling_list_')
    BY <1>6, <1>7, <1>8 DEF EventsAccounted
  <2>2. \A x, y \in InCall' : waiting_event'[x] = waiting_event'[y] => x = y
    BY <1>6, <1>7, <1>8 DEF EventsAccounted
  <2>3. Elements(waiting_list_') \subseteq {waiting_event'[x] : x \in InCall'}
    BY <1>3, <1>8 DEF EventsAccounted
  <2>4. 1 .. allocation_counter_' = Elements(recycling_list_') \cup {waiting_event'[x] : x \in InCall'}
    BY <1>8
  <2> QED  BY <2>1, <2>2, <2>3, <2>4 DEF EventsAccounted
<1>10. WaiterIsReachable'
  <2> SUFFICES ASSUME NEW x \in Threads, pc'[x] \in {"unlock", "waiting"}
               PROVE  \/ waiting_event'[x] \in Elements(waiting_list_') \cup set
                      \/ \E s \in Threads : waiting_event'[x] \in Elements(handles[s])
    BY DEF WaiterIsReachable
  <2>1. CASE x = t  BY <1>3, <1>6, <2>1
  <2>2. CASE x # t  BY <1>3, <1>6, <2>2 DEF WaiterIsReachable
  <2> QED  BY <2>1, <2>2
<1>11. ListsDistinct'  BY <1>3 DEF ListsDistinct
<1>12. HandlesMatch'  BY <1>6 DEF HandlesMatch
<1>13. ASSUME ~raced PROVE PickedOnce'
  <2> USE <1>13 DEF PickedOnce
  <2>1. Picked' = Picked /\ e \notin Picked  BY DEF Picked
  <2>2. \A x \in Picked : x \notin Elements(waiting_list_') /\ \E y \in InCall' : waiting_event'[y] = x
    BY <1>3, <1>7, <1>8, <2>1
  <2>3. ASSUME NEW x \in Threads, pc'[x] = "woken", reason[x] = "event"
        PROVE  waiting_event'[x] \notin Picked \cup Elements(waiting_list_')
    <3>1. x # t /\ pc[x] = "woken" /\ x \in InCall  BY <1>6, <2>3 DEF InCall
    <3> QED  BY <1>3, <1>6, <2>3, <3>1
  <2> QED  BY <2>1, <2>2, <2>3
<1> QED  BY <1>5, <1>9, <1>10, <1>11, <1>12, <1>13

LEMMA TimedWaitKeeps ==
  ASSUME IInv, NEW t \in Threads, TimedWait(t)
  PROVE  IInv'
<1> USE DEF IInv
<1>1. CASE run_state_ # "RUNNING"
  <2>1. Types'  BY <1>1, CondVarAssumption DEF TimedWait, Types, listVars
  <2> QED  BY <1>1, <2>1, AsideKeeps DEF TimedWait, listVars
<1>2. CASE run_state_ = "RUNNING"
  <2>1. /\ pc[t] = "ready" /\ Goto(t, "unlock") /\ GetEventForWaiting(t)
        /\ waits' = waits + 1 /\ waits < MaxWaits /\ waits \in Nat
        /\ UNCHANGED <<run_state_, user_lock_, set, reason, handles, raced, signals>>
    BY <1>2 DEF TimedWait, Types
  <2>2. t \notin InCall  BY <2>1 DEF InCall
  <2>3. /\ recycling_list_ \in Seq(Events) /\ IsInjective(recycling_list_)
        /\ recycling_list_size_ = Len(recycling_list_)
        /\ allocation_counter_ \in Nat /\ allocation_counter_ <= waits
    BY DEF Types, ListsDistinct, EventsAccounted
  <2>4. CASE recycling_list_size_ = 0
    <3> DEFINE e == allocation_counter_ + 1
    <3>1. /\ waiting_event' = [waiting_event EXCEPT ![t] = e]
          /\ waiting_list_' = Append(waiting_list_, e)
          /\ allocation_counter_' = allocation_counter_ + 1
          /\ UNCHANGED <<recycling_list_, recycling_list_size_>>
      BY <2>1, <2>4 DEF GetEventForWaiting
    <3>2. e \in Events  BY <2>1, <2>3, CondVarAssumption DEF Events
    <3>3. e \notin 1 .. allocation_counter_ /\ 1 .. allocation_counter_ + 1 = 1 .. allocation_counter_ \cup {e}
      BY <2>3
    <3>4. (\A x \in InCall : waiting_event[x] # e) /\ e \notin Elements(recycling_list_)
      BY <3>3 DEF EventsAccounted
    <3>5. 1 .. allocation_counter_ + 1 =
            Elements(recycling_list_) \cup {waiting_event[x] : x \in InCall} \cup {e}
      BY <3>3 DEF EventsAccounted
    <3>6. allocation_counter_ + 1 <= Cardinality(Threads)  BY <2>2, <2>4, OneEventPerThread
    <3>7. allocation_counter_' \in Nat /\ allocation_counter_' <= waits'  BY <2>1, <2>3, <3>1
    <3> HIDE DEF e
    <3> QED  BY <2>1, <2>3, <3>1, <3>2, <3>4, <3>5, <3>6, <3>7, CommitKeeps
  <2>5. CASE recycling_list_size_ # 0
    <3> DEFINE e == Head(recycling_list_)
               r == Tail(recycling_list_)
    <3>1. /\ waiting_event' = [waiting_event EXCEPT ![t] = e]
          /\ waiting_list_' = Append(waiting_list_, e)
          /\ recycling_list_' = r
          /\ recycling_list_size_' = recycling_list_size_ - 1
          /\ UNCHANGED allocation_counter_
      BY <2>1, <2>5 DEF GetEventForWaiting
    <3>2. recycling_list_ # <<>>  BY <2>3, <2>5, ListTyped
    <3>3. /\ r \in Seq(Events) /\ Len(r) = Len(recycling_list_) - 1 /\ e \in Events
          /\ Elements(recycling_list_) = Elements(r) \cup {e}
          /\ IsInjective(r) /\ e \notin Elements(r)
      BY <2>3, <3>2, PopFrontElements
    <3> HIDE DEF e, r
    <3>4. \A x \in InCall : waiting_event[x] # e  BY <3>3 DEF EventsAccounted
    <3>5. 1 .. allocation_counter_ = Elements(r) \cup {waiting_event[x] : x \in InCall} \cup {e}
      BY <3>3 DEF EventsAccounted
    <3>6. allocation_counter_ <= Cardinality(Threads)  BY DEF EventsAccounted
    <3>7. allocation_counter_' \in Nat /\ allocation_counter_' <= waits'  BY <2>1, <2>3, <3>1
    <3> QED  BY <2>1, <2>3, <3>1, <3>3, <3>4, <3>5, <3>6, <3>7, CommitKeeps
  <2> QED  BY <2>4, <2>5
<1> QED  BY <1>1, <1>2

LEMMA RecycleKeeps ==
  ASSUME IInv, NEW t \in Threads, Recycle(t)
  PROVE  IInv'
<1> USE DEF IInv
<1> DEFINE e == waiting_event[t]
<1>1. pc[t] = "woken" /\ t \in InCall /\ e = waiting_event[t]  BY DEF Recycle, InCall
<1>2. /\ waiting_list_' = Extract(waiting_list_, e)
      /\ recycling_list_' = Append(Extract(recycling_list_, e), e)
      /\ recycling_list_size_' = recycling_list_size_ + 1
      /\ allocation_counter_' = allocation_counter_
      /\ raced' = (raced \/ (reason[t] = "timeout" /\ e \notin Elements(waiting_list_)))
      /\ UNCHANGED <<run_state_, user_lock_, set, reason, handles, waits, signals>>
  BY DEF Recycle, RecycleEvent
<1>3. /\ \A x \in Threads : pc'[x] = IF x = t THEN "acquire" ELSE pc[x]
      /\ \A x \in Threads : waiting_event'[x] = IF x = t THEN NoEvent ELSE waiting_event[x]
      /\ pc' \in [Threads -> Labels] /\ waiting_event' \in [Threads -> Events \cup {NoEvent}]
  BY DEF Recycle, Goto, Types, Labels
<1> HIDE DEF e
<1>4. /\ waiting_list_ \in Seq(Events) /\ IsInjective(waiting_list_)
      /\ recycling_list_ \in Seq(Events) /\ IsInjective(recycling_list_)
  BY DEF Types, ListsDistinct
<1>5. e \in Events /\ e \notin Elements(recycling_list_)
  <2>1. e \in 1 .. allocation_counter_ /\ e \notin Elements(recycling_list_)
    BY <1>1 DEF EventsAccounted
  <2>2. e \in Events \cup {NoEvent} /\ e # NoEvent
    BY <1>1, <2>1 DEF InCall, Types, NoEvent
  <2> QED  BY <2>1, <2>2
<1>6. /\ waiting_list_' \in Seq(Events) /\ IsInjective(waiting_list_')
      /\ Elements(waiting_list_') = Elements(waiting_list_) \ {e}
  BY <1>2, <1>4, ExtractElements
<1>7. Extract(recycling_list_, e) = recycling_list_  BY <1>4, <1>5, ExtractElements
<1>8. /\ recycling_list_' \in Seq(Events) /\ IsInjective(recycling_list_')
      /\ Elements(recycling_list_') = Elements(recycling_list_) \cup {e}
      /\ Len(recycling_list_') = Len(recycling_list_) + 1
  BY <1>2, <1>4, <1>5, <1>7, PushBackElements
<1>9. Types'
  <2>1. raced' \in BOOLEAN  BY <1>2 DEF Types
  <2>2. recycling_list_size_' \in Nat  BY <1>2 DEF Types
  <2> QED  BY <1>2, <1>3, <1>6, <1>8, <2>1, <2>2 DEF Types
<1>10. InCall' = InCall \ {t}  BY <1>1, <1>3 DEF InCall
<1>11. \A x \in InCall' : waiting_event'[x] = waiting_event[x] /\ waiting_event[x] # e
  BY <1>1, <1>3, <1>10 DEF EventsAccounted, InCall
<1>12. {waiting_event'[x] : x \in InCall'} = {waiting_event[x] : x \in InCall} \ {e}
  <2>1. \A x \in InCall' : waiting_event'[x] \in {waiting_event[y] : y \in InCall} \ {e}
    BY <1>10, <1>11
  <2>2. \A y \in InCall : waiting_event[y] # e => y \in InCall' /\ waiting_event'[y] = waiting_event[y]
    BY <1>1, <1>10, <1>11
  <2> QED  BY <2>1, <2>2
<1>13. EventsAccounted'
  <2>1. 1 .. allocation_counter_' = Elements(recycling_list_') \cup {waiting_event'[x] : x \in InCall'}
    BY <1>1, <1>2, <1>8, <1>12, ZenonT(60) DEF EventsAccounted
  <2>2. \A x \in InCall' : waiting_event'[x] \notin Elements(recycling_list_')
    BY <1>8, <1>10, <1>11 DEF EventsAccounted
  <2>3. \A x, y \in InCall' : waiting_event'[x] = waiting_event'[y] => x = y
    BY <1>10, <1>11 DEF EventsAccounted
  <2>4. Elements(waiting_list_') \subseteq {waiting_event'[x] : x \in InCall'}
    BY <1>6, <1>12 DEF EventsAccounted
  <2>5. recycling_list_size_' = Len(recycling_list_')  BY <1>2, <1>8 DEF EventsAccounted
  <2>6. allocation_counter_' <= Cardinality(Threads)  BY <1>2 DEF EventsAccounted
  <2> QED  BY <2>1, <2>2, <2>3, <2>4, <2>5, <2>6 DEF EventsAccounted
<1>14. WaiterIsReachable'
  <2> SUFFICES ASSUME NEW x \in Threads, pc'[x] \in {"unlock", "waiting"}
               PROVE  \/ waiting_event'[x] \in Elements(waiting_list_') \cup set
                      \/ \E s \in Threads : waiting_event'[x] \in Elements(handles[s])
    BY <1>2 DEF WaiterIsReachable
  <2>1. x # t /\ pc[x] \in {"unlock", "waiting"} /\ x \in InCall'
    BY <1>3 DEF InCall
  <2> QED  BY <1>6, <1>11, <2>1 DEF WaiterIsReachable
<1>15. ListsDistinct'  BY <1>6, <1>8 DEF ListsDistinct
<1>16. HandlesMatch'  BY <1>1, <1>2, <1>3 DEF HandlesMatch
<1>17. ASSUME ~raced' PROVE PickedOnce'
  <2>1. ~raced /\ (reason[t] = "event" \/ e \in Elements(waiting_list_))  BY <1>2, <1>17 DEF Types
  <2> USE <2>1 DEF PickedOnce
  <2>2. Picked' = Picked  BY <1>2 DEF Picked
  <2>3. e \notin Picked  BY <1>1, <2>1
  <2>4. ASSUME NEW x \in Picked
        PROVE  x \notin Elements(waiting_list_') /\ \E y \in InCall' : waiting_event'[y] = x
    <3>1. PICK y \in InCall : waiting_event[y] = x  OBVIOUS
    <3>2. y \in InCall'  BY <1>1, <1>10, <2>3, <3>1
    <3> QED  BY <1>6, <1>11, <3>1, <3>2
  <2>5. ASSUME NEW x \in Threads, pc'[x] = "woken", reason[x] = "event"
        PROVE  waiting_event'[x] \notin Picked \cup Elements(waiting_list_')
    BY <1>3, <1>6, <2>5
  <2> QED  BY <1>2, <2>2, <2>4, <2>5
<1> QED  BY <1>2, <1>9, <1>13, <1>14, <1>15, <1>16, <1>17
-----------------------------------------------------------------------------
LEMMA InitIInv == Init => IInv
<1> SUFFICES ASSUME Init PROVE IInv  OBVIOUS
<1> USE DEF Init
<1>1. <<>> \in Seq(Events) /\ Len(<<>>) = 0  OBVIOUS
<1>2. Elements(<<>>) = {} /\ IsInjective(<<>>)  BY <1>1, ListTyped
<1>3. Types
  <2>1. handles \in [Threads -> Seq(Events)]  BY <1>1
  <2>2. pc \in [Threads -> Labels] /\ reason \in [Threads -> {"event", "timeout"}]  BY DEF Labels
  <2>3. /\ allocation_counter_ \in 0 .. MaxWaits /\ recycling_list_size_ \in Nat
        /\ waits \in 0 .. MaxWaits /\ signals \in 0 .. MaxSignals
    BY CondVarAssumption
  <2> QED  BY <1>1, <2>1, <2>2, <2>3 DEF Types
<1>4. EventsAccounted
  <2>1. InCall = {}  BY DEF InCall
  <2>2. Cardinality(Threads) \in Nat  BY CondVarAssumption, FS_CardinalityType
  <2>3. {waiting_event[t] : t \in InCall} = {} /\ 1 .. 0 = {}  BY <2>1
  <2> QED  BY <1>1, <1>2, <2>1, <2>2, <2>3 DEF EventsAccounted
<1>5. WaiterIsReachable  BY DEF WaiterIsReachable
<1>6. ListsDistinct /\ HandlesMatch  BY <1>2 DEF ListsDistinct, HandlesMatch
<1>7. PickedOnce
  <2>1. \A t \in Threads : handles[t] = <<>> /\ pc[t] = "ready"  OBVIOUS
  <2>2. Picked = {}  BY <1>2, <2>1 DEF Picked
  <2> QED  BY <1>2, <2>1, <2>2 DEF PickedOnce
<1> QED  BY <1>3, <1>4, <1>5, <1>6, <1>7 DEF IInv

LEMMA NextKeepsIInv == IInv /\ [Next]_vars => IInv'
<1> SUFFICES ASSUME IInv, [Next]_vars PROVE IInv'  OBVIOUS
<1>1. ASSUME NEW t \in Threads, AcquireUserLock(t) \/ ReleaseUserLock(t) PROVE IInv'
  BY <1>1, UserLockKeeps
<1>2. ASSUME NEW t \in Threads, Reacquire(t) PROVE IInv'  BY <1>2, ReacquireKeeps
<1>3. ASSUME NEW t \in Threads, TimedWait(t) PROVE IInv'  BY <1>3, TimedWaitKeeps
<1>4. ASSUME NEW t \in Threads, TimeOut(t) PROVE IInv'  BY <1>4, TimeOutKeeps
<1>5. ASSUME NEW t \in Threads, Signal(t) PROVE IInv'  BY <1>5, SignalKeeps
<1>6. ASSUME NEW t \in Threads, Broadcast(t) PROVE IInv'  BY <1>6, BroadcastKeeps
<1>7. ASSUME NEW t \in Threads, Shutdown(t) PROVE IInv'  BY <1>7, ShutdownKeeps
<1>8. ASSUME NEW t \in Threads, Step(t) PROVE IInv'
  BY <1>8, ReleaseAndWaitKeeps, WakeKeeps, RecycleKeeps, SetEventKeeps, LastBroadcastKeeps,
     DestroyKeeps
  DEF Step
<1>9. CASE UNCHANGED vars
  <2>1. Types'  BY <1>9 DEF IInv, Types, vars, listVars, localVars
  <2> QED  BY <1>9, <2>1, AsideKeeps DEF vars, localVars
<1> QED  BY <1>1, <1>2, <1>3, <1>4, <1>5, <1>6, <1>7, <1>8, <1>9 DEF Next

(* The inductive invariant of the waits, signals and the destructor of     *)
(* WinXPCondVar.                                                           *)
THEOREM Invariance == Spec => []IInv
<1>1. Init => IInv  BY InitIInv
<1>2. IInv /\ [Next]_vars => IInv'  BY NextKeepsIInv
<1> QED  BY <1>1, <1>2, PTL DEF Spec

(* Signal and Broadcast pick from waiting_list_, so what is set or is to   *)
(* be set has been made; after a race it may belong to no thread.          *)
LEMMA PickedAreMade ==
  ASSUME IInv, [Next]_vars, Picked \subseteq 1 .. allocation_counter_
  PROVE  Picked' \subseteq 1 .. allocation_counter_'
<1> DEFINE Made == 1 .. allocation_counter_
<1> USE DEF IInv
<1>1. Elements(waiting_list_) \subseteq Made  BY DEF EventsAccounted
<1>2. set \subseteq Made /\ \A x \in Threads : Elements(handles[x]) \subseteq Made  BY DEF Picked
<1>3. SUFFICES /\ set' \subseteq 1 .. allocation_counter_'
               /\ \A x \in Threads : Elements(handles'[x]) \subseteq 1 .. allocation_counter_'
  BY DEF Picked
<1> USE DEF listVars, localVars, vars
<1>4. CASE UNCHANGED vars  BY <1>2, <1>4
<1>5. ASSUME NEW t \in Threads, TimedWait(t)
      PROVE  /\ UNCHANGED <<set, handles>> /\ Made \subseteq 1 .. allocation_counter_'
  BY <1>5 DEF TimedWait, GetEventForWaiting, Types
<1>6. ASSUME NEW t \in Threads,
             \/ AcquireUserLock(t) \/ ReleaseUserLock(t) \/ Reacquire(t) \/ TimeOut(t)
             \/ Shutdown(t) \/ ReleaseAndWait(t) \/ Wake(t) \/ Recycle(t) \/ Destroy(t)
      PROVE  UNCHANGED <<allocation_counter_, handles>> /\ set' \subseteq set
  BY <1>6 DEF AcquireUserLock, ReleaseUserLock, Reacquire, TimeOut, Shutdown, ReleaseAndWait,
              Wake, Recycle, RecycleEvent, Destroy
<1>7. ASSUME NEW t \in Threads, Signal(t) \/ Broadcast(t) \/ LastBroadcast(t) \/ SetEvent(t)
      PROVE  /\ UNCHANGED allocation_counter_ /\ set' \subseteq Made
             /\ \A x \in Threads : Elements(handles'[x]) \subseteq Made
  <2>1. CASE Signal(t)
    <3>1. UNCHANGED <<allocation_counter_, set>>  BY <2>1 DEF Signal
    <3>2. CASE waiting_list_ = <<>>  BY <1>2, <2>1, <3>1, <3>2 DEF Signal
    <3>3. CASE waiting_list_ # <<>>
      <4> DEFINE h == <<Last(waiting_list_)>>
      <4>1. Elements(h) = {Last(waiting_list_)}  BY DEF Elements
      <4>2. Last(waiting_list_) \in Elements(waiting_list_)
        <5>1. waiting_list_ \in Seq(Events)  BY DEF Types
        <5>2. Elements(waiting_list_) = Elements(Front(waiting_list_)) \cup {Last(waiting_list_)}
          BY <3>3, <5>1, PopBackElements
        <5> QED  BY <5>2
      <4>3. handles' = [handles EXCEPT ![t] = h]  BY <2>1, <3>3 DEF Signal
      <4> HIDE DEF h
      <4>4. \A x \in Threads : handles'[x] = IF x = t THEN h ELSE handles[x]  BY <4>3 DEF Types
      <4> QED  BY <1>1, <1>2, <3>1, <4>1, <4>2, <4>4
    <3> QED  BY <3>2, <3>3
  <2>2. CASE Broadcast(t) \/ LastBroadcast(t)
    <3>1. /\ UNCHANGED <<allocation_counter_, set>>
          /\ \A x \in Threads : handles'[x] = IF x = t THEN waiting_list_ ELSE handles[x]
      BY <2>2 DEF Broadcast, LastBroadcast, TakeAll, Types
    <3> QED  BY <1>1, <1>2, <3>1
  <2>3. CASE SetEvent(t)
    <3>1. handles[t] # <<>> /\ handles[t] \in Seq(Events)
      BY <2>3 DEF SetEvent, HandlesMatch, Types
    <3>2. Elements(handles[t]) = Elements(Tail(handles[t])) \cup {Head(handles[t])}
      BY <3>1, PopFrontElements
    <3>3. /\ UNCHANGED allocation_counter_ /\ set' = set \cup {Head(handles[t])}
          /\ \A x \in Threads : handles'[x] = IF x = t THEN Tail(handles[t]) ELSE handles[x]
      BY <2>3 DEF SetEvent, Types
    <3> QED  BY <1>2, <3>2, <3>3
  <2> QED  BY <1>7, <2>1, <2>2, <2>3
<1> HIDE DEF Made
<1>8. ASSUME NEW t \in Threads, TimedWait(t)
      PROVE  /\ set' \subseteq 1 .. allocation_counter_'
             /\ \A x \in Threads : Elements(handles'[x]) \subseteq 1 .. allocation_counter_'
  BY <1>2, <1>5, <1>8
<1>9. ASSUME NEW t \in Threads,
             \/ AcquireUserLock(t) \/ ReleaseUserLock(t) \/ Reacquire(t) \/ TimeOut(t)
             \/ Shutdown(t) \/ ReleaseAndWait(t) \/ Wake(t) \/ Recycle(t) \/ Destroy(t)
      PROVE  /\ set' \subseteq 1 .. allocation_counter_'
             /\ \A x \in Threads : Elements(handles'[x]) \subseteq 1 .. allocation_counter_'
  BY <1>2, <1>6, <1>9 DEF Made
<1>10. ASSUME NEW t \in Threads, Signal(t) \/ Broadcast(t) \/ LastBroadcast(t) \/ SetEvent(t)
      PROVE  /\ set' \subseteq 1 .. allocation_counter_'
             /\ \A x \in Threads : Elements(handles'[x]) \subseteq 1 .. allocation_counter_'
  BY <1>7, <1>10 DEF Made
<1> QED  BY <1>4, <1>8, <1>9, <1>10 DEF Next, Step

(* Every event that is listed, waited for, set or picked is one that       *)
(* GetEventForWaiting has made and counted, also after races.              *)
THEOREM TypeCorrect == Spec => []TypeOK
<1> DEFINE PInv == Picked \subseteq 1 .. allocation_counter_
<1>1. Init => PInv
  <2> SUFFICES ASSUME Init PROVE Picked = {}  OBVIOUS
  <2>1. set = {} /\ \A x \in Threads : handles[x] = <<>>  BY DEF Init
  <2>2. Elements(<<>>) = {}  BY DEF Elements
  <2> QED  BY <2>1, <2>2 DEF Picked
<1>2. IInv /\ PInv /\ [Next]_vars => PInv'  BY PickedAreMade
<1>3. IInv /\ PInv => TypeOK  BY DEF IInv, EventsAccounted, TypeOK, HandedOut
<1> HIDE DEF PInv
<1> QED  BY <1>1, <1>2, <1>3, Invariance, PTL DEF Spec

(* However waits, timeouts, signals and the destructor interleave, each    *)
(* event is in the recycling list or belongs to one waiting thread, so     *)
(* that the counters the destructor compares are right; there is never     *)
(* more than one event for each thread.                                    *)
THEOREM EventsAreAccounted == Spec => []EventsAccounted
<1>1. IInv => EventsAccounted  BY DEF IInv
<1> QED  BY <1>1, Invariance, PTL

(* No wakeup is lost: a thread that has committed to a wait in TimedWait   *)
(* is where Signal and Broadcast look for it until they pick it, and one   *)
(* that was picked has its event set or is about to.                       *)
THEOREM WaitersAreReachable == Spec => []WaiterIsReachable
<1>1. IInv => WaiterIsReachable  BY DEF IInv
<1> QED  BY <1>1, Invariance, PTL

(* A wait in TimedWait can return without a signal of its own only after   *)
(* a timeout has left behind an event that was picked already.             *)
THEOREM SpuriousWakeupsFollowARace == Spec => []SpuriousOnlyAfterRace
<1>1. IInv => SpuriousOnlyAfterRace  BY DEF IInv, PickedOnce, Picked, SpuriousOnlyAfterRace
<1> QED  BY <1>1, Invariance, PTL
=============================================================================

------------------------ MODULE WaitableEvent_proofs ------------------------
(* Proofs about WaitableEvent, for any threads, events and bounds, and     *)
(* about WaitableEventWatcher, for any watchers and any number of watches. *)
EXTENDS MCWaitableEvent, SequenceTheorems, FiniteSetTheorems, WellFoundedInduction,
        NaturalsInduction, TLAPS

(* r is q without one entry x; or q itself, where there is none. *)
Erased(q, x, r) ==
  \/ r = q /\ \A i \in 1 .. Len(q) : q[i] # x
  \/ \E k \in 1 .. Len(q) :
       /\ q[k] = x
       /\ Len(r) = Len(q) - 1
       /\ \A i \in 1 .. Len(r) : r[i] = q[IF i < k THEN i ELSE i + 1]

(* What std::list::erase of the first match leaves: the list without one   *)
(* entry, in the same order.                                               *)
LEMMA RemoveFirstEntry ==
  ASSUME NEW q \in Seq(Threads), NEW x \in Threads, NEW r, r = RemoveFirst(q, x)
  PROVE  r \in Seq(Threads) /\ Erased(q, x, r)
<1> DEFINE I == {i \in 1 .. Len(q) : q[i] = x}
           k == CHOOSE m \in I : \A n \in I : m <= n
<1>1. CASE I = {}
  <2>1. ~ \E i \in 1 .. Len(q) : q[i] = x  BY <1>1
  <2>2. RemoveFirst(q, x) = q  BY <2>1 DEF RemoveFirst
  <2> QED  BY <2>1, <2>2 DEF Erased
<1>2. CASE I # {}
  <2>1. I \subseteq Nat  BY LenProperties
  <2>2. PICK m \in I : \A n \in I : ~ (n < m)
    <3> DEFINE R == OpToRel(<, Nat)
    <3>1. IsWellFoundedOn(R, Nat)  BY NatLessThanWellFounded
    <3>2. \A n, m \in Nat : n < m => <<n, m>> \in R  BY DEF OpToRel
    <3> HIDE DEF R, I
    <3>3. PICK m \in I : \A n \in I : ~ (<<n, m>> \in R)
      BY <1>2, <2>1, <3>1, WFMin
    <3> QED  BY <2>1, <3>2, <3>3
  <2>3. k \in I  BY <2>1, <2>2
  <2>4. \E i \in 1 .. Len(q) : q[i] = x  BY <1>2
  <2>5. SelectInSeq(q, LAMBDA v : v = x) = k  BY <1>2 DEF SelectInSeq, Min
  <2>6. RemoveFirst(q, x) = SubSeq(q, 1, k - 1) \o SubSeq(q, k + 1, Len(q))
    BY <2>4, <2>5 DEF RemoveFirst, RemoveAt
  <2>7. k \in 1 .. Len(q) /\ q[k] = x  BY <2>3
  <2> HIDE DEF k, I
  <2>8. /\ r \in Seq(Threads) /\ Len(r) = Len(q) - 1
        /\ \A i \in 1 .. Len(r) : r[i] = q[IF i < k THEN i ELSE i + 1]
    <3> DEFINE a == SubSeq(q, 1, k - 1)
               b == SubSeq(q, k + 1, Len(q))
    <3>1. a \in Seq(Threads) /\ Len(a) = k - 1 /\ \A i \in 1 .. k - 1 : a[i] = q[i]  BY <2>7
    <3>2. b \in Seq(Threads) /\ Len(b) = Len(q) - k /\ \A i \in 1 .. Len(q) - k : b[i] = q[k + i]
      BY <2>7
    <3>3. r = a \o b  BY <2>6
    <3> HIDE DEF a, b
    <3>4. /\ r \in Seq(Threads) /\ Len(r) = Len(a) + Len(b)
          /\ \A i \in 1 .. Len(a) + Len(b) : r[i] = IF i <= Len(a) THEN a[i] ELSE b[i - Len(a)]
      <4>1. a \in Seq(Threads) /\ b \in Seq(Threads)  BY <3>1, <3>2
      <4>2. /\ a \o b \in Seq(Threads) /\ Len(a \o b) = Len(a) + Len(b)
            /\ \A i \in 1 .. Len(a) + Len(b) :
                 (a \o b)[i] = IF i <= Len(a) THEN a[i] ELSE b[i - Len(a)]
        BY <4>1, ConcatProperties, Zenon
      <4> QED  BY <3>3, <4>2
    <3>5. Len(a) + Len(b) = Len(q) - 1  BY <2>7, <3>1, <3>2
    <3>6. ASSUME NEW i \in 1 .. Len(q) - 1 PROVE r[i] = q[IF i < k THEN i ELSE i + 1]
      <4>1. CASE i < k  BY <2>7, <3>1, <3>4, <3>5, <4>1
      <4>2. CASE ~ (i < k)
        <5>1. r[i] = b[i - (k - 1)]  BY <2>7, <3>1, <3>4, <3>5, <4>2
        <5>2. i - (k - 1) \in 1 .. Len(q) - k /\ k + (i - (k - 1)) = i + 1  BY <2>7, <4>2
        <5> QED  BY <3>2, <4>2, <5>1, <5>2
      <4> QED  BY <4>1, <4>2
    <3> QED  BY <3>4, <3>5, <3>6
  <2> QED  BY <2>7, <2>8 DEF Erased
<1> QED  BY <1>1, <1>2

(* The entries of a wait-list are threads. *)
LEMMA EntryTyped ==
  ASSUME TypeOK
  PROVE  \A f \in Events : \A i \in 1 .. Len(waiters_[f]) : waiters_[f][i] \in Threads
<1> SUFFICES ASSUME NEW f \in Events, NEW i \in 1 .. Len(waiters_[f])
             PROVE  waiters_[f][i] \in Threads
  OBVIOUS
<1> DEFINE q == waiters_[f]
<1>1. q \in Seq(Threads)  BY DEF TypeOK
<1> HIDE DEF q
<1>2. \A j \in 1 .. Len(q) : q[j] \in Threads  BY <1>1
<1> QED  BY <1>2 DEF q

(* Appending to a list, and what keeps its entries distinct. *)
LEMMA AppendEntry ==
  ASSUME NEW S, NEW q \in Seq(S), NEW x \in S
  PROVE  /\ Append(q, x) \in Seq(S) /\ Len(Append(q, x)) = Len(q) + 1 /\ Append(q, x) # <<>>
         /\ \A i \in 1 .. Len(q) : Append(q, x)[i] = q[i]
         /\ Append(q, x)[Len(q) + 1] = x
BY AppendProperties

LEMMA AppendDistinct ==
  ASSUME NEW S, NEW q \in Seq(S), NEW x \in S,
         \A i, j \in 1 .. Len(q) : q[i] = q[j] => i = j,
         \A i \in 1 .. Len(q) : q[i] # x
  PROVE  \A i, j \in 1 .. Len(Append(q, x)) : Append(q, x)[i] = Append(q, x)[j] => i = j
<1> DEFINE r == Append(q, x)
<1>1. /\ Len(r) = Len(q) + 1 /\ r[Len(q) + 1] = x /\ Len(q) \in Nat
      /\ \A i \in 1 .. Len(q) : r[i] = q[i]
  BY AppendEntry
<1> HIDE DEF r
<1>2. \A i, j \in 1 .. Len(r) : r[i] = r[j] => i = j  BY <1>1
<1> QED  BY <1>2 DEF r

(* Assigning fields of a SyncWaiter. *)
LEMMA SyncWaiterFields ==
  ASSUME NEW r \in SyncWaiter
  PROVE  /\ r.event \in Events \cup {NoEvent}
         /\ \A b, c \in BOOLEAN :
              /\ [r EXCEPT !.held = b] \in SyncWaiter
              /\ [r EXCEPT !.fired = b, !.held = c] \in SyncWaiter
              /\ [r EXCEPT !.held = b, !.woken = c] \in SyncWaiter
BY DEF SyncWaiter

(* Nothing but the counters of the bounds moves. *)
LEMMA IdleKeeps ==
  ASSUME IInv, UNCHANGED <<kernelVars, sw, localVars>>,
         calls' \in 0 .. MaxCalls, spurious' \in 0 .. MaxSpurious
  PROVE  IInv'
BY DEF IInv, TypeOK, LocksMatch, Holds, FramesMatch, Frame, LockedAreUnset, Signalling,
       SetEventHasNoWaiter, EntriesLive, EntryLive, InWait, Passed, EntriesDistinct,
       kernelVars, localVars

(* A step of t that touches no event: it keeps the invariant if it keeps   *)
(* the locks t holds and its entries in the wait-lists justified.          *)
LEMMA LocalStepKeeps ==
  ASSUME IInv, NEW t \in Threads, UNCHANGED kernelVars, TypeOK', Frame(t)',
         \A x \in Threads \ {t} : /\ pc'[x] = pc[x] /\ call'[x] = call[x] /\ evs'[x] = evs[x]
                                  /\ todo'[x] = todo[x] /\ cursor'[x] = cursor[x]
                                  /\ sw'[x] = sw[x],
         pc[t] \notin Signalling, pc'[t] \notin Signalling,
         \A e \in Events : Holds(t, e)' <=> Holds(t, e),
         pc'[t] = "unwind" <=> pc[t] = "unwind",
         \A e \in Events : InWait(t, e) /\ (sw[t].event # e \/ call[t] = "TimedWait")
                      => InWait(t, e)' /\ (sw'[t].event # e \/ call'[t] = "TimedWait")
  PROVE  IInv'
<1> USE DEF IInv
<1>1. UNCHANGED <<signaled_, lock_, waiters_>>  BY DEF kernelVars
<1>2. \A x \in Threads \ {t}, e \in Events : Holds(x, e)' <=> Holds(x, e)  BY DEF Holds
<1>3. \A x \in Threads, e \in Events : Holds(x, e)' <=> Holds(x, e)  BY <1>2
<1>4. LocksMatch'  BY <1>1, <1>3 DEF LocksMatch
<1>5. FramesMatch'
  <2> SUFFICES ASSUME NEW x \in Threads \ {t} PROVE Frame(x)'
    BY DEF FramesMatch
  <2> QED  BY <1>1 DEF FramesMatch, Frame
<1>6. LockedAreUnset'
  <2>1. \A x \in Threads : pc'[x] = "unwind" <=> pc[x] = "unwind"  OBVIOUS
  <2> QED  BY <1>1, <1>3, <2>1 DEF LockedAreUnset
<1>7. SetEventHasNoWaiter'  BY <1>1 DEF SetEventHasNoWaiter
<1>8. EntriesLive'
  <2> SUFFICES ASSUME NEW e \in Events, NEW i \in 1 .. Len(waiters_[e])
               PROVE  EntryLive(e, i)'
    BY <1>1 DEF EntriesLive
  <2>1. EntryLive(e, i) /\ waiters_[e][i] \in Threads  BY DEF EntriesLive, TypeOK
  <2>2. Passed(e, i) => Passed(e, i)'
    <3>1. \A s \in Threads : pc[s] \in Signalling => s # t  OBVIOUS
    <3> QED  BY <1>1, <3>1 DEF Passed, Signalling
  <2>3. CASE waiters_[e][i] = t  BY <1>1, <2>1, <2>2, <2>3 DEF EntryLive
  <2>4. CASE waiters_[e][i] # t  BY <1>1, <2>1, <2>2, <2>4 DEF EntryLive, InWait
  <2> QED  BY <2>3, <2>4
<1>9. EntriesDistinct'  BY <1>1 DEF EntriesDistinct
<1> QED  BY <1>4, <1>5, <1>6, <1>7, <1>8, <1>9

LEMMA ExpireKeeps ==
  ASSUME IInv, NEW t \in Threads, Expire(t)
  PROVE  IInv'
<1> USE EventAssumption DEF IInv
<1>1. UNCHANGED kernelVars /\ pc[t] \notin Signalling /\ pc'[t] \notin Signalling
      /\ (pc'[t] = "unwind" <=> pc[t] = "unwind")
  BY DEF Expire, TypeOK, Signalling
<1>2. TypeOK'  BY DEF Expire, TypeOK, Labels, kernelVars
<1>3. Frame(t)'  BY DEF Expire, TypeOK, FramesMatch, Frame, Signalling, kernelVars
<1>4. \A x \in Threads \ {t} : /\ pc'[x] = pc[x] /\ call'[x] = call[x] /\ evs'[x] = evs[x]
                                 /\ todo'[x] = todo[x] /\ cursor'[x] = cursor[x]
                                 /\ sw'[x] = sw[x]
  BY DEF Expire, TypeOK
<1>5. \A e \in Events : Holds(t, e)' <=> Holds(t, e)
  BY DEF Expire, TypeOK, FramesMatch, Frame, Holds, Signalling
<1>6. \A e \in Events : InWait(t, e) /\ (sw[t].event # e \/ call[t] = "TimedWait")
                   => InWait(t, e)' /\ (sw'[t].event # e \/ call'[t] = "TimedWait")
  BY DEF Expire, TypeOK, InWait
<1> QED  BY <1>1, <1>2, <1>3, <1>4, <1>5, <1>6, LocalStepKeeps

LEMMA StopWaitingKeeps ==
  ASSUME IInv, NEW t \in Threads, NEW e \in Events, StopWaiting(t, e)
  PROVE  IInv'
<1> USE EventAssumption DEF IInv
<1>1. UNCHANGED kernelVars /\ pc[t] \notin Signalling /\ pc'[t] \notin Signalling
      /\ (pc'[t] = "unwind" <=> pc[t] = "unwind")
  BY DEF StopWaiting, Goto, TypeOK, Signalling
<1>2. TypeOK'
  <2>1. sw' \in [Threads -> SyncWaiter]
    <3>1. [sw[t] EXCEPT !.fired = TRUE, !.held = FALSE] \in SyncWaiter
      BY SyncWaiterFields DEF TypeOK
    <3> QED  BY <3>1 DEF StopWaiting, TypeOK
  <2>2. pc' \in [Threads -> Labels]  BY DEF StopWaiting, Goto, TypeOK, Labels
  <2>3. result' \in [Threads -> Events \cup {NoEvent}]  BY DEF StopWaiting, TypeOK
  <2>4. todo' \in [Threads -> SUBSET Events]  BY DEF StopWaiting, TypeOK
  <2> QED  BY <2>1, <2>2, <2>3, <2>4 DEF StopWaiting, TypeOK, kernelVars
<1>3. Frame(t)'  BY DEF StopWaiting, Goto, TypeOK, FramesMatch, Frame, Signalling, kernelVars
<1>4. \A x \in Threads \ {t} : /\ pc'[x] = pc[x] /\ call'[x] = call[x] /\ evs'[x] = evs[x]
                                 /\ todo'[x] = todo[x] /\ cursor'[x] = cursor[x]
                                 /\ sw'[x] = sw[x]
  BY DEF StopWaiting, Goto, TypeOK
<1>5. \A f \in Events : Holds(t, f)' <=> Holds(t, f)
  BY DEF StopWaiting, Goto, TypeOK, FramesMatch, Frame, Holds, Signalling
<1>6. \A f \in Events : InWait(t, f) /\ (sw[t].event # f \/ call[t] = "TimedWait")
                   => InWait(t, f)' /\ (sw'[t].event # f \/ call'[t] = "TimedWait")
  BY DEF StopWaiting, Goto, TypeOK, InWait
<1> QED  BY <1>1, <1>2, <1>3, <1>4, <1>5, <1>6, LocalStepKeeps

LEMMA CvWaitKeeps ==
  ASSUME IInv, NEW t \in Threads, CvWait(t)
  PROVE  IInv'
<1> USE EventAssumption DEF IInv
<1>1. UNCHANGED kernelVars /\ pc[t] \notin Signalling /\ pc'[t] \notin Signalling
      /\ (pc'[t] = "unwind" <=> pc[t] = "unwind")
  BY DEF CvWait, Goto, TypeOK, Signalling
<1>2. TypeOK'
  <2>1. sw' \in [Threads -> SyncWaiter]
    <3>1. [sw[t] EXCEPT !.held = FALSE, !.woken = FALSE] \in SyncWaiter
      BY SyncWaiterFields DEF TypeOK
    <3> QED  BY <3>1 DEF CvWait, Goto, TypeOK
  <2>3. pc' \in [Threads -> Labels]  BY DEF CvWait, Goto, TypeOK, Labels
  <2> QED  BY <2>1, <2>3 DEF CvWait, Goto, TypeOK, kernelVars
<1>3. Frame(t)'  BY DEF CvWait, Goto, TypeOK, FramesMatch, Frame, Signalling, kernelVars
<1>4. \A x \in Threads \ {t} : /\ pc'[x] = pc[x] /\ call'[x] = call[x] /\ evs'[x] = evs[x]
                                 /\ todo'[x] = todo[x] /\ cursor'[x] = cursor[x]
                                 /\ sw'[x] = sw[x]
  BY DEF CvWait, Goto, TypeOK
<1>5. \A e \in Events : Holds(t, e)' <=> Holds(t, e)
  BY DEF CvWait, Goto, TypeOK, FramesMatch, Frame, Holds, Signalling
<1>6. \A e \in Events : InWait(t, e) /\ (sw[t].event # e \/ call[t] = "TimedWait")
                   => InWait(t, e)' /\ (sw'[t].event # e \/ call'[t] = "TimedWait")
  BY DEF CvWait, Goto, TypeOK, InWait
<1> QED  BY <1>1, <1>2, <1>3, <1>4, <1>5, <1>6, LocalStepKeeps

LEMMA WakeKeeps ==
  ASSUME IInv, NEW t \in Threads, Wake(t)
  PROVE  IInv'
<1> USE EventAssumption DEF IInv
<1>1. UNCHANGED kernelVars /\ pc[t] \notin Signalling /\ pc'[t] \notin Signalling
      /\ (pc'[t] = "unwind" <=> pc[t] = "unwind")
  BY DEF Wake, CvReturn, Goto, TypeOK, Signalling
<1>2. TypeOK'
  <2>1. sw' \in [Threads -> SyncWaiter]
    <3>1. [sw[t] EXCEPT !.held = TRUE] \in SyncWaiter  BY SyncWaiterFields DEF TypeOK
    <3> QED  BY <3>1 DEF Wake, CvReturn, Goto, TypeOK
  <2>3. pc' \in [Threads -> Labels]  BY DEF Wake, CvReturn, Goto, TypeOK, Labels
  <2> QED  BY <2>1, <2>3 DEF Wake, CvReturn, Goto, TypeOK, kernelVars
<1>3. Frame(t)'  BY DEF Wake, CvReturn, Goto, TypeOK, FramesMatch, Frame, Signalling, kernelVars
<1>4. \A x \in Threads \ {t} : /\ pc'[x] = pc[x] /\ call'[x] = call[x] /\ evs'[x] = evs[x]
                                 /\ todo'[x] = todo[x] /\ cursor'[x] = cursor[x]
                                 /\ sw'[x] = sw[x]
  BY DEF Wake, CvReturn, Goto, TypeOK
<1>5. \A e \in Events : Holds(t, e)' <=> Holds(t, e)
  BY DEF Wake, CvReturn, Goto, TypeOK, FramesMatch, Frame, Holds, Signalling
<1>6. \A e \in Events : InWait(t, e) /\ (sw[t].event # e \/ call[t] = "TimedWait")
                   => InWait(t, e)' /\ (sw'[t].event # e \/ call'[t] = "TimedWait")
  BY DEF Wake, CvReturn, Goto, TypeOK, InWait
<1> QED  BY <1>1, <1>2, <1>3, <1>4, <1>5, <1>6, LocalStepKeeps

LEMMA SpuriousWakeKeeps ==
  ASSUME IInv, NEW t \in Threads, SpuriousWake(t)
  PROVE  IInv'
<1> USE EventAssumption DEF IInv
<1>1. UNCHANGED kernelVars /\ pc[t] \notin Signalling /\ pc'[t] \notin Signalling
      /\ (pc'[t] = "unwind" <=> pc[t] = "unwind")
  BY DEF SpuriousWake, CvReturn, Goto, TypeOK, Signalling
<1>2. TypeOK'
  <2>1. spurious' \in 0 .. MaxSpurious  BY DEF SpuriousWake, TypeOK
  <2>2. sw' \in [Threads -> SyncWaiter]
    <3>1. [sw[t] EXCEPT !.held = TRUE] \in SyncWaiter  BY SyncWaiterFields DEF TypeOK
    <3> QED  BY <3>1 DEF SpuriousWake, CvReturn, TypeOK
  <2>3. pc' \in [Threads -> Labels]
    BY DEF SpuriousWake, CvReturn, Goto, TypeOK, Labels
  <2> QED  BY <2>1, <2>2, <2>3 DEF SpuriousWake, CvReturn, TypeOK, kernelVars
<1>3. Frame(t)'
  BY DEF SpuriousWake, CvReturn, Goto, TypeOK, FramesMatch, Frame, Signalling, kernelVars
<1>4. \A x \in Threads \ {t} : /\ pc'[x] = pc[x] /\ call'[x] = call[x] /\ evs'[x] = evs[x]
                                 /\ todo'[x] = todo[x] /\ cursor'[x] = cursor[x]
                                 /\ sw'[x] = sw[x]
  BY DEF SpuriousWake, CvReturn, Goto, TypeOK
<1>5. \A e \in Events : Holds(t, e)' <=> Holds(t, e)
  BY DEF SpuriousWake, CvReturn, Goto, TypeOK, FramesMatch, Frame, Holds, Signalling
<1>6. \A e \in Events : InWait(t, e) /\ (sw[t].event # e \/ call[t] = "TimedWait")
                   => InWait(t, e)' /\ (sw'[t].event # e \/ call'[t] = "TimedWait")
  BY DEF SpuriousWake, CvReturn, Goto, TypeOK, InWait
<1> QED  BY <1>1, <1>2, <1>3, <1>4, <1>5, <1>6, LocalStepKeeps

LEMMA WaitManyKeeps ==
  ASSUME IInv, NEW t \in Threads, NEW E \in SUBSET Events, E # {}, WaitMany(t, E)
  PROVE  IInv'
<1> USE EventAssumption DEF IInv
<1>1. UNCHANGED kernelVars /\ pc[t] \notin Signalling /\ pc'[t] \notin Signalling
      /\ (pc'[t] = "unwind" <=> pc[t] = "unwind")
  BY DEF WaitMany, Call, Goto, TypeOK, Signalling
<1>2. TypeOK'  BY DEF WaitMany, Call, Goto, TypeOK, Labels, kernelVars
<1>3. Frame(t)'
  <2>1. pc'[t] = "lock" /\ call'[t] = "WaitMany" /\ evs'[t] = E /\ todo'[t] = E
    BY DEF WaitMany, Goto, TypeOK
  <2> QED  BY <2>1 DEF Frame, Signalling
<1>4. \A x \in Threads \ {t} : /\ pc'[x] = pc[x] /\ call'[x] = call[x] /\ evs'[x] = evs[x]
                                 /\ todo'[x] = todo[x] /\ cursor'[x] = cursor[x]
                                 /\ sw'[x] = sw[x]
  BY DEF WaitMany, Call, Goto, TypeOK
<1>5. \A e \in Events : Holds(t, e)' <=> Holds(t, e)
  BY DEF WaitMany, Call, Goto, TypeOK, FramesMatch, Frame, Holds, Signalling
<1>6. \A e \in Events : InWait(t, e) /\ (sw[t].event # e \/ call[t] = "TimedWait")
                   => InWait(t, e)' /\ (sw'[t].event # e \/ call'[t] = "TimedWait")
  BY DEF WaitMany, Call, Goto, TypeOK, InWait
<1> QED  BY <1>1, <1>2, <1>3, <1>4, <1>5, <1>6, LocalStepKeeps

LEMMA StopWaitingManyKeeps ==
  ASSUME IInv, NEW t \in Threads, StopWaitingMany(t)
  PROVE  IInv'
<1> USE EventAssumption DEF IInv
<1>1. UNCHANGED kernelVars /\ pc[t] \notin Signalling /\ pc'[t] \notin Signalling
      /\ (pc'[t] = "unwind" <=> pc[t] = "unwind")
  BY DEF StopWaitingMany, Goto, TypeOK, Signalling
<1>2. TypeOK'
  <2>1. sw' \in [Threads -> SyncWaiter]
    <3>1. [sw[t] EXCEPT !.held = FALSE] \in SyncWaiter  BY SyncWaiterFields DEF TypeOK
    <3> QED  BY <3>1 DEF StopWaitingMany, Goto, TypeOK
  <2>2. result' \in [Threads -> Events \cup {NoEvent}] /\ todo' \in [Threads -> SUBSET Events]
    <3>1. sw[t].event \in Events \cup {NoEvent}  BY SyncWaiterFields DEF TypeOK
    <3> QED  BY <3>1 DEF StopWaitingMany, Goto, TypeOK
  <2>3. pc' \in [Threads -> Labels]  BY DEF StopWaitingMany, Goto, TypeOK, Labels
  <2> QED  BY <2>1, <2>2, <2>3 DEF StopWaitingMany, Goto, TypeOK, kernelVars
<1>3. Frame(t)'
  <2>1. call'[t] = "WaitMany" /\ evs'[t] = evs[t] /\ evs[t] # {}
        /\ todo'[t] = evs[t] \ {sw[t].event}
    BY DEF StopWaitingMany, TypeOK, FramesMatch, Frame
  <2>2. CASE evs[t] = {sw[t].event}
    <3>1. pc'[t] = "idle"  BY <2>2 DEF StopWaitingMany, Goto, TypeOK
    <3> QED  BY <2>1, <2>2, <3>1 DEF Frame, Signalling
  <2>3. CASE evs[t] # {sw[t].event}
    <3>1. pc'[t] = "leave"  BY <2>3 DEF StopWaitingMany, Goto, TypeOK
    <3>2. todo'[t] # {}  BY <2>1, <2>3
    <3> QED  BY <2>1, <3>1, <3>2 DEF Frame, Signalling
  <2> QED  BY <2>2, <2>3
<1>4. \A x \in Threads \ {t} : /\ pc'[x] = pc[x] /\ call'[x] = call[x] /\ evs'[x] = evs[x]
                                 /\ todo'[x] = todo[x] /\ cursor'[x] = cursor[x]
                                 /\ sw'[x] = sw[x]
  BY DEF StopWaitingMany, Goto, TypeOK
<1>5. \A e \in Events : Holds(t, e)' <=> Holds(t, e)
  BY DEF StopWaitingMany, Goto, TypeOK, FramesMatch, Frame, Holds, Signalling
<1>6. \A e \in Events : InWait(t, e) /\ (sw[t].event # e \/ call[t] = "TimedWait")
                   => InWait(t, e)' /\ (sw'[t].event # e \/ call'[t] = "TimedWait")
  BY DEF StopWaitingMany, Goto, TypeOK, InWait
<1> QED  BY <1>1, <1>2, <1>3, <1>4, <1>5, <1>6, LocalStepKeeps

(* Reset and IsSignaled can only clear an event. *)
LEMMA ClearKeeps ==
  ASSUME IInv, TypeOK', UNCHANGED <<lock_, waiters_, sw, pc, call, evs, todo, cursor>>,
         \A e \in Events : signaled_'[e] => signaled_[e]
  PROVE  IInv'
BY DEF IInv, LocksMatch, Holds, FramesMatch, Frame, LockedAreUnset, Signalling,
       SetEventHasNoWaiter, EntriesLive, EntryLive, InWait, Passed, EntriesDistinct

LEMMA ResetKeeps ==
  ASSUME IInv, NEW t \in Threads, NEW e \in Events, Reset(t, e)
  PROVE  IInv'
<1>1. TypeOK'  BY EventAssumption DEF IInv, TypeOK, Reset, Call, localVars
<1>2. \A f \in Events : signaled_'[f] => signaled_[f]  BY DEF IInv, TypeOK, Reset
<1> QED  BY <1>1, <1>2, ClearKeeps DEF Reset, localVars

LEMMA IsSignaledKeeps ==
  ASSUME IInv, NEW t \in Threads, NEW e \in Events, IsSignaled(t, e)
  PROVE  IInv'
<1>1. signaled_' \in [Events -> BOOLEAN] /\ \A f \in Events : signaled_'[f] => signaled_[f]
  <2>1. CASE signaled_[e]
    <3> DEFINE m == e \in Manual
    <3>1. m \in BOOLEAN /\ signaled_' = [signaled_ EXCEPT ![e] = m]
      BY <2>1 DEF IsSignaled, Consume
    <3> HIDE DEF m
    <3> QED  BY <2>1, <3>1 DEF IInv, TypeOK
  <2>2. CASE ~ signaled_[e]  BY <2>2 DEF IsSignaled, IInv, TypeOK
  <2> QED  BY <2>1, <2>2
<1>2. result' \in [Threads -> Events \cup {NoEvent}] /\ calls' \in 0 .. MaxCalls
  BY EventAssumption DEF IsSignaled, Call, IInv, TypeOK
<1>3. TypeOK'  BY <1>1, <1>2 DEF IInv, TypeOK, IsSignaled, localVars
<1> QED  BY <1>1, <1>3, ClearKeeps DEF IsSignaled

LEMMA SignalKeeps ==
  ASSUME IInv, NEW t \in Threads, NEW e \in Events, Signal(t, e)
  PROVE  IInv'
<1> USE EventAssumption DEF IInv
<1>0. calls' \in 0 .. MaxCalls /\ spurious' \in 0 .. MaxSpurious
  BY DEF Signal, Call, TypeOK
<1>1. CASE signaled_[e]
  BY <1>0, <1>1, IdleKeeps DEF Signal, kernelVars, localVars
<1>2. CASE ~ signaled_[e]
  <2>1. /\ pc[t] = "idle" /\ lock_[e] = NoThread /\ todo[t] = {}
        /\ lock_' = [lock_ EXCEPT ![e] = t]
        /\ pc' = [pc EXCEPT ![t] = "fire"]
        /\ call' = [call EXCEPT ![t] = "Signal"]
        /\ evs' = [evs EXCEPT ![t] = {e}]
        /\ cursor' = [cursor EXCEPT ![t] = 1]
        /\ UNCHANGED <<signaled_, waiters_, sw, todo, deadline, result>>
    BY <1>2 DEF Signal, Call, Unlocked, Goto, FramesMatch, Frame
  <2>2. TypeOK'  BY <1>0, <2>1 DEF TypeOK, Labels
  <2>3. LocksMatch'
    <3> SUFFICES ASSUME NEW f \in Events, NEW u \in Threads
                 PROVE  lock_'[f] = u <=> Holds(u, f)'
      BY DEF LocksMatch
    <3>1. lock_[f] = u <=> Holds(u, f)  BY DEF LocksMatch
    <3>2. CASE u = t  BY <2>1, <3>1, <3>2 DEF TypeOK, Holds, Signalling
    <3>3. CASE u # t  BY <2>1, <3>1, <3>3 DEF TypeOK, Holds
    <3> QED  BY <3>2, <3>3
  <2>4. FramesMatch'
    <3> SUFFICES ASSUME NEW x \in Threads PROVE Frame(x)'
      BY DEF FramesMatch
    <3>1. CASE x = t  BY <2>1, <3>1 DEF TypeOK, Frame, Signalling
    <3>2. CASE x # t
      <4>1. /\ pc'[x] = pc[x] /\ call'[x] = call[x] /\ evs'[x] = evs[x] /\ cursor'[x] = cursor[x]
            /\ todo' = todo /\ waiters_' = waiters_
        BY <2>1, <3>2 DEF TypeOK
      <4> QED  BY <4>1 DEF FramesMatch, Frame
    <3> QED  BY <3>1, <3>2
  <2>5. LockedAreUnset'  BY <1>2, <2>1 DEF TypeOK, LockedAreUnset, Holds
  <2>6. SetEventHasNoWaiter'  BY <2>1 DEF SetEventHasNoWaiter
  <2>7. EntriesLive'
    <3> SUFFICES ASSUME NEW f \in Events, NEW i \in 1 .. Len(waiters_[f])
                 PROVE  EntryLive(f, i)'
      BY <2>1 DEF EntriesLive
    <3>1. EntryLive(f, i) /\ waiters_[f][i] \in Threads  BY EntryTyped DEF EntriesLive
    <3>2. Passed(f, i) => Passed(f, i)'  BY <2>1 DEF TypeOK, Passed
    <3>3. InWait(waiters_[f][i], f) => InWait(waiters_[f][i], f)' /\ waiters_[f][i] # t
      BY <2>1, <3>1 DEF TypeOK, InWait
    <3> QED  BY <2>1, <3>1, <3>2, <3>3 DEF EntryLive, TypeOK
  <2>8. EntriesDistinct'  BY <2>1 DEF EntriesDistinct
  <2> QED  BY <2>2, <2>3, <2>4, <2>5, <2>6, <2>7, <2>8
<1> QED  BY <1>1, <1>2

LEMMA AcceptEffect ==
  ASSUME TypeOK, NEW u \in Threads, NEW e \in Events, Accept(u, e)
  PROVE  /\ sw' \in [Threads -> SyncWaiter]
         /\ \A x \in Threads \ {u} : sw'[x] = sw[x]
         /\ sw'[u].event \in {sw[u].event, e}
<1>1. CASE sw[u].fired  BY <1>1 DEF Accept, TypeOK
<1>2. CASE ~ sw[u].fired
  <2> DEFINE w == pc[u] = "blocked"
             r == [sw[u] EXCEPT !.fired = TRUE, !.event = e, !.woken = w]
  <2>1. sw' = [sw EXCEPT ![u] = r]  BY <1>2 DEF Accept
  <2>2. w \in BOOLEAN  OBVIOUS
  <2> HIDE DEF w
  <2>3. sw[u] \in SyncWaiter /\ sw \in [Threads -> SyncWaiter]  BY DEF TypeOK
  <2>4. r \in SyncWaiter /\ r.event = e  BY <2>2, <2>3 DEF SyncWaiter
  <2> HIDE DEF r
  <2> QED  BY <2>1, <2>3, <2>4
<1> QED  BY <1>1, <1>2

LEMMA FireKeeps ==
  ASSUME IInv, NEW t \in Threads, NEW e \in Events, Fire(t, e)
  PROVE  IInv'
<1> USE EventAssumption DEF IInv
<1> DEFINE u == waiters_[e][cursor[t]]
<1>1. /\ pc[t] = "fire" /\ evs[t] = {e} /\ cursor[t] \in 1 .. Len(waiters_[e])
      /\ u \in Threads /\ lock_[e] = t
      /\ UNCHANGED <<signaled_, lock_, waiters_, call, evs, todo, deadline, result, calls,
             spurious>>
  BY DEF Fire, kernelVars, TypeOK, LocksMatch, Holds, Signalling
<1>2. /\ sw' \in [Threads -> SyncWaiter]
      /\ \A x \in Threads \ {u} : sw'[x] = sw[x]
      /\ sw'[u].event \in {sw[u].event, e}
  <2>1. Accept(u, e)  BY DEF Fire
  <2> HIDE DEF u
  <2> QED  BY <1>1, <2>1, AcceptEffect
<1>3. /\ e \in Manual => cursor' = [cursor EXCEPT ![t] = @ + 1] /\ pc' = pc
      /\ e \notin Manual => /\ cursor' = cursor /\ cursor[t] = 1
                            /\ \E l \in {"popRetry", "popReturn"} : pc' = [pc EXCEPT ![t] = l]
  BY <1>1 DEF Fire, Goto, FramesMatch, Frame, Signalling
<1> HIDE DEF u
<1>4. \A x \in Threads \ {t} : pc'[x] = pc[x] /\ cursor'[x] = cursor[x]  BY <1>3 DEF TypeOK
<1>5. pc'[t] \in Signalling /\ cursor'[t] \in Nat \ {0}  BY <1>1, <1>3 DEF TypeOK, Signalling
<1>6. \A x \in Threads, f \in Events : Holds(x, f)' <=> Holds(x, f)
  BY <1>1, <1>4, <1>5 DEF Holds, Signalling
<1>7. TypeOK'
  <2>1. pc' \in [Threads -> Labels]  BY <1>3 DEF TypeOK, Labels
  <2>2. cursor' \in [Threads -> Nat \ {0}]
    <3>1. CASE e \in Manual
      <4>1. cursor[t] + 1 \in Nat \ {0}  BY <1>1
      <4> QED  BY <1>3, <3>1, <4>1 DEF TypeOK
    <3>2. CASE e \notin Manual  BY <1>3, <3>2 DEF TypeOK
    <3> QED  BY <3>1, <3>2
  <2> QED  BY <1>1, <1>2, <2>1, <2>2 DEF TypeOK
<1>8. LocksMatch'  BY <1>1, <1>6 DEF LocksMatch
<1>9. FramesMatch'
  <2> SUFFICES ASSUME NEW x \in Threads PROVE Frame(x)'
    BY DEF FramesMatch
  <2>1. CASE x # t  BY <1>1, <1>4, <2>1 DEF FramesMatch, Frame
  <2>2. CASE x = t
    <3>1. waiters_'[e] # <<>> /\ evs'[t] = {e} /\ todo'[t] = todo[t]  BY <1>1
    <3>2. todo[t] = {}  BY <1>1 DEF FramesMatch, Frame
    <3>3. e \notin Manual => cursor'[t] = 1  BY <1>3
    <3>4. e \in Manual => pc'[t] = "fire"  BY <1>1, <1>3
    <3> QED  BY <1>1, <1>5, <2>2, <3>1, <3>2, <3>3, <3>4 DEF Frame, Signalling
  <2> QED  BY <2>1, <2>2
<1>10. LockedAreUnset'
  <2>1. \A x \in Threads : pc'[x] = "unwind" <=> pc[x] = "unwind"
    BY <1>1, <1>4, <1>5 DEF Signalling
  <2> QED  BY <1>1, <1>6, <2>1 DEF LockedAreUnset
<1>11. SetEventHasNoWaiter'  BY <1>1 DEF SetEventHasNoWaiter
<1>12. EntriesLive'
  <2> SUFFICES ASSUME NEW f \in Events, NEW i \in 1 .. Len(waiters_[f])
               PROVE  EntryLive(f, i)'
    BY <1>1 DEF EntriesLive
  <2>1. EntryLive(f, i) /\ waiters_[f][i] \in Threads  BY EntryTyped DEF EntriesLive
  <2>2. Passed(f, i) => Passed(f, i)'
    <3> SUFFICES ASSUME NEW s \in Threads, lock_[f] = s,
                        \/ pc[s] = "fire" /\ i < cursor[s]
                        \/ pc[s] \in {"popRetry", "popReturn"} /\ i = 1
                 PROVE  Passed(f, i)'
      BY DEF Passed
    <3>1. CASE s = t  BY <1>1, <1>3, <3>1 DEF TypeOK, Passed
    <3>2. CASE s # t  BY <1>1, <1>4, <3>2 DEF Passed
    <3> QED  BY <3>1, <3>2
  <2>3. f = e /\ i = cursor[t] => Passed(f, i)'
    <3> SUFFICES ASSUME f = e, i = cursor[t] PROVE Passed(f, i)'
      OBVIOUS
    <3>1. CASE e \in Manual
      <4>1. cursor'[t] = cursor[t] + 1 /\ pc'[t] = "fire"  BY <1>1, <1>3, <3>1 DEF TypeOK
      <4>2. cursor[t] < cursor'[t]  BY <1>1, <4>1
      <4> QED  BY <1>1, <4>1, <4>2 DEF Passed
    <3>2. CASE e \notin Manual
      <4>1. pc'[t] \in {"popRetry", "popReturn"} /\ cursor[t] = 1  BY <1>1, <1>3, <3>2 DEF TypeOK
      <4> QED  BY <1>1, <4>1 DEF Passed
    <3> QED  BY <3>1, <3>2
  <2>4. InWait(waiters_[f][i], f) => InWait(waiters_[f][i], f)'
    BY <1>1, <1>4, <2>1 DEF InWait
  <2>5. ~ (f = e /\ i = cursor[t]) /\ sw[waiters_[f][i]].event # f => sw'[waiters_[f][i]].event # f
    BY <1>1, <1>2, <2>1, SMTT(30) DEF EntriesDistinct, u
  <2> QED  BY <1>1, <2>1, <2>2, <2>3, <2>4, <2>5 DEF EntryLive
<1>13. EntriesDistinct'  BY <1>1 DEF EntriesDistinct
<1> QED  BY <1>7, <1>8, <1>9, <1>10, <1>11, <1>12, <1>13

LEMMA PopFrontKeeps ==
  ASSUME IInv, NEW t \in Threads, NEW e \in Events, PopFront(t, e)
  PROVE  IInv'
<1> USE EventAssumption DEF IInv
<1> DEFINE q == waiters_[e]
<1>1. /\ pc[t] \in {"popRetry", "popReturn"} /\ evs[t] = {e}
      /\ waiters_' = [waiters_ EXCEPT ![e] = Tail(q)]
      /\ UNCHANGED <<signaled_, sw, call, evs, todo, deadline, cursor, result, calls, spurious>>
  BY DEF PopFront
<1>2. /\ pc[t] = "popRetry" => pc' = [pc EXCEPT ![t] = "fire"] /\ lock_' = lock_
      /\ pc[t] = "popReturn" => /\ pc' = [pc EXCEPT ![t] = "idle"]
                                /\ lock_' = [lock_ EXCEPT ![e] = NoThread]
  BY DEF PopFront, Goto
<1>3. e \notin Manual /\ cursor[t] = 1 /\ todo[t] = {} /\ q # <<>>
  BY <1>1 DEF FramesMatch, Frame, Signalling
<1>4. lock_[e] = t  BY <1>1 DEF LocksMatch, Holds, Signalling
<1>5. q \in Seq(Threads)  BY DEF TypeOK
<1> HIDE DEF q
<1>6. /\ Tail(q) \in Seq(Threads) /\ Len(Tail(q)) = Len(q) - 1
      /\ \A i \in 1 .. Len(Tail(q)) : i + 1 \in 1 .. Len(q) /\ Tail(q)[i] = q[i + 1]
  BY <1>3, <1>5, HeadTailProperties
<1>7. /\ waiters_'[e] = Tail(q) /\ waiters_[e] = q
      /\ \A f \in Events \ {e} : waiters_'[f] = waiters_[f]
  BY <1>1 DEF TypeOK, q
<1>8. \A x \in Threads \ {t} : pc'[x] = pc[x]  BY <1>1, <1>2 DEF TypeOK
<1>9. /\ \A f \in Events \ {e} : lock_'[f] = lock_[f]
      /\ \/ pc'[t] = "fire" /\ lock_'[e] = t
         \/ pc'[t] = "idle" /\ lock_'[e] = NoThread
  BY <1>1, <1>2, <1>4 DEF TypeOK
<1>10. TypeOK'
  <2>1. waiters_' \in [Events -> Seq(Threads)]  BY <1>1, <1>6 DEF TypeOK
  <2>2. pc' \in [Threads -> Labels]
    <3>1. \E l \in Labels : pc' = [pc EXCEPT ![t] = l]  BY <1>1, <1>2 DEF Labels
    <3> QED  BY <3>1 DEF TypeOK
  <2>3. lock_' \in [Events -> Threads \cup {NoThread}]  BY <1>1, <1>2 DEF TypeOK
  <2> QED  BY <1>1, <2>1, <2>2, <2>3 DEF TypeOK
<1>11. LocksMatch'
  <2> SUFFICES ASSUME NEW f \in Events, NEW x \in Threads
               PROVE  lock_'[f] = x <=> Holds(x, f)'
    BY DEF LocksMatch
  <2>1. lock_[f] = x <=> Holds(x, f)  BY DEF LocksMatch
  <2>2. CASE x # t  BY <1>1, <1>4, <1>8, <1>9, <2>1, <2>2 DEF Holds
  <2>3. CASE x = t  BY <1>1, <1>3, <1>4, <1>9, <2>1, <2>3 DEF Holds, Signalling
  <2> QED  BY <2>2, <2>3
<1>12. FramesMatch'
  <2> SUFFICES ASSUME NEW x \in Threads PROVE Frame(x)'
    BY DEF FramesMatch
  <2>1. CASE x = t  BY <1>1, <1>3, <1>9, <2>1 DEF Frame, Signalling
  <2>2. CASE x # t
    <3>1. ASSUME pc[x] \in {"popRetry", "popReturn"}, NEW f \in evs[x]
          PROVE  f \notin Manual /\ waiters_'[f] # <<>>
      <4>1. PICK g \in Events : evs[x] = {g}  BY <3>1 DEF FramesMatch, Frame, Signalling
      <4>2. lock_[g] = x  BY <3>1, <4>1 DEF LocksMatch, Holds, Signalling
      <4>3. g # e  BY <1>4, <2>2, <4>2
      <4> QED  BY <1>7, <3>1, <4>1, <4>3 DEF FramesMatch, Frame
    <3>2. pc'[x] = pc[x] /\ Frame(x)  BY <1>8, <2>2 DEF FramesMatch
    <3> QED  BY <1>1, <3>1, <3>2 DEF Frame
  <2> QED  BY <2>1, <2>2
<1>13. LockedAreUnset'
  <2> SUFFICES ASSUME NEW f \in Events, NEW x \in Threads, Holds(x, f)', pc'[x] # "unwind"
               PROVE  ~ signaled_[f]
    BY <1>1 DEF LockedAreUnset
  <2>1. CASE x # t  BY <1>1, <1>8, <2>1 DEF LockedAreUnset, Holds
  <2>2. CASE x = t  BY <1>1, <1>9, <2>2 DEF LockedAreUnset, Holds, Signalling
  <2> QED  BY <2>1, <2>2
<1>14. SetEventHasNoWaiter'
  <2>1. ~ signaled_[e]  BY <1>1 DEF LockedAreUnset, Holds, Signalling
  <2> QED  BY <1>1, <1>7, <2>1 DEF SetEventHasNoWaiter
<1>15. EntriesLive'
  <2> SUFFICES ASSUME NEW f \in Events, NEW i \in 1 .. Len(waiters_'[f])
               PROVE  EntryLive(f, i)'
    BY DEF EntriesLive
  <2>1. \A x \in Threads : InWait(x, f) => InWait(x, f)'
    BY <1>1, <1>8 DEF InWait
  <2>2. CASE f = e
    <3>1. ~ Passed(e, i + 1)  BY <1>1, <1>4, <2>2 DEF Passed
    <3>2. i + 1 \in 1 .. Len(waiters_[e]) /\ waiters_'[e][i] = waiters_[e][i + 1]
      BY <1>6, <1>7, <2>2
    <3>3. waiters_[e][i + 1] \in Threads  BY <3>2 DEF TypeOK
    <3>4. EntryLive(e, i + 1)  BY <3>2 DEF EntriesLive
    <3> QED  BY <1>1, <2>1, <2>2, <3>1, <3>2, <3>3, <3>4 DEF EntryLive
  <2>3. CASE f # e
    <3>1. waiters_'[f] = waiters_[f]  BY <1>7, <2>3
    <3>2. Passed(f, i) => Passed(f, i)'
      <4> SUFFICES ASSUME NEW s \in Threads, lock_[f] = s,
                          \/ pc[s] = "fire" /\ i < cursor[s]
                          \/ pc[s] \in {"popRetry", "popReturn"} /\ i = 1
                   PROVE  Passed(f, i)'
        BY DEF Passed
      <4>1. s # t
        <5>1. ~ Holds(t, f)  BY <1>1, <2>3 DEF Holds, Signalling
        <5> QED  BY <5>1 DEF LocksMatch
      <4> QED  BY <1>1, <1>8, <1>9, <2>3, <4>1 DEF Passed
    <3>3. EntryLive(f, i) /\ waiters_[f][i] \in Threads  BY <3>1, EntryTyped DEF EntriesLive
    <3> QED  BY <1>1, <2>1, <3>1, <3>2, <3>3 DEF EntryLive
  <2> QED  BY <2>2, <2>3
<1>16. EntriesDistinct'
  <2> SUFFICES ASSUME NEW f \in Events, NEW i \in 1 .. Len(waiters_'[f]),
                      NEW j \in 1 .. Len(waiters_'[f]), waiters_'[f][i] = waiters_'[f][j]
               PROVE  i = j
    BY DEF EntriesDistinct
  <2>1. CASE f = e
    <3>1. q[i + 1] = q[j + 1] /\ i + 1 \in 1 .. Len(q) /\ j + 1 \in 1 .. Len(q)
      BY <1>6, <1>7, <2>1
    <3>2. i + 1 = j + 1  BY <1>7, <3>1 DEF EntriesDistinct
    <3> QED  BY <1>6, <1>7, <2>1, <3>2
  <2>2. CASE f # e  BY <1>7, <2>2 DEF EntriesDistinct
  <2> QED  BY <2>1, <2>2
<1> QED  BY <1>10, <1>11, <1>12, <1>13, <1>14, <1>15, <1>16

LEMMA SignalEndKeeps ==
  ASSUME IInv, NEW t \in Threads, NEW e \in Events, SignalEnd(t, e)
  PROVE  IInv'
<1> USE EventAssumption DEF IInv
<1>1. /\ pc[t] = "fire" /\ evs[t] = {e}
      /\ waiters_' = [waiters_ EXCEPT ![e] = <<>>]
      /\ signaled_' = [signaled_ EXCEPT ![e] = TRUE]
      /\ lock_' = [lock_ EXCEPT ![e] = NoThread]
      /\ pc' = [pc EXCEPT ![t] = "idle"]
      /\ UNCHANGED <<sw, call, evs, todo, deadline, cursor, result, calls, spurious>>
  BY DEF SignalEnd, Goto
<1>2. lock_[e] = t /\ todo[t] = {}
  BY <1>1 DEF LocksMatch, Holds, FramesMatch, Frame, Signalling
<1>3. \A x \in Threads \ {t} : pc'[x] = pc[x]  BY <1>1 DEF TypeOK
<1>4. /\ pc'[t] = "idle" /\ lock_'[e] = NoThread /\ waiters_'[e] = <<>>
      /\ \A f \in Events \ {e} : /\ lock_'[f] = lock_[f] /\ waiters_'[f] = waiters_[f]
                                 /\ signaled_'[f] = signaled_[f]
  BY <1>1 DEF TypeOK
<1>5. TypeOK'  BY <1>1 DEF TypeOK, Labels
<1>6. LocksMatch'
  <2> SUFFICES ASSUME NEW f \in Events, NEW x \in Threads
               PROVE  lock_'[f] = x <=> Holds(x, f)'
    BY DEF LocksMatch
  <2>1. lock_[f] = x <=> Holds(x, f)  BY DEF LocksMatch
  <2>2. CASE x # t  BY <1>1, <1>2, <1>3, <1>4, <2>1, <2>2 DEF Holds
  <2>3. CASE x = t  BY <1>1, <1>2, <1>4, <2>1, <2>3 DEF Holds, Signalling
  <2> QED  BY <2>2, <2>3
<1>7. FramesMatch'
  <2> SUFFICES ASSUME NEW x \in Threads PROVE Frame(x)'
    BY DEF FramesMatch
  <2>1. CASE x = t  BY <1>1, <1>2, <1>4, <2>1 DEF Frame, Signalling
  <2>2. CASE x # t
    <3>1. ASSUME pc[x] \in {"popRetry", "popReturn"}, NEW f \in evs[x]
          PROVE  f \notin Manual /\ waiters_'[f] # <<>>
      <4>1. PICK g \in Events : evs[x] = {g}  BY <3>1 DEF FramesMatch, Frame, Signalling
      <4>2. lock_[g] = x  BY <3>1, <4>1 DEF LocksMatch, Holds, Signalling
      <4>3. g # e  BY <1>2, <2>2, <4>2
      <4> QED  BY <1>4, <3>1, <4>1, <4>3 DEF FramesMatch, Frame
    <3>2. pc'[x] = pc[x] /\ Frame(x)  BY <1>3, <2>2 DEF FramesMatch
    <3> QED  BY <1>1, <3>1, <3>2 DEF Frame
  <2> QED  BY <2>1, <2>2
<1>8. LockedAreUnset'
  <2> SUFFICES ASSUME NEW f \in Events, NEW x \in Threads, Holds(x, f)', pc'[x] # "unwind"
               PROVE  ~ signaled_'[f]
    BY DEF LockedAreUnset
  <2>1. x # t  BY <1>1, <1>2, <1>4 DEF Holds, Signalling
  <2>2. Holds(x, f) /\ pc[x] # "unwind"  BY <1>1, <1>3, <2>1 DEF Holds
  <2>3. f # e  BY <1>2, <2>1, <2>2 DEF LocksMatch
  <2> QED  BY <1>4, <2>2, <2>3 DEF LockedAreUnset
<1>9. SetEventHasNoWaiter'  BY <1>4 DEF SetEventHasNoWaiter
<1>10. EntriesLive'
  <2> SUFFICES ASSUME NEW f \in Events, NEW i \in 1 .. Len(waiters_'[f])
               PROVE  EntryLive(f, i)'
    BY DEF EntriesLive
  <2>1. f # e
    <3>1. Len(waiters_'[e]) = 0  BY <1>4
    <3> QED  BY <3>1
  <2>2. waiters_'[f] = waiters_[f]  BY <1>4, <2>1
  <2>3. Passed(f, i) => Passed(f, i)'
    <3> SUFFICES ASSUME NEW s \in Threads, lock_[f] = s,
                        \/ pc[s] = "fire" /\ i < cursor[s]
                        \/ pc[s] \in {"popRetry", "popReturn"} /\ i = 1
                 PROVE  Passed(f, i)'
      BY DEF Passed
    <3>1. s # t
      <4>1. ~ Holds(t, f)  BY <1>1, <2>1 DEF Holds, Signalling
      <4> QED  BY <4>1 DEF LocksMatch
    <3> QED  BY <1>1, <1>3, <1>4, <2>1, <3>1 DEF Passed
  <2>4. EntryLive(f, i) /\ waiters_[f][i] \in Threads  BY <2>2, EntryTyped DEF EntriesLive
  <2>5. InWait(waiters_[f][i], f) => InWait(waiters_[f][i], f)'
    BY <1>1, <1>3, <2>4 DEF InWait
  <2> QED  BY <1>1, <2>2, <2>3, <2>4, <2>5 DEF EntryLive
<1>11. EntriesDistinct'  BY <1>4 DEF EntriesDistinct
<1> QED  BY <1>5, <1>6, <1>7, <1>8, <1>9, <1>10, <1>11

LEMMA ConsumeClears ==
  ASSUME IInv, NEW e \in Events, Consume(e), signaled_[e]
  PROVE  signaled_' \in [Events -> BOOLEAN] /\ \A f \in Events : signaled_'[f] => signaled_[f]
<1> DEFINE m == e \in Manual
<1>1. m \in BOOLEAN /\ signaled_' = [signaled_ EXCEPT ![e] = m]  BY DEF Consume
<1> HIDE DEF m
<1> QED  BY <1>1 DEF IInv, TypeOK

LEMMA TimedWaitKeeps ==
  ASSUME IInv, NEW t \in Threads, NEW e \in Events, NEW d \in {"never", "later"},
         TimedWait(t, e, d)
  PROVE  IInv'
<1>1. CASE signaled_[e]
  <2>1. Consume(e) /\ calls' \in 0 .. MaxCalls /\ result' \in [Threads -> Events \cup {NoEvent}]
        /\ UNCHANGED <<lock_, waiters_, sw, pc, call, evs, todo, cursor, deadline, spurious>>
    <3>1. calls' \in 0 .. MaxCalls  BY EventAssumption DEF TimedWait, Call, IInv, TypeOK
    <3> QED  BY <1>1, <3>1 DEF TimedWait, IInv, TypeOK
  <2>2. TypeOK'  BY <1>1, <2>1, ConsumeClears DEF IInv, TypeOK
  <2> QED  BY <1>1, <2>1, <2>2, ConsumeClears, ClearKeeps
<1>2. CASE ~ signaled_[e]
  <2> USE EventAssumption DEF IInv
  <2> DEFINE q == waiters_[e]
  <2>1. /\ pc[t] = "idle" /\ lock_[e] = NoThread
        /\ waiters_' = [waiters_ EXCEPT ![e] = Append(q, t)]
        /\ sw' = [sw EXCEPT ![t] = NewWaiter]
        /\ pc' = [pc EXCEPT ![t] = "check"]
        /\ call' = [call EXCEPT ![t] = "TimedWait"]
        /\ evs' = [evs EXCEPT ![t] = {e}]
        /\ deadline' = [deadline EXCEPT ![t] = d]
        /\ UNCHANGED <<signaled_, lock_, todo, cursor, result, spurious>>
    BY <1>2 DEF TimedWait, Call, Unlocked, Goto
  <2>2. calls' \in 0 .. MaxCalls  BY DEF TimedWait, Call, TypeOK
  <2>3. todo[t] = {}  BY <2>1 DEF FramesMatch, Frame
  <2>4. q \in Seq(Threads)  BY DEF TypeOK
  <2> HIDE DEF q
  <2>5. /\ Append(q, t) \in Seq(Threads) /\ Len(Append(q, t)) = Len(q) + 1 /\ Append(q, t) # <<>>
        /\ \A i \in 1 .. Len(q) : Append(q, t)[i] = q[i]
        /\ Append(q, t)[Len(q) + 1] = t
    BY <2>4, AppendEntry
  <2>6. /\ waiters_'[e] = Append(q, t) /\ waiters_[e] = q
        /\ \A f \in Events \ {e} : waiters_'[f] = waiters_[f]
    BY <2>1 DEF TypeOK, q
  <2>7. /\ pc'[t] = "check" /\ call'[t] = "TimedWait" /\ evs'[t] = {e}
        /\ \A x \in Threads \ {t} : /\ pc'[x] = pc[x] /\ call'[x] = call[x]
                                    /\ evs'[x] = evs[x] /\ sw'[x] = sw[x]
    BY <2>1 DEF TypeOK
  <2>8. TypeOK'
    <3>1. NewWaiter \in SyncWaiter  BY DEF NewWaiter, SyncWaiter
    <3>2. waiters_' \in [Events -> Seq(Threads)]  BY <2>1, <2>5 DEF TypeOK
    <3>3. sw' \in [Threads -> SyncWaiter]  BY <2>1, <3>1 DEF TypeOK
    <3>4. pc' \in [Threads -> Labels]  BY <2>1 DEF TypeOK, Labels
    <3>5. deadline' \in [Threads -> {"never", "later", "past"}]  BY <2>1 DEF TypeOK
    <3> QED  BY <2>1, <2>2, <3>2, <3>3, <3>4, <3>5 DEF TypeOK
  <2>9. LocksMatch'
    <3>1. \A x \in Threads, f \in Events : Holds(x, f)' <=> Holds(x, f)
      BY <2>1, <2>3, <2>7 DEF Holds, Signalling
    <3> QED  BY <2>1, <3>1 DEF LocksMatch
  <2>10. FramesMatch'
    <3> SUFFICES ASSUME NEW x \in Threads PROVE Frame(x)'
      BY DEF FramesMatch
    <3>1. CASE x = t  BY <2>1, <2>3, <2>7, <3>1 DEF Frame, Signalling
    <3>2. CASE x # t
      <4>1. \A f \in Events : waiters_[f] # <<>> => waiters_'[f] # <<>>  BY <2>5, <2>6
      <4>2. evs[x] \subseteq Events  BY DEF TypeOK
      <4> QED  BY <2>1, <2>7, <3>2, <4>1, <4>2 DEF FramesMatch, Frame
    <3> QED  BY <3>1, <3>2
  <2>11. LockedAreUnset'
    <3> SUFFICES ASSUME NEW f \in Events, NEW x \in Threads, Holds(x, f)', pc'[x] # "unwind"
                 PROVE  ~ signaled_[f]
      BY <2>1 DEF LockedAreUnset
    <3>1. x # t  BY <2>1, <2>3, <2>7 DEF Holds, Signalling
    <3> QED  BY <2>1, <2>7, <3>1 DEF LockedAreUnset, Holds
  <2>12. SetEventHasNoWaiter'  BY <1>2, <2>1, <2>6 DEF SetEventHasNoWaiter
  <2>13. NoThread \notin Threads /\ \A i : ~ Passed(e, i)  BY <2>1 DEF Passed
  <2>14. \A f \in Events : \A i \in 1 .. Len(waiters_[f]) : waiters_[f][i] = t => Passed(f, i)
    BY <2>1 DEF EntriesLive, EntryLive, InWait
  <2>15. EntriesLive'
    <3> SUFFICES ASSUME NEW f \in Events, NEW i \in 1 .. Len(waiters_'[f])
                 PROVE  EntryLive(f, i)'
      BY DEF EntriesLive
    <3>1. CASE f = e /\ i = Len(q) + 1
      <4>1. waiters_'[f][i] = t  BY <2>5, <2>6, <3>1
      <4>2. InWait(t, f)' BY <2>7, <3>1 DEF InWait
      <4> QED  BY <2>7, <4>1, <4>2 DEF EntryLive
    <3>2. CASE ~ (f = e /\ i = Len(q) + 1)
      <4>1. i \in 1 .. Len(waiters_[f]) /\ waiters_'[f][i] = waiters_[f][i]
        BY <2>4, <2>5, <2>6, <3>2
      <4>2. EntryLive(f, i) /\ waiters_[f][i] \in Threads  BY <4>1, EntryTyped DEF EntriesLive
      <4>3. Passed(f, i) => Passed(f, i)'
        <5>1. \A s \in Threads : pc[s] # "idle" => s # t  BY <2>1
        <5> QED  BY <2>1, <2>7, <5>1 DEF Passed
      <4>4. CASE waiters_[f][i] = t  BY <2>14, <4>1, <4>3, <4>4 DEF EntryLive
      <4>5. CASE waiters_[f][i] # t
        BY <2>1, <2>7, <4>1, <4>2, <4>3, <4>5 DEF EntryLive, InWait
      <4> QED  BY <4>4, <4>5
    <3> QED  BY <3>1, <3>2
  <2>16. EntriesDistinct'
    <3> SUFFICES ASSUME NEW f \in Events, NEW i \in 1 .. Len(waiters_'[f]),
                        NEW j \in 1 .. Len(waiters_'[f]), waiters_'[f][i] = waiters_'[f][j]
                 PROVE  i = j
      BY DEF EntriesDistinct
    <3>1. CASE f = e
      <4>1. \A k \in 1 .. Len(q) : q[k] # t  BY <2>6, <2>13, <2>14
      <4>2. \A k, l \in 1 .. Len(q) : q[k] = q[l] => k = l  BY <2>6 DEF EntriesDistinct
      <4> QED  BY <2>4, <2>6, <3>1, <4>1, <4>2, AppendDistinct, SMTT(30)
    <3>2. CASE f # e  BY <2>6, <3>2 DEF EntriesDistinct
    <3> QED  BY <3>1, <3>2
  <2> QED  BY <2>8, <2>9, <2>10, <2>11, <2>12, <2>15, <2>16
<1> QED  BY <1>1, <1>2

LEMMA FindSignaledKeeps ==
  ASSUME IInv, NEW t \in Threads, NEW e \in Events, FindSignaled(t, e)
  PROVE  IInv'
<1> USE EventAssumption DEF IInv
<1>1. /\ pc[t] = "lock" /\ signaled_[e] /\ Consume(e) /\ e \in todo[t]
      /\ todo' = [todo EXCEPT ![t] = evs[t] \ todo[t]]
      /\ UNCHANGED <<lock_, waiters_, sw, call, evs, deadline, cursor, calls, spurious>>
  BY DEF FindSignaled, LockForMany, NextToLock
<1>2. /\ todo[t] = evs[t] => pc' = [pc EXCEPT ![t] = "idle"]
      /\ todo[t] # evs[t] => pc' = [pc EXCEPT ![t] = "unwind"]
  BY DEF FindSignaled, Goto
<1>3. signaled_' \in [Events -> BOOLEAN] /\ \A f \in Events : signaled_'[f] => signaled_[f]
  BY <1>1, ConsumeClears
<1>4. \A x \in Threads \ {t} : pc'[x] = pc[x] /\ todo'[x] = todo[x]  BY <1>1, <1>2 DEF TypeOK
<1>5. /\ todo'[t] = evs[t] \ todo[t] /\ todo[t] \subseteq evs[t]
      /\ \/ pc'[t] = "idle" /\ todo'[t] = {}
         \/ pc'[t] = "unwind" /\ todo'[t] # {}
  <2>1. todo'[t] = evs[t] \ todo[t] /\ todo[t] \subseteq evs[t]
    BY <1>1 DEF TypeOK, FramesMatch, Frame
  <2>2. CASE todo[t] = evs[t]  BY <1>2, <2>1, <2>2 DEF TypeOK
  <2>3. CASE todo[t] # evs[t]  BY <1>2, <2>1, <2>3 DEF TypeOK
  <2> QED  BY <2>1, <2>2, <2>3
<1>6. \A x \in Threads, f \in Events : Holds(x, f)' <=> Holds(x, f)
  <2>1. \A f \in Events : Holds(t, f)' <=> Holds(t, f)  BY <1>1, <1>5 DEF Holds, Signalling
  <2>2. \A x \in Threads \ {t}, f \in Events : Holds(x, f)' <=> Holds(x, f)
    BY <1>1, <1>4 DEF Holds
  <2> QED  BY <2>1, <2>2
<1>7. TypeOK'
  <2>1. pc' \in [Threads -> Labels]
    <3>1. \E l \in Labels : pc' = [pc EXCEPT ![t] = l]  BY <1>2 DEF Labels
    <3> QED  BY <3>1 DEF TypeOK
  <2>2. result' \in [Threads -> Events \cup {NoEvent}]  BY DEF FindSignaled, TypeOK
  <2>3. todo' \in [Threads -> SUBSET Events]  BY <1>1 DEF TypeOK
  <2> QED  BY <1>1, <1>3, <2>1, <2>2, <2>3 DEF TypeOK
<1>8. LocksMatch'  BY <1>1, <1>6 DEF LocksMatch
<1>9. FramesMatch'
  <2> SUFFICES ASSUME NEW x \in Threads PROVE Frame(x)'
    BY DEF FramesMatch
  <2>1. CASE x = t
    <3>1. call[t] = "WaitMany" /\ call' = call /\ evs' = evs
      BY <1>1 DEF FramesMatch, Frame
    <3> QED  BY <1>5, <2>1, <3>1 DEF Frame, Signalling
  <2>2. CASE x # t  BY <1>1, <1>4, <2>2 DEF FramesMatch, Frame
  <2> QED  BY <2>1, <2>2
<1>10. LockedAreUnset'
  <2> SUFFICES ASSUME NEW f \in Events, NEW x \in Threads, Holds(x, f)', pc'[x] # "unwind"
               PROVE  ~ signaled_'[f]
    BY DEF LockedAreUnset
  <2>1. x # t  BY <1>5 DEF Holds, Signalling
  <2> QED  BY <1>3, <1>4, <1>6, <2>1 DEF LockedAreUnset
<1>11. SetEventHasNoWaiter'  BY <1>1, <1>3 DEF SetEventHasNoWaiter
<1>12. EntriesLive'
  <2> SUFFICES ASSUME NEW f \in Events, NEW i \in 1 .. Len(waiters_[f])
               PROVE  EntryLive(f, i)'
    BY <1>1 DEF EntriesLive
  <2>1. EntryLive(f, i) /\ waiters_[f][i] \in Threads  BY EntryTyped DEF EntriesLive
  <2>2. Passed(f, i) => Passed(f, i)'
    <3>1. \A s \in Threads : pc[s] # "lock" => s # t  BY <1>1
    <3> QED  BY <1>1, <1>4, <3>1 DEF Passed
  <2>3. InWait(waiters_[f][i], f) => waiters_[f][i] # t  BY <1>1 DEF InWait
  <2> QED  BY <1>1, <1>4, <2>1, <2>2, <2>3 DEF EntryLive, InWait
<1>13. EntriesDistinct'  BY <1>1 DEF EntriesDistinct
<1> QED  BY <1>7, <1>8, <1>9, <1>10, <1>11, <1>12, <1>13

LEMMA LockOneKeeps ==
  ASSUME IInv, NEW t \in Threads, NEW e \in Events, LockOne(t, e)
  PROVE  IInv'
<1> USE EventAssumption DEF IInv
<1>1. /\ pc[t] = "lock" /\ ~ signaled_[e] /\ e \in todo[t] /\ todo[t] # {e} /\ lock_[e] = NoThread
      /\ lock_' = [lock_ EXCEPT ![e] = t]
      /\ todo' = [todo EXCEPT ![t] = @ \ {e}]
      /\ UNCHANGED <<signaled_, waiters_, sw, pc, call, evs, deadline, cursor, result, calls,
             spurious>>
  BY DEF LockOne, LockForMany, NextToLock, Unlocked
<1>2. /\ \A x \in Threads \ {t} : todo'[x] = todo[x]
      /\ todo'[t] = todo[t] \ {e} /\ todo'[t] # {} /\ todo[t] \subseteq evs[t]
  BY <1>1 DEF TypeOK, FramesMatch, Frame
<1>3. lock_'[e] = t /\ \A f \in Events \ {e} : lock_'[f] = lock_[f]  BY <1>1 DEF TypeOK
<1>4. TypeOK'
  <2>1. todo' \in [Threads -> SUBSET Events]  BY <1>1 DEF TypeOK
  <2>2. lock_' \in [Events -> Threads \cup {NoThread}]  BY <1>1 DEF TypeOK
  <2> QED  BY <1>1, <2>1, <2>2 DEF TypeOK
<1>5. LocksMatch'
  <2> SUFFICES ASSUME NEW f \in Events, NEW x \in Threads
               PROVE  lock_'[f] = x <=> Holds(x, f)'
    BY DEF LocksMatch
  <2>1. lock_[f] = x <=> Holds(x, f)  BY DEF LocksMatch
  <2>2. CASE x # t  BY <1>1, <1>2, <1>3, <2>1, <2>2 DEF Holds
  <2>3. CASE x = t  BY <1>1, <1>2, <1>3, <2>1, <2>3 DEF Holds, Signalling
  <2> QED  BY <2>2, <2>3
<1>6. FramesMatch'
  <2> SUFFICES ASSUME NEW x \in Threads PROVE Frame(x)'
    BY DEF FramesMatch
  <2>1. CASE x = t
    <3>1. call[t] = "WaitMany" /\ pc'[t] = "lock" /\ call' = call /\ evs' = evs
      BY <1>1 DEF FramesMatch, Frame
    <3> QED  BY <1>2, <2>1, <3>1 DEF Frame, Signalling
  <2>2. CASE x # t  BY <1>1, <1>2, <2>2 DEF FramesMatch, Frame
  <2> QED  BY <2>1, <2>2
<1>7. LockedAreUnset'
  <2> SUFFICES ASSUME NEW f \in Events, NEW x \in Threads, Holds(x, f)', pc'[x] # "unwind"
               PROVE  ~ signaled_[f]
    BY <1>1 DEF LockedAreUnset
  <2>1. CASE x # t  BY <1>1, <1>2, <2>1 DEF LockedAreUnset, Holds
  <2>2. CASE x = t
    <3>1. f = e \/ Holds(t, f)  BY <1>1, <1>2, <2>2 DEF Holds, Signalling
    <3> QED  BY <1>1, <3>1 DEF LockedAreUnset
  <2> QED  BY <2>1, <2>2
<1>8. SetEventHasNoWaiter'  BY <1>1 DEF SetEventHasNoWaiter
<1>9. EntriesLive'
  <2> SUFFICES ASSUME NEW f \in Events, NEW i \in 1 .. Len(waiters_[f])
               PROVE  EntryLive(f, i)'
    BY <1>1 DEF EntriesLive
  <2>1. EntryLive(f, i) /\ waiters_[f][i] \in Threads  BY EntryTyped DEF EntriesLive
  <2>2. Passed(f, i) => Passed(f, i)'
    <3>1. Passed(f, i) => f # e  BY <1>1 DEF Passed
    <3> QED  BY <1>1, <1>3, <3>1 DEF Passed
  <2>3. InWait(waiters_[f][i], f) => InWait(waiters_[f][i], f)'
    BY <1>1, <1>2, <2>1 DEF InWait
  <2> QED  BY <1>1, <2>1, <2>2, <2>3 DEF EntryLive
<1>10. EntriesDistinct'  BY <1>1 DEF EntriesDistinct
<1> QED  BY <1>4, <1>5, <1>6, <1>7, <1>8, <1>9, <1>10

LEMMA EnqueueAllKeeps ==
  ASSUME IInv, NEW t \in Threads, NEW e \in Events, EnqueueAll(t, e)
  PROVE  IInv'
<1> USE EventAssumption DEF IInv
<1>1. /\ pc[t] = "lock" /\ ~ signaled_[e] /\ todo[t] = {e} /\ lock_[e] = NoThread
      /\ lock_' = [lock_ EXCEPT ![e] = t]
      /\ waiters_' = [f \in Events |-> IF f \in evs[t] THEN Append(waiters_[f], t)
                                                       ELSE waiters_[f]]
      /\ sw' = [sw EXCEPT ![t] = NewWaiter]
      /\ todo' = [todo EXCEPT ![t] = evs[t]]
      /\ pc' = [pc EXCEPT ![t] = "unlock"]
      /\ UNCHANGED <<signaled_, call, evs, deadline, cursor, result, calls, spurious>>
  BY DEF EnqueueAll, LockForMany, NextToLock, Unlocked, Goto
<1>2. /\ e \in evs[t] /\ evs[t] \subseteq Events /\ call[t] = "WaitMany"
      /\ pc'[t] = "unlock" /\ todo'[t] = evs[t] /\ sw'[t] = NewWaiter
      /\ \A x \in Threads \ {t} : pc'[x] = pc[x] /\ todo'[x] = todo[x] /\ sw'[x] = sw[x]
  BY <1>1 DEF TypeOK, FramesMatch, Frame
<1>3. lock_'[e] = t /\ \A f \in Events \ {e} : lock_'[f] = lock_[f]  BY <1>1 DEF TypeOK
<1>4. \A f \in Events \ evs[t] : waiters_'[f] = waiters_[f]  BY <1>1
<1>5. \A f \in evs[t] :
        /\ f \in Events /\ waiters_[f] \in Seq(Threads)
        /\ waiters_'[f] = Append(waiters_[f], t)
        /\ lock_'[f] = t /\ ~ signaled_[f]
  <2> SUFFICES ASSUME NEW f \in evs[t]
               PROVE  /\ f \in Events /\ waiters_[f] \in Seq(Threads)
                      /\ waiters_'[f] = Append(waiters_[f], t)
                      /\ lock_'[f] = t /\ ~ signaled_[f]
    OBVIOUS
  <2>1. f \in Events  BY <1>2
  <2>2. waiters_[f] \in Seq(Threads) /\ waiters_'[f] = Append(waiters_[f], t)
    BY <1>1, <2>1 DEF TypeOK
  <2>3. CASE f = e  BY <1>1, <1>3, <2>1, <2>2, <2>3
  <2>4. CASE f # e
    <3>1. Holds(t, f)  BY <1>1, <2>4 DEF Holds
    <3>2. lock_[f] = t /\ ~ signaled_[f]  BY <1>1, <2>1, <3>1 DEF LocksMatch, LockedAreUnset
    <3> QED  BY <1>3, <2>1, <2>2, <2>4, <3>2
  <2> QED  BY <2>3, <2>4
<1>6. \A f \in Events, i \in Nat : Passed(f, i) => Passed(f, i)' /\ f \notin evs[t]
  <2> SUFFICES ASSUME NEW f \in Events, NEW i \in Nat, NEW s \in Threads, lock_[f] = s,
                      \/ pc[s] = "fire" /\ i < cursor[s]
                      \/ pc[s] \in {"popRetry", "popReturn"} /\ i = 1
               PROVE  Passed(f, i)' /\ f \notin evs[t]
    BY DEF Passed
  <2>1. s # t /\ f # e  BY <1>1
  <2>2. lock_'[f] = s  BY <1>3, <2>1
  <2>3. f \notin evs[t]  BY <1>5, <2>1, <2>2
  <2> QED  BY <1>1, <1>2, <2>1, <2>2, <2>3 DEF Passed
<1>7. \A f \in Events :
         \A i \in 1 .. Len(waiters_[f]) : waiters_[f][i] = t => f \notin evs[t] /\ Passed(f, i)'
  <2> SUFFICES ASSUME NEW f \in Events, NEW i \in 1 .. Len(waiters_[f]), waiters_[f][i] = t
               PROVE  f \notin evs[t] /\ Passed(f, i)'
    OBVIOUS
  <2>1. Passed(f, i)  BY <1>1 DEF EntriesLive, EntryLive, InWait
  <2> QED  BY <1>6, <2>1
<1>8. TypeOK'
  <2>1. NewWaiter \in SyncWaiter  BY DEF NewWaiter, SyncWaiter
  <2>2. waiters_' \in [Events -> Seq(Threads)]
    <3>1. \A f \in Events : waiters_'[f] \in Seq(Threads)
      <4>1. ASSUME NEW f \in evs[t] PROVE waiters_'[f] \in Seq(Threads)
        <5> DEFINE q == waiters_[f]
        <5>1. q \in Seq(Threads) /\ waiters_'[f] = Append(q, t)  BY <1>5
        <5> HIDE DEF q
        <5> QED  BY <5>1, AppendEntry
      <4>2. \A f \in Events \ evs[t] : waiters_'[f] \in Seq(Threads)  BY <1>4 DEF TypeOK
      <4> QED  BY <4>1, <4>2
    <3>2. waiters_' = [f \in Events |-> waiters_'[f]]  BY <1>1
    <3> QED  BY <3>1, <3>2
  <2>3. sw' \in [Threads -> SyncWaiter]  BY <1>1, <2>1 DEF TypeOK
  <2>4. pc' \in [Threads -> Labels]  BY <1>1 DEF TypeOK, Labels
  <2>5. todo' \in [Threads -> SUBSET Events]  BY <1>1 DEF TypeOK
  <2>6. lock_' \in [Events -> Threads \cup {NoThread}]  BY <1>1 DEF TypeOK
  <2> QED  BY <1>1, <2>2, <2>3, <2>4, <2>5, <2>6 DEF TypeOK
<1>9. LocksMatch'
  <2> SUFFICES ASSUME NEW f \in Events, NEW x \in Threads
               PROVE  lock_'[f] = x <=> Holds(x, f)'
    BY DEF LocksMatch
  <2>1. lock_[f] = x <=> Holds(x, f)  BY DEF LocksMatch
  <2>2. CASE x # t  BY <1>1, <1>2, <1>3, <2>1, <2>2 DEF Holds
  <2>3. CASE x = t
    <3>1. Holds(t, f)' <=> f \in evs[t]  BY <1>1, <1>2 DEF Holds, Signalling
    <3>2. lock_'[f] = t => f \in evs[t]
      BY <1>1, <1>2, <1>3, <2>1, <2>3 DEF Holds, Signalling
    <3> QED  BY <1>5, <2>3, <3>1, <3>2
  <2> QED  BY <2>2, <2>3
<1>10. FramesMatch'
  <2> SUFFICES ASSUME NEW x \in Threads PROVE Frame(x)'
    BY DEF FramesMatch
  <2>1. CASE x = t  BY <1>1, <1>2, <2>1 DEF Frame, Signalling
  <2>2. CASE x # t
    <3>1. \A f \in Events : waiters_[f] # <<>> => waiters_'[f] # <<>>
      BY <1>4, <1>5, AppendEntry
    <3>2. evs[x] \subseteq Events  BY DEF TypeOK
    <3> QED  BY <1>1, <1>2, <2>2, <3>1, <3>2, ZenonT(60) DEF FramesMatch, Frame
  <2> QED  BY <2>1, <2>2
<1>11. LockedAreUnset'
  <2> SUFFICES ASSUME NEW f \in Events, NEW x \in Threads, Holds(x, f)', pc'[x] # "unwind"
               PROVE  ~ signaled_[f]
    BY <1>1 DEF LockedAreUnset
  <2>1. CASE x # t
    <3>1. pc'[x] = pc[x] /\ todo'[x] = todo[x] /\ evs'[x] = evs[x]  BY <1>1, <1>2, <2>1
    <3>2. Holds(x, f) /\ pc[x] # "unwind"  BY <3>1 DEF Holds
    <3> QED  BY <3>2 DEF LockedAreUnset
  <2>2. CASE x = t  BY <1>1, <1>2, <1>5, <2>2 DEF Holds, Signalling
  <2> QED  BY <2>1, <2>2
<1>12. SetEventHasNoWaiter'  BY <1>1, <1>4, <1>5 DEF SetEventHasNoWaiter
<1>13. EntriesLive'
  <2> SUFFICES ASSUME NEW f \in Events, NEW i \in 1 .. Len(waiters_'[f])
               PROVE  EntryLive(f, i)'
    BY DEF EntriesLive
  <2>1. ASSUME i \in 1 .. Len(waiters_[f]), waiters_'[f][i] = waiters_[f][i]
        PROVE  EntryLive(f, i)'
    <3>1. EntryLive(f, i)  BY <2>1 DEF EntriesLive
    <3>2. waiters_[f][i] \in Threads  BY <2>1 DEF TypeOK
    <3>3. Passed(f, i) => Passed(f, i)'  BY <1>6
    <3>4. CASE waiters_[f][i] = t  BY <1>7, <2>1, <3>4 DEF EntryLive
    <3>5. CASE waiters_[f][i] # t
      BY <1>1, <1>2, <2>1, <3>1, <3>2, <3>3, <3>5 DEF EntryLive, InWait
    <3> QED  BY <3>4, <3>5
  <2>2. CASE f \notin evs[t]  BY <1>4, <2>1, <2>2
  <2>3. CASE f \in evs[t]
    <3>1. /\ Len(waiters_'[f]) = Len(waiters_[f]) + 1 /\ Len(waiters_[f]) \in Nat
          /\ waiters_'[f][Len(waiters_[f]) + 1] = t
          /\ \A j \in 1 .. Len(waiters_[f]) : waiters_'[f][j] = waiters_[f][j]
      <4> DEFINE q == waiters_[f]
      <4>1. q \in Seq(Threads) /\ waiters_'[f] = Append(q, t)  BY <1>5, <2>3
      <4> HIDE DEF q
      <4>2. /\ Len(Append(q, t)) = Len(q) + 1 /\ Len(q) \in Nat
            /\ Append(q, t)[Len(q) + 1] = t
            /\ \A j \in 1 .. Len(q) : Append(q, t)[j] = q[j]
        BY <4>1, AppendEntry
      <4> QED  BY <4>1, <4>2 DEF q
    <3>2. CASE i = Len(waiters_[f]) + 1
      <4>1. waiters_'[f][i] = t /\ InWait(t, f)'
        BY <1>1, <1>2, <2>3, <3>1, <3>2 DEF InWait
      <4>2. sw'[t].event # f  BY <1>2 DEF NewWaiter
      <4> QED  BY <4>1, <4>2 DEF EntryLive
    <3>3. CASE i # Len(waiters_[f]) + 1  BY <2>1, <3>1, <3>3
    <3> QED  BY <3>2, <3>3
  <2> QED  BY <2>2, <2>3
<1>14. EntriesDistinct'
  <2> SUFFICES ASSUME NEW f \in Events
               PROVE  \A i, j \in 1 .. Len(waiters_'[f]) :
                         waiters_'[f][i] = waiters_'[f][j] => i = j
    BY DEF EntriesDistinct
  <2>1. \A i, j \in 1 .. Len(waiters_[f]) : waiters_[f][i] = waiters_[f][j] => i = j
    BY DEF EntriesDistinct
  <2>2. CASE f \notin evs[t]  BY <1>4, <2>1, <2>2
  <2>3. CASE f \in evs[t]
    <3> DEFINE q == waiters_[f]
    <3>1. q \in Seq(Threads) /\ waiters_'[f] = Append(q, t)  BY <1>5, <2>3
    <3>2. \A i \in 1 .. Len(q) : q[i] # t  BY <1>7, <2>3
    <3>3. \A i, j \in 1 .. Len(q) : q[i] = q[j] => i = j  BY <2>1
    <3> HIDE DEF q
    <3>4. \A i, j \in 1 .. Len(Append(q, t)) : Append(q, t)[i] = Append(q, t)[j] => i = j
      BY <3>1, <3>2, <3>3, AppendDistinct
    <3> QED  BY <3>1, <3>4
  <2> QED  BY <2>2, <2>3
<1> QED  BY <1>8, <1>9, <1>10, <1>11, <1>12, <1>13, <1>14

LEMMA ReleaseLockKeeps ==
  ASSUME IInv, NEW t \in Threads, NEW e \in Events, ReleaseLock(t, e)
  PROVE  IInv'
<1> USE EventAssumption DEF IInv
<1>1. /\ pc[t] \in {"unlock", "unwind"} /\ e \in todo[t]
      /\ lock_' = [lock_ EXCEPT ![e] = NoThread]
      /\ todo' = [todo EXCEPT ![t] = @ \ {e}]
      /\ UNCHANGED <<signaled_, waiters_, sw, call, evs, deadline, cursor, result, calls, spurious>>
  BY DEF ReleaseLock
<1>2. /\ todo[t] # {e} => pc' = pc
      /\ todo[t] = {e} /\ pc[t] = "unlock" => pc' = [pc EXCEPT ![t] = "check"]
      /\ todo[t] = {e} /\ pc[t] = "unwind" => pc' = [pc EXCEPT ![t] = "idle"]
  BY <1>1 DEF ReleaseLock, Goto
<1>3. /\ todo'[t] = todo[t] \ {e} /\ todo[t] \subseteq evs[t] /\ call[t] = "WaitMany"
      /\ lock_[e] = t
  BY <1>1 DEF TypeOK, FramesMatch, Frame, LocksMatch, Holds
<1>4. \A x \in Threads \ {t} : pc'[x] = pc[x] /\ todo'[x] = todo[x]
  BY <1>1, <1>2 DEF TypeOK
<1>5. lock_'[e] = NoThread /\ \A f \in Events \ {e} : lock_'[f] = lock_[f]  BY <1>1 DEF TypeOK
<1>6. \/ todo'[t] # {} /\ pc'[t] = pc[t]
      \/ todo'[t] = {} /\ pc[t] = "unlock" /\ pc'[t] = "check"
      \/ todo'[t] = {} /\ pc[t] = "unwind" /\ pc'[t] = "idle"
  <2>1. CASE todo[t] # {e}  BY <1>1, <1>2, <1>3, <2>1
  <2>2. CASE todo[t] = {e}  BY <1>1, <1>2, <1>3, <2>2 DEF TypeOK
  <2> QED  BY <2>1, <2>2
<1>7. TypeOK'
  <2>1. todo' \in [Threads -> SUBSET Events]  BY <1>1 DEF TypeOK
  <2>2. lock_' \in [Events -> Threads \cup {NoThread}]  BY <1>1 DEF TypeOK
  <2>3. pc' \in [Threads -> Labels]
    <3>1. pc' = pc \/ \E l \in Labels : pc' = [pc EXCEPT ![t] = l]  BY <1>1, <1>2 DEF Labels
    <3> QED  BY <3>1 DEF TypeOK
  <2> QED  BY <1>1, <2>1, <2>2, <2>3 DEF TypeOK
<1>8. LocksMatch'
  <2> SUFFICES ASSUME NEW f \in Events, NEW x \in Threads
               PROVE  lock_'[f] = x <=> Holds(x, f)'
    BY DEF LocksMatch
  <2>1. lock_[f] = x <=> Holds(x, f)  BY DEF LocksMatch
  <2>2. CASE x # t  BY <1>1, <1>3, <1>4, <1>5, <2>1, <2>2 DEF Holds
  <2>3. CASE x = t
    <3>1. Holds(t, f) <=> f \in todo[t]  BY <1>1 DEF Holds, Signalling
    <3>2. Holds(t, f)' <=> f \in todo'[t]  BY <1>1, <1>6 DEF Holds, Signalling
    <3> QED  BY <1>3, <1>5, <2>1, <2>3, <3>1, <3>2
  <2> QED  BY <2>2, <2>3
<1>9. FramesMatch'
  <2> SUFFICES ASSUME NEW x \in Threads PROVE Frame(x)'
    BY DEF FramesMatch
  <2>1. CASE x = t
    <3>1. evs[t] # {}  BY <1>1, <1>3
    <3> QED  BY <1>1, <1>3, <1>6, <2>1, <3>1 DEF Frame, Signalling
  <2>2. CASE x # t  BY <1>1, <1>4, <2>2 DEF FramesMatch, Frame
  <2> QED  BY <2>1, <2>2
<1>10. LockedAreUnset'
  <2> SUFFICES ASSUME NEW f \in Events, NEW x \in Threads, Holds(x, f)', pc'[x] # "unwind"
               PROVE  ~ signaled_[f]
    BY <1>1 DEF LockedAreUnset
  <2>1. CASE x # t  BY <1>1, <1>4, <2>1 DEF LockedAreUnset, Holds
  <2>2. CASE x = t  BY <1>1, <1>3, <1>6, <2>2 DEF LockedAreUnset, Holds, Signalling
  <2> QED  BY <2>1, <2>2
<1>11. SetEventHasNoWaiter'  BY <1>1 DEF SetEventHasNoWaiter
<1>12. EntriesLive'
  <2> SUFFICES ASSUME NEW f \in Events, NEW i \in 1 .. Len(waiters_[f])
               PROVE  EntryLive(f, i)'
    BY <1>1 DEF EntriesLive
  <2>1. EntryLive(f, i) /\ waiters_[f][i] \in Threads  BY EntryTyped DEF EntriesLive
  <2>2. Passed(f, i) => Passed(f, i)'
    <3> SUFFICES ASSUME NEW s \in Threads, lock_[f] = s,
                        \/ pc[s] = "fire" /\ i < cursor[s]
                        \/ pc[s] \in {"popRetry", "popReturn"} /\ i = 1
                 PROVE  Passed(f, i)'
      BY DEF Passed
    <3>1. s # t  BY <1>1
    <3>2. f # e  BY <1>3, <3>1
    <3> QED  BY <1>1, <1>4, <1>5, <3>1, <3>2 DEF Passed
  <2>3. InWait(waiters_[f][i], f) => InWait(waiters_[f][i], f)'
    <3>1. CASE waiters_[f][i] = t  BY <1>1, <1>6, <3>1 DEF InWait
    <3>2. CASE waiters_[f][i] # t  BY <1>1, <1>4, <2>1, <3>2 DEF InWait
    <3> QED  BY <3>1, <3>2
  <2> QED  BY <1>1, <2>1, <2>2, <2>3 DEF EntryLive
<1>13. EntriesDistinct'  BY <1>1 DEF EntriesDistinct
<1> QED  BY <1>7, <1>8, <1>9, <1>10, <1>11, <1>12, <1>13

LEMMA DequeueKeeps ==
  ASSUME IInv, NEW t \in Threads, NEW e \in Events, Dequeue(t, e)
  PROVE  IInv'
<1> USE EventAssumption DEF IInv
<1> DEFINE q == waiters_[e]
           r == RemoveFirst(q, t)
<1>0. r = RemoveFirst(q, t)  OBVIOUS
<1>1. /\ pc[t] = "leave" /\ e \in todo[t] /\ lock_[e] = NoThread
      /\ waiters_' = [waiters_ EXCEPT ![e] = r]
      /\ todo' = [todo EXCEPT ![t] = @ \ {e}]
      /\ UNCHANGED <<signaled_, lock_, sw, call, evs, deadline, cursor, result, calls, spurious>>
  BY DEF Dequeue, Unlocked
<1>2. /\ todo[t] = {e} => pc' = [pc EXCEPT ![t] = "idle"]
      /\ todo[t] # {e} => pc' = pc
  BY DEF Dequeue, Goto
<1>3. q \in Seq(Threads)  BY DEF TypeOK
<1>4. \A i, j \in 1 .. Len(q) : q[i] = q[j] => i = j  BY DEF EntriesDistinct
<1>5. waiters_'[e] = r /\ waiters_[e] = q /\ \A f \in Events \ {e} : waiters_'[f] = waiters_[f]
  BY <1>1 DEF TypeOK
<1>5a. r \in Seq(Threads) /\ Erased(q, t, r)
  <2> HIDE DEF q, r
  <2> QED  BY <1>0, <1>3, RemoveFirstEntry
<1>6. r \in Seq(Threads) /\ \A i \in 1 .. Len(r) : r[i] # t /\ \E j \in 1 .. Len(q) : r[i] = q[j]
  <2> HIDE DEF q, r
  <2>2. ASSUME NEW k \in 1 .. Len(q), q[k] = t, Len(r) = Len(q) - 1,
               \A i \in 1 .. Len(r) : r[i] = q[IF i < k THEN i ELSE i + 1]
        PROVE  \A i \in 1 .. Len(r) : r[i] # t /\ \E j \in 1 .. Len(q) : r[i] = q[j]
    BY <1>3, <1>4, <2>2
  <2> QED  BY <1>5a, <2>2 DEF Erased
<1>7. \A i, j \in 1 .. Len(r) : r[i] = r[j] => i = j
  <2> HIDE DEF q, r
  <2>2. ASSUME NEW k \in 1 .. Len(q), Len(r) = Len(q) - 1,
               \A i \in 1 .. Len(r) : r[i] = q[IF i < k THEN i ELSE i + 1],
               NEW i \in 1 .. Len(r), NEW j \in 1 .. Len(r), r[i] = r[j]
        PROVE  i = j
    <3> DEFINE m == IF i < k THEN i ELSE i + 1
               n == IF j < k THEN j ELSE j + 1
    <3>1. m \in 1 .. Len(q) /\ n \in 1 .. Len(q) /\ (m = n => i = j)  BY <1>3, <2>2
    <3>2. q[m] = q[n]  BY <2>2
    <3> HIDE DEF m, n
    <3> QED  BY <1>4, <3>1, <3>2
  <2> QED  BY <1>4, <1>5a, <2>2 DEF Erased
<1> HIDE DEF q, r
<1>8. \A x \in Threads \ {t} : pc'[x] = pc[x] /\ todo'[x] = todo[x]  BY <1>1, <1>2 DEF TypeOK
<1>9. /\ todo'[t] = todo[t] \ {e} /\ todo[t] \subseteq evs[t]
      /\ \/ pc'[t] = "leave" /\ todo'[t] # {}
         \/ pc'[t] = "idle" /\ todo'[t] = {}
  <2>1. todo'[t] = todo[t] \ {e} /\ todo[t] \subseteq evs[t]
    BY <1>1 DEF TypeOK, FramesMatch, Frame
  <2>2. CASE todo[t] = {e}  BY <1>1, <1>2, <2>1, <2>2 DEF TypeOK
  <2>3. CASE todo[t] # {e}  BY <1>1, <1>2, <2>1, <2>3
  <2> QED  BY <2>1, <2>2, <2>3
<1>10. \A i : ~ Passed(e, i)  BY <1>1 DEF Passed
<1>11. TypeOK'
  <2>1. waiters_' \in [Events -> Seq(Threads)]  BY <1>1, <1>6 DEF TypeOK
  <2>2. todo' \in [Threads -> SUBSET Events]  BY <1>1 DEF TypeOK
  <2>3. pc' \in [Threads -> Labels]  BY <1>2 DEF TypeOK, Labels
  <2> QED  BY <1>1, <2>1, <2>2, <2>3 DEF TypeOK
<1>12. LocksMatch'
  <2>1. \A x \in Threads, f \in Events : Holds(x, f)' <=> Holds(x, f)
    BY <1>1, <1>8, <1>9 DEF Holds, Signalling
  <2> QED  BY <1>1, <2>1 DEF LocksMatch
<1>13. FramesMatch'
  <2> SUFFICES ASSUME NEW x \in Threads PROVE Frame(x)'
    BY DEF FramesMatch
  <2>1. CASE x = t  BY <1>1, <1>9, <2>1 DEF Frame, Signalling
  <2>2. CASE x # t
    <3>1. ASSUME pc[x] \in {"popRetry", "popReturn"}, NEW f \in evs[x]
          PROVE  f \notin Manual /\ waiters_'[f] # <<>>
      <4>1. PICK g \in Events : evs[x] = {g}  BY <3>1 DEF FramesMatch, Frame, Signalling
      <4>2. lock_[g] = x  BY <3>1, <4>1 DEF LocksMatch, Holds, Signalling
      <4>3. g # e  BY <1>1, <4>2
      <4> QED  BY <1>5, <3>1, <4>1, <4>3 DEF FramesMatch, Frame
    <3>2. pc'[x] = pc[x] /\ todo'[x] = todo[x] /\ Frame(x)  BY <1>8, <2>2 DEF FramesMatch
    <3> QED  BY <1>1, <3>1, <3>2 DEF Frame
  <2> QED  BY <2>1, <2>2
<1>14. LockedAreUnset'
  <2> SUFFICES ASSUME NEW f \in Events, NEW x \in Threads, Holds(x, f)', pc'[x] # "unwind"
               PROVE  ~ signaled_[f]
    BY <1>1 DEF LockedAreUnset
  <2>1. x # t  BY <1>1, <1>9 DEF Holds, Signalling
  <2> QED  BY <1>1, <1>8, <2>1 DEF LockedAreUnset, Holds
<1>15. SetEventHasNoWaiter'
  <2>1. signaled_[e] => r = <<>>
    <3>1. signaled_[e] => Len(q) = 0  BY <1>5 DEF SetEventHasNoWaiter
    <3>2. Len(q) = 0 => Len(r) = 0  BY <1>6
    <3> QED  BY <1>6, <3>1, <3>2
  <2> QED  BY <1>1, <1>5, <2>1 DEF SetEventHasNoWaiter
<1>16. EntriesLive'
  <2> SUFFICES ASSUME NEW f \in Events, NEW i \in 1 .. Len(waiters_'[f])
               PROVE  EntryLive(f, i)'
    BY DEF EntriesLive
  <2>1. CASE f = e
    <3>1. PICK j \in 1 .. Len(q) : r[i] = q[j]  BY <1>5, <1>6, <2>1
    <3>2. r[i] # t  BY <1>5, <1>6, <2>1
    <3>3. EntryLive(e, j) /\ q[j] \in Threads  BY <1>3, <1>5, <3>1 DEF EntriesLive
    <3>4. PICK u \in Threads : u # t /\ waiters_[e][j] = u /\ waiters_'[f][i] = u
      BY <1>5, <2>1, <3>1, <3>2, <3>3
    <3>5. InWait(u, e) => InWait(u, e)'  BY <1>1, <1>8, <3>4 DEF InWait
    <3>6. InWait(u, e) /\ (sw[u].event # e \/ call[u] = "TimedWait")
      BY <1>10, <3>3, <3>4 DEF EntryLive
    <3> QED  BY <1>1, <2>1, <3>4, <3>5, <3>6 DEF EntryLive
  <2>2. CASE f # e
    <3>1. waiters_'[f] = waiters_[f]  BY <1>5, <2>2
    <3>2. EntryLive(f, i) /\ waiters_[f][i] \in Threads  BY <3>1, EntryTyped DEF EntriesLive
    <3>3. Passed(f, i) => Passed(f, i)'
      <4>1. \A s \in Threads : pc[s] # "leave" => s # t  BY <1>1
      <4> QED  BY <1>1, <1>8, <4>1 DEF Passed
    <3>4. PICK u \in Threads : waiters_[f][i] = u /\ waiters_'[f][i] = u  BY <3>1, <3>2
    <3>5. InWait(u, f) => InWait(u, f)'
      <4>1. CASE u = t  BY <1>1, <1>9, <2>2, <4>1 DEF InWait
      <4>2. CASE u # t  BY <1>1, <1>8, <3>4, <4>2 DEF InWait
      <4> QED  BY <4>1, <4>2
    <3> QED  BY <1>1, <3>2, <3>3, <3>4, <3>5 DEF EntryLive
  <2> QED  BY <2>1, <2>2
<1>17. EntriesDistinct'
  <2> SUFFICES ASSUME NEW f \in Events
               PROVE  \A i, j \in 1 .. Len(waiters_'[f]) :
                         waiters_'[f][i] = waiters_'[f][j] => i = j
    BY DEF EntriesDistinct
  <2>1. CASE f = e  BY <1>5, <1>7, <2>1
  <2>2. CASE f # e
    <3>1. waiters_'[f] = waiters_[f]  BY <1>5, <2>2
    <3> QED  BY <3>1 DEF EntriesDistinct
  <2> QED  BY <2>1, <2>2
<1> QED  BY <1>11, <1>12, <1>13, <1>14, <1>15, <1>16, <1>17

(* Every step of every thread keeps the inductive invariant.               *)
LEMMA NextKeeps ==
  ASSUME IInv, [Next]_vars
  PROVE  IInv'
<1>1. CASE UNCHANGED vars
  BY <1>1, IdleKeeps DEF vars, IInv, TypeOK
<1>2. ASSUME NEW t \in Threads, Step(t) PROVE IInv'
  BY <1>2, FireKeeps, PopFrontKeeps, SignalEndKeeps, CvWaitKeeps, WakeKeeps,
     StopWaitingManyKeeps, StopWaitingKeeps, FindSignaledKeeps, LockOneKeeps,
     EnqueueAllKeeps, ReleaseLockKeeps, DequeueKeeps DEF Step, EnqueueMany
<1>3. ASSUME NEW t \in Threads, Start(t) PROVE IInv'
  <2>1. ASSUME NEW E \in (SUBSET Events) \ {{}}, WaitMany(t, E) PROVE IInv'
    <3>1. E \in SUBSET Events /\ E # {}  BY <2>1
    <3> QED  BY <2>1, <3>1, WaitManyKeeps
  <2>2. ASSUME NEW e \in Events, Reset(t, e) \/ IsSignaled(t, e) \/ Signal(t, e) PROVE IInv'
    BY <2>2, ResetKeeps, IsSignaledKeeps, SignalKeeps
  <2>3. ASSUME NEW e \in Events, NEW d \in {"never", "later"}, TimedWait(t, e, d) PROVE IInv'
    BY <2>3, TimedWaitKeeps
  <2> QED  BY <1>3, <2>1, <2>2, <2>3 DEF Start
<1> QED
  BY <1>1, <1>2, <1>3, ExpireKeeps, SpuriousWakeKeeps DEF Next

LEMMA InitSatisfies ==
  ASSUME Init PROVE IInv
<1>1. NoWaiter \in SyncWaiter  BY DEF NoWaiter, NewWaiter, SyncWaiter
<1>2. \A q : q = <<>> => Len(q) = 0 /\ q \in Seq(Threads)  OBVIOUS
<1>3. TypeOK  BY <1>1, <1>2, EventAssumption DEF Init, TypeOK, Labels
<1>4. LocksMatch  BY EventAssumption DEF Init, LocksMatch, Holds, Signalling
<1>5. FramesMatch  BY DEF Init, FramesMatch, Frame, Signalling
<1>6. LockedAreUnset  BY DEF Init, LockedAreUnset, Holds, Signalling
<1>7. SetEventHasNoWaiter  BY DEF Init, SetEventHasNoWaiter
<1>8. \A e \in Events : Len(waiters_[e]) = 0  BY <1>2 DEF Init
<1>9. EntriesLive /\ EntriesDistinct  BY <1>8 DEF EntriesLive, EntriesDistinct
<1> QED  BY <1>3, <1>4, <1>5, <1>6, <1>7, <1>9 DEF IInv

(* The inductive invariant holds throughout, whatever the threads do with  *)
(* the events: the locks are held by the threads whose step says so, the   *)
(* wait-lists hold only live waiters, and no signalled event has any.      *)
THEOREM Invariance == Spec => []IInv
<1>1. Init => IInv  BY InitSatisfies
<1>2. IInv /\ [Next]_vars => IInv'  BY NextKeeps
<1> QED  BY <1>1, <1>2, PTL DEF Spec

(* Every variable keeps its type, for any number of threads and events.    *)
THEOREM TypeCorrect == Spec => []TypeOK
<1>1. IInv => TypeOK  BY DEF IInv
<1> QED  BY <1>1, Invariance, PTL

(* A set event never has a waiter: nobody sleeps on an event that is set.  *)
THEOREM NobodySleepsOnASetEvent == Spec => []SetEventHasNoWaiter
<1>1. IInv => SetEventHasNoWaiter  BY DEF IInv
<1> QED  BY <1>1, Invariance, PTL

(* SignalOne and SignalAll never call Fire on the SyncWaiter of a thread   *)
(* that has returned from its wait.                                        *)
THEOREM FiresOnlyLiveWaiters == Spec => []FireReachesLiveWaiter
<1>1. ASSUME IInv PROVE FireReachesLiveWaiter
  <2> SUFFICES ASSUME NEW t \in Threads, NEW e \in Events,
                      pc[t] = "fire", evs[t] = {e}, cursor[t] <= Len(waiters_[e])
               PROVE  LET u == waiters_[e][cursor[t]]
                      IN pc[u] \in {"check", "blocked", "leave", "unlock"} /\ e \in evs[u]
    BY DEF FireReachesLiveWaiter
  <2>1. cursor[t] \in 1 .. Len(waiters_[e])  BY <1>1 DEF IInv, TypeOK
  <2>2. waiters_[e][cursor[t]] \in Threads  BY <1>1, <2>1 DEF IInv, TypeOK
  <2>3. lock_[e] = t  BY <1>1 DEF IInv, LocksMatch, Holds, Signalling
  <2>4. ~ Passed(e, cursor[t])  BY <1>1, <2>1, <2>3 DEF Passed
  <2>5. InWait(waiters_[e][cursor[t]], e)
    BY <1>1, <2>1, <2>4 DEF IInv, EntriesLive, EntryLive
  <2> QED  BY <1>1, <2>2, <2>5 DEF InWait, IInv, FramesMatch, Frame
<1> QED  BY <1>1, Invariance, PTL
-----------------------------------------------------------------------------
(* WaitableEvent implements EventSpec: for each step there is a lemma that *)
(* names the step of EventSpec it is, if it is one.                        *)
InTheWait == {"unlock", "check", "blocked"}

(* What EventSpec sees of a thread is as before.                           *)
Same(x) ==
  /\ pc'[x] = pc[x] /\ evs'[x] = evs[x] /\ result'[x] = result[x]
  /\ sw'[x].fired = sw[x].fired /\ sw'[x].event = sw[x].event
  /\ deadline'[x] = deadline[x]

OwnPart(t) ==
  /\ pc[t] \in InTheWait =>
       IF sw[t].fired THEN sw[t].event \in evs[t] ELSE sw[t].event = NoEvent
  /\ pc[t] = "leave" => sw[t].fired

LEMMA OnlyOne == \A e : TheOnly({e}) = e
BY DEF TheOnly

LEMMA ViewOf ==
  ASSUME NEW t \in Threads
  PROVE  /\ On[t] = IF Waiting(t) THEN evs[t] ELSE {}
         /\ Left[t] = IF Waiting(t) THEN deadline[t] ELSE "never"
         /\ Sig[t] = IF pc[t] \in {"fire", "popRetry"} THEN TheOnly(evs[t]) ELSE NoEvent
         /\ Got[t] = IF pc[t] \in InTheWait THEN sw[t].event ELSE result[t]
         /\ On'[t] = IF Waiting(t)' THEN evs'[t] ELSE {}
         /\ Left'[t] = IF Waiting(t)' THEN deadline'[t] ELSE "never"
         /\ Sig'[t] = IF pc'[t] \in {"fire", "popRetry"} THEN TheOnly(evs'[t]) ELSE NoEvent
         /\ Got'[t] = IF pc'[t] \in InTheWait THEN sw'[t].event ELSE result'[t]
BY DEF On, Left, Sig, Got, InTheWait

(* When only t moves, so does only t's part of what EventSpec sees.      *)
LEMMA OthersStay ==
  ASSUME NEW t \in Threads, \A x \in Threads \ {t} : Same(x)
  PROVE  /\ On' = [On EXCEPT ![t] = On'[t]]
         /\ Left' = [Left EXCEPT ![t] = Left'[t]]
         /\ Sig' = [Sig EXCEPT ![t] = Sig'[t]]
         /\ Got' = [Got EXCEPT ![t] = Got'[t]]
         /\ \A x \in Threads \ {t} : /\ On'[x] = On[x] /\ Left'[x] = Left[x]
                                      /\ Sig'[x] = Sig[x] /\ Got'[x] = Got[x]
<1>1. \A x \in Threads \ {t} : /\ On'[x] = On[x] /\ Left'[x] = Left[x]
                                /\ Sig'[x] = Sig[x] /\ Got'[x] = Got[x]
  BY ViewOf DEF Same, Waiting
<1>2. /\ On = [x \in Threads |-> On[x]] /\ On' = [x \in Threads |-> On'[x]]
      /\ Left = [x \in Threads |-> Left[x]] /\ Left' = [x \in Threads |-> Left'[x]]
      /\ Sig = [x \in Threads |-> Sig[x]] /\ Sig' = [x \in Threads |-> Sig'[x]]
      /\ Got = [x \in Threads |-> Got[x]] /\ Got' = [x \in Threads |-> Got'[x]]
  BY DEF On, Left, Sig, Got
<1> QED  BY <1>1, <1>2

(* Nothing that EventSpec sees has moved.                                  *)
LEMMA Stutters ==
  ASSUME NEW t \in Threads, \A x \in Threads \ {t} : Same(x), signaled_' = signaled_,
         On'[t] = On[t], Left'[t] = Left[t], Sig'[t] = Sig[t], Got'[t] = Got[t]
  PROVE  UNCHANGED Abstract!vars
<1>1. \A x \in Threads : /\ On'[x] = On[x] /\ Left'[x] = Left[x]
                          /\ Sig'[x] = Sig[x] /\ Got'[x] = Got[x]
  BY OthersStay
<1>2. /\ On = [x \in Threads |-> On[x]] /\ On' = [x \in Threads |-> On'[x]]
      /\ Left = [x \in Threads |-> Left[x]] /\ Left' = [x \in Threads |-> Left'[x]]
      /\ Sig = [x \in Threads |-> Sig[x]] /\ Sig' = [x \in Threads |-> Sig'[x]]
      /\ Got = [x \in Threads |-> Got[x]] /\ Got' = [x \in Threads |-> Got'[x]]
  BY DEF On, Left, Sig, Got
<1>3. On' = On /\ Left' = Left /\ Sig' = Sig /\ Got' = Got  BY <1>1, <1>2
<1> QED  BY <1>3 DEF Abstract!vars

(* A step of t that neither enters nor leaves a wait-list, nor fires.      *)
LEMMA ListsStay ==
  ASSUME WaitInv, NEW t \in Threads, waiters_' = waiters_, \A x \in Threads \ {t} : Same(x),
         \A e \in Events : \A i \in 1 .. Len(waiters_[e]) : Passed(e, i)' => Passed(e, i),
         Waiting(t)' => Waiting(t) /\ evs'[t] = evs[t],
         OwnPart(t)'
  PROVE  WaitersListed' /\ PassedAreFired' /\ FiredByItsEvent'
<1> USE DEF WaitInv
<1>1. \A x \in Threads : Waiting(x)' => Waiting(x) /\ evs'[x] = evs[x]
  BY DEF Same, Waiting
<1>2. WaitersListed'  BY <1>1 DEF WaitersListed
<1>3. PassedAreFired'
  <2>1. \A e \in Events : \A i \in 1 .. Len(waiters_[e]) : waiters_[e][i] \in Threads
    BY EntryTyped DEF IInv
  <2> QED  BY <1>1, <2>1 DEF PassedAreFired
<1>4. FiredByItsEvent'
  <2> SUFFICES ASSUME NEW x \in Threads PROVE OwnPart(x)'
    BY DEF FiredByItsEvent, OwnPart, InTheWait
  <2>1. CASE x = t  BY <2>1
  <2>2. CASE x # t
    <3>1. OwnPart(x)  BY DEF FiredByItsEvent, OwnPart, InTheWait
    <3> QED  BY <2>2, <3>1 DEF OwnPart, Same
  <2> QED  BY <2>1, <2>2
<1> QED  BY <1>2, <1>3, <1>4

(* What has to be shown of each step: it keeps the invariant, and is a     *)
(* step of EventSpec or none.                                              *)
Follows ==
  /\ WaitersListed' /\ PassedAreFired' /\ FiredByItsEvent'
  /\ [Abstract!Next]_(Abstract!vars)

(* Only t moves, in no list, without firing and without becoming a         *)
(* signaller; it may take locks that are free, or give back its own.       *)
Aside(t) ==
  /\ waiters_' = waiters_
  /\ \A x \in Threads \ {t} : Same(x) /\ cursor'[x] = cursor[x]
  /\ pc[t] \notin Signalling /\ pc'[t] \notin Signalling
  /\ \A e \in Events : lock_'[e] \in Threads \ {t} => lock_'[e] = lock_[e]

LEMMA AsideKeeps ==
  ASSUME WaitInv, NEW t \in Threads, Aside(t), OwnPart(t)',
         Waiting(t)' => Waiting(t) /\ evs'[t] = evs[t]
  PROVE  WaitersListed' /\ PassedAreFired' /\ FiredByItsEvent'
<1>1. \A e \in Events : \A i \in 1 .. Len(waiters_[e]) : Passed(e, i)' => Passed(e, i)
  BY DEF Aside, Same, Passed, Signalling
<1> QED  BY <1>1, ListsStay DEF Aside

LEMMA AsideStutters ==
  ASSUME WaitInv, NEW t \in Threads, Aside(t), OwnPart(t)', signaled_' = signaled_,
         On'[t] = On[t], Left'[t] = Left[t], Got'[t] = Got[t],
         Waiting(t)' => Waiting(t) /\ evs'[t] = evs[t]
  PROVE  Follows
<1>1. Sig'[t] = Sig[t]  BY ViewOf DEF Aside, Signalling
<1> QED  BY <1>1, AsideKeeps, Stutters DEF Aside, Follows

(* Time passes in EventSpec, too, unless the thread was fired already.     *)
LEMMA ExpireFollows ==
  ASSUME WaitInv, NEW t \in Threads, Expire(t)
  PROVE  Follows
<1> USE DEF WaitInv, IInv
<1>1. /\ UNCHANGED <<signaled_, lock_, waiters_, cursor, pc, sw, evs, result>>
      /\ deadline' = [deadline EXCEPT ![t] = "past"]
      /\ pc[t] \in {"check", "blocked"} /\ deadline[t] = "later"
  BY DEF Expire, kernelVars
<1>2. /\ \A x \in Threads \ {t} : Same(x) /\ cursor'[x] = cursor[x]
      /\ deadline'[t] = "past"
  BY <1>1 DEF Same, TypeOK
<1>3. (Waiting(t)' <=> Waiting(t)) /\ OwnPart(t)'
  BY <1>1 DEF Waiting, OwnPart, FiredByItsEvent, InTheWait
<1>4. WaitersListed' /\ PassedAreFired' /\ FiredByItsEvent'
  <2>1. Aside(t)  BY <1>1, <1>2 DEF Aside, Signalling
  <2> QED  BY <1>1, <1>3, <2>1, AsideKeeps
<1>5. On'[t] = On[t] /\ Sig'[t] = Sig[t] /\ Got'[t] = Got[t]  BY <1>1, <1>3, ViewOf
<1>6. CASE Waiting(t)
  <2>1. Left[t] = "later" /\ Left'[t] = "past"  BY <1>1, <1>2, <1>3, <1>6, ViewOf
  <2>2. /\ On' = [On EXCEPT ![t] = On[t]] /\ Left' = [Left EXCEPT ![t] = "past"]
        /\ Sig' = [Sig EXCEPT ![t] = Sig[t]] /\ Got' = [Got EXCEPT ![t] = Got[t]]
    BY <1>2, <1>5, <2>1, OthersStay
  <2>3. On' = On /\ Sig' = Sig /\ Got' = Got
    <3>1. On' = On  BY <2>2 DEF On
    <3>2. Sig' = Sig  BY <2>2 DEF Sig
    <3>3. Got' = Got  BY <2>2 DEF Got
    <3> QED  BY <3>1, <3>2, <3>3
  <2>4. Abstract!Expire(t)  BY <1>1, <2>1, <2>2, <2>3 DEF Abstract!Expire
  <2> QED  BY <1>4, <2>4 DEF Follows, Abstract!Next
<1>7. CASE ~ Waiting(t)
  <2>1. Left'[t] = Left[t]  BY <1>3, <1>7, ViewOf
  <2> QED  BY <1>1, <1>2, <1>4, <1>5, <2>1, Stutters DEF Follows
<1> QED  BY <1>6, <1>7

LEMMA CvWaitFollows ==
  ASSUME WaitInv, NEW t \in Threads, CvWait(t)
  PROVE  Follows
<1> USE DEF WaitInv, IInv
<1>1. Aside(t) /\ signaled_' = signaled_
  BY DEF CvWait, Goto, Aside, Same, Signalling, kernelVars, TypeOK
<1>2. /\ pc[t] = "check" /\ pc'[t] = "blocked" /\ UNCHANGED <<evs, deadline, result>>
      /\ sw'[t].fired = sw[t].fired /\ sw'[t].event = sw[t].event
  BY DEF CvWait, Goto, TypeOK, SyncWaiter
<1>3. (Waiting(t)' <=> Waiting(t)) /\ OwnPart(t)'
  BY <1>2 DEF Waiting, OwnPart, FiredByItsEvent, InTheWait
<1>4. On'[t] = On[t] /\ Left'[t] = Left[t] /\ Got'[t] = Got[t]
  BY <1>2, <1>3, ViewOf DEF InTheWait
<1> QED  BY <1>1, <1>2, <1>3, <1>4, AsideStutters

LEMMA CvReturnFollows ==
  ASSUME WaitInv, NEW t \in Threads, CvReturn(t)
  PROVE  Follows
<1> USE DEF WaitInv, IInv
<1>1. Aside(t) /\ signaled_' = signaled_
  BY DEF CvReturn, Goto, Aside, Same, Signalling, kernelVars, TypeOK
<1>2. /\ pc[t] = "blocked" /\ pc'[t] = "check" /\ UNCHANGED <<evs, deadline, result>>
      /\ sw'[t].fired = sw[t].fired /\ sw'[t].event = sw[t].event
  BY DEF CvReturn, Goto, TypeOK, SyncWaiter
<1>3. (Waiting(t)' <=> Waiting(t)) /\ OwnPart(t)'
  BY <1>2 DEF Waiting, OwnPart, FiredByItsEvent, InTheWait
<1>4. On'[t] = On[t] /\ Left'[t] = Left[t] /\ Got'[t] = Got[t]
  BY <1>2, <1>3, ViewOf DEF InTheWait
<1> QED  BY <1>1, <1>2, <1>3, <1>4, AsideStutters

LEMMA WaitManyFollows ==
  ASSUME WaitInv, NEW t \in Threads, NEW E \in SUBSET Events, WaitMany(t, E)
  PROVE  Follows
<1> USE DEF WaitInv, IInv
<1>1. Aside(t) /\ signaled_' = signaled_
  BY DEF WaitMany, Call, Goto, Aside, Same, Signalling, kernelVars, TypeOK
<1>2. pc[t] = "idle" /\ pc'[t] = "lock" /\ result'[t] = result[t]
  BY DEF WaitMany, Call, Goto, TypeOK
<1>3. ~ Waiting(t) /\ ~ Waiting(t)' /\ OwnPart(t)'  BY <1>2 DEF Waiting, OwnPart, InTheWait
<1>4. On'[t] = On[t] /\ Left'[t] = Left[t] /\ Got'[t] = Got[t]
  BY <1>2, <1>3, ViewOf DEF InTheWait
<1> QED  BY <1>1, <1>3, <1>4, AsideStutters

LEMMA LockOneFollows ==
  ASSUME WaitInv, NEW t \in Threads, NEW e \in Events, LockOne(t, e)
  PROVE  Follows
<1> USE DEF WaitInv, IInv
<1>1. Aside(t) /\ signaled_' = signaled_
  BY DEF LockOne, LockForMany, Aside, Same, Signalling, TypeOK
<1>2. pc[t] = "lock" /\ pc'[t] = "lock" /\ result'[t] = result[t]
  BY DEF LockOne, LockForMany
<1>3. ~ Waiting(t) /\ ~ Waiting(t)' /\ OwnPart(t)'  BY <1>2 DEF Waiting, OwnPart, InTheWait
<1>4. On'[t] = On[t] /\ Left'[t] = Left[t] /\ Got'[t] = Got[t]
  BY <1>2, <1>3, ViewOf DEF InTheWait
<1> QED  BY <1>1, <1>3, <1>4, AsideStutters

LEMMA ReleaseLockFollows ==
  ASSUME WaitInv, NEW t \in Threads, NEW e \in Events, ReleaseLock(t, e)
  PROVE  Follows
<1> USE DEF WaitInv, IInv
<1>1. /\ UNCHANGED <<signaled_, waiters_, sw, evs, deadline, result, cursor>>
      /\ lock_' = [lock_ EXCEPT ![e] = NoThread]
      /\ pc[t] \in {"unlock", "unwind"}
      /\ pc[t] = "unlock" => pc'[t] \in {"unlock", "check"}
      /\ pc[t] = "unwind" => pc'[t] \in {"unwind", "idle"}
      /\ \A x \in Threads \ {t} : pc'[x] = pc[x]
  BY DEF ReleaseLock, Goto, TypeOK
<1>2. Aside(t)  BY <1>1, EventAssumption DEF Aside, Same, Signalling, TypeOK
<1>3. (Waiting(t)' <=> Waiting(t)) /\ OwnPart(t)'
  BY <1>1 DEF Waiting, OwnPart, FiredByItsEvent, InTheWait
<1>4. On'[t] = On[t] /\ Left'[t] = Left[t] /\ Got'[t] = Got[t]
  BY <1>1, <1>3, ViewOf DEF InTheWait
<1> QED  BY <1>1, <1>2, <1>3, <1>4, AsideStutters

LEMMA StopWaitingManyFollows ==
  ASSUME WaitInv, NEW t \in Threads, StopWaitingMany(t)
  PROVE  Follows
<1> USE DEF WaitInv, IInv
<1>1. Aside(t) /\ signaled_' = signaled_
  BY DEF StopWaitingMany, Goto, Aside, Same, Signalling, kernelVars, TypeOK
<1>2. /\ pc[t] = "check" /\ pc'[t] \in {"idle", "leave"} /\ sw[t].fired
      /\ result'[t] = sw[t].event /\ sw'[t].fired
  BY DEF StopWaitingMany, Goto, TypeOK, SyncWaiter
<1>3. ~ Waiting(t) /\ ~ Waiting(t)' /\ OwnPart(t)'  BY <1>2 DEF Waiting, OwnPart, InTheWait
<1>4. On'[t] = On[t] /\ Left'[t] = Left[t] /\ Got'[t] = Got[t]
  BY <1>2, <1>3, ViewOf DEF InTheWait
<1> QED  BY <1>1, <1>3, <1>4, AsideStutters

(* A deadline that passes first is GiveUp; later signals are refused.      *)
LEMMA StopWaitingFollows ==
  ASSUME WaitInv, NEW t \in Threads, NEW e \in Events, StopWaiting(t, e)
  PROVE  Follows
<1> USE DEF WaitInv, IInv
<1>1. Aside(t) /\ signaled_' = signaled_
  BY DEF StopWaiting, Goto, Aside, Same, Signalling, kernelVars, TypeOK
<1>2. /\ pc[t] = "check" /\ evs[t] = {e} /\ pc'[t] = "leave" /\ sw'[t].fired
      /\ result'[t] = IF sw[t].fired THEN e ELSE NoEvent
      /\ sw[t].fired \/ deadline[t] = "past"
  BY DEF StopWaiting, Goto, TypeOK, SyncWaiter
<1>3. ~ Waiting(t)' /\ OwnPart(t)'  BY <1>2 DEF Waiting, OwnPart, InTheWait
<1>4. On'[t] = {} /\ Left'[t] = "never" /\ Got'[t] = Got[t] /\ Sig'[t] = Sig[t]
  BY <1>2, <1>3, ViewOf DEF InTheWait, FiredByItsEvent
<1>5. CASE sw[t].fired
  <2>1. On[t] = {} /\ Left[t] = "never"  BY <1>5, ViewOf DEF Waiting
  <2> QED  BY <1>1, <1>3, <1>4, <2>1, AsideStutters
<1>6. CASE ~ sw[t].fired
  <2>1. Left[t] = "past"  BY <1>2, <1>6, ViewOf DEF Waiting
  <2>2. /\ On' = [On EXCEPT ![t] = {}] /\ Left' = [Left EXCEPT ![t] = "never"]
        /\ Sig' = [Sig EXCEPT ![t] = Sig[t]] /\ Got' = [Got EXCEPT ![t] = Got[t]]
    BY <1>1, <1>4, OthersStay DEF Aside
  <2>3. Sig' = Sig /\ Got' = Got  BY <2>2 DEF Sig, Got
  <2>4. Abstract!GiveUp(t)  BY <1>1, <2>1, <2>2, <2>3 DEF Abstract!GiveUp, Abstract!Unblock
  <2> QED  BY <1>1, <1>3, <2>4, AsideKeeps DEF Follows, Abstract!Next
<1> QED  BY <1>5, <1>6

(* A call of t that begins and ends with this step, or gives back the      *)
(* locks it has taken: no thread's wait is affected.                       *)
LEMMA UnblockedValues ==
  ASSUME NEW t \in Threads, pc[t] \in {"idle", "lock"}, pc'[t] \in {"idle", "unwind"}
  PROVE  /\ On[t] = {} /\ Sig[t] = NoEvent /\ On'[t] = {} /\ Sig'[t] = NoEvent
         /\ Left[t] = "never" /\ Left'[t] = "never"
         /\ Got[t] = result[t] /\ Got'[t] = result'[t]
         /\ Abstract!Free(t)
         /\ ~ Waiting(t)' /\ OwnPart(t)'
<1>1. ~ Waiting(t) /\ ~ Waiting(t)' /\ OwnPart(t)'  BY DEF Waiting, OwnPart, InTheWait
<1>2. /\ On[t] = {} /\ Sig[t] = NoEvent /\ On'[t] = {} /\ Sig'[t] = NoEvent
      /\ Left[t] = "never" /\ Left'[t] = "never"
      /\ Got[t] = result[t] /\ Got'[t] = result'[t]
  BY <1>1, ViewOf DEF InTheWait
<1> QED  BY <1>1, <1>2 DEF Abstract!Free

(* Such a call takes what it finds, or finds nothing.                      *)
LEMMA TakeFollows ==
  ASSUME WaitInv, NEW t \in Threads, NEW e \in Events, Aside(t), signaled_[e], Consume(e),
         pc[t] \in {"idle", "lock"}, pc'[t] \in {"idle", "unwind"}, result'[t] = e
  PROVE  Follows
<1>1. /\ On' = [On EXCEPT ![t] = {}] /\ Left' = [Left EXCEPT ![t] = "never"]
      /\ Sig' = [Sig EXCEPT ![t] = NoEvent] /\ Got' = [Got EXCEPT ![t] = e]
  BY OthersStay, UnblockedValues DEF Aside
<1>2. On' = On /\ Left' = Left /\ Sig' = Sig
  <2>1. On[t] = {} /\ Left[t] = "never" /\ Sig[t] = NoEvent  BY UnblockedValues
  <2>2. On' = On  BY <1>1, <2>1 DEF On
  <2>3. Left' = Left  BY <1>1, <2>1 DEF Left
  <2>4. Sig' = Sig  BY <1>1, <2>1 DEF Sig
  <2> QED  BY <2>2, <2>3, <2>4
<1>3. Abstract!Consume(e)  BY DEF Consume, Abstract!Consume
<1>4. Abstract!Take(t, e)  BY <1>1, <1>2, <1>3, UnblockedValues DEF Abstract!Take
<1> QED  BY <1>4, AsideKeeps, UnblockedValues DEF Follows, Abstract!Next

LEMMA ResetFollows ==
  ASSUME WaitInv, NEW t \in Threads, NEW e \in Events, Reset(t, e)
  PROVE  Follows
<1>1. Aside(t) /\ UNCHANGED <<pc, sw, evs, deadline, result>> /\ pc[t] = "idle"
  BY DEF Reset, Call, localVars, Aside, Same, Signalling
<1>2. On' = On /\ Left' = Left /\ Sig' = Sig /\ Got' = Got
  BY <1>1 DEF On, Left, Sig, Got, Waiting
<1>3. Abstract!Reset(e)  BY <1>2 DEF Reset, Abstract!Reset
<1>4. ~ Waiting(t)' /\ OwnPart(t)'  BY <1>1, UnblockedValues
<1> QED  BY <1>1, <1>3, <1>4, AsideKeeps DEF Follows, Abstract!Next

LEMMA IsSignaledFollows ==
  ASSUME WaitInv, NEW t \in Threads, NEW e \in Events, IsSignaled(t, e)
  PROVE  Follows
<1> USE DEF WaitInv, IInv
<1>1. /\ Aside(t) /\ pc[t] = "idle" /\ pc'[t] = "idle"
      /\ result'[t] = IF signaled_[e] THEN e ELSE NoEvent
  BY DEF IsSignaled, Call, Aside, Same, Signalling, TypeOK
<1>2. CASE signaled_[e]
  <2>1. Consume(e)  BY <1>2 DEF IsSignaled
  <2> QED  BY <1>1, <1>2, <2>1, TakeFollows
<1>3. CASE ~ signaled_[e]
  <2>0. /\ On'[t] = {} /\ Left'[t] = "never" /\ Sig'[t] = NoEvent /\ Got'[t] = NoEvent
        /\ \A x \in Threads \ {t} : Same(x)
    BY <1>1, <1>3, UnblockedValues DEF Aside
  <2>1. /\ On' = [On EXCEPT ![t] = {}] /\ Left' = [Left EXCEPT ![t] = "never"]
        /\ Sig' = [Sig EXCEPT ![t] = NoEvent] /\ Got' = [Got EXCEPT ![t] = NoEvent]
    <3> HIDE DEF WaitInv, IInv
    <3> QED  BY <2>0, OthersStay
  <2>2. On' = On /\ Left' = Left /\ Sig' = Sig
    <3>1. On[t] = {} /\ Left[t] = "never" /\ Sig[t] = NoEvent  BY <1>1, UnblockedValues
    <3>2. On' = On  BY <2>1, <3>1 DEF On
    <3>3. Left' = Left  BY <2>1, <3>1 DEF Left
    <3>4. Sig' = Sig  BY <2>1, <3>1 DEF Sig
    <3> QED  BY <3>2, <3>3, <3>4
  <2>3. signaled_' = signaled_  BY <1>3 DEF IsSignaled
  <2>4. Abstract!Miss(t, e)  BY <1>1, <1>3, <2>1, <2>2, <2>3, UnblockedValues DEF Abstract!Miss
  <2> QED  BY <1>1, <2>4, AsideKeeps, UnblockedValues DEF Follows, Abstract!Next
<1> QED  BY <1>2, <1>3

LEMMA FindSignaledFollows ==
  ASSUME WaitInv, NEW t \in Threads, NEW e \in Events, FindSignaled(t, e)
  PROVE  Follows
<1> USE DEF WaitInv, IInv
<1>1. /\ Aside(t) /\ pc[t] = "lock" /\ pc'[t] \in {"idle", "unwind"} /\ result'[t] = e
      /\ signaled_[e] /\ Consume(e)
  BY DEF FindSignaled, LockForMany, Goto, Aside, Same, Signalling, TypeOK
<1> QED  BY <1>1, TakeFollows

LEMMA SignalFollows ==
  ASSUME WaitInv, NEW t \in Threads, NEW e \in Events, Signal(t, e)
  PROVE  Follows
<1> USE DEF WaitInv, IInv
<1>1. pc[t] = "idle" /\ UNCHANGED <<signaled_, waiters_, sw, result>>
  BY DEF Signal, Call, localVars
<1>2. CASE signaled_[e]
  <2>1. Aside(t) /\ pc'[t] = "idle"
    BY <1>1, <1>2 DEF Signal, localVars, Aside, Same, Signalling
  <2>2. /\ On'[t] = On[t] /\ Left'[t] = Left[t] /\ Got'[t] = Got[t]
        /\ OwnPart(t)' /\ ~ Waiting(t)'
    BY <1>1, <2>1, UnblockedValues
  <2> QED  BY <1>1, <2>1, <2>2, AsideStutters
<1>3. CASE ~ signaled_[e]
  <2>1. /\ pc' = [pc EXCEPT ![t] = "fire"] /\ evs' = [evs EXCEPT ![t] = {e}]
        /\ cursor' = [cursor EXCEPT ![t] = 1] /\ lock_' = [lock_ EXCEPT ![e] = t]
        /\ deadline' = deadline
    BY <1>3 DEF Signal, Goto
  <2>2. /\ pc'[t] = "fire" /\ evs'[t] = {e} /\ cursor'[t] = 1
        /\ \A x \in Threads \ {t} : Same(x) /\ cursor'[x] = cursor[x]
    BY <1>1, <2>1 DEF TypeOK, Same
  <2>3. ~ Waiting(t) /\ ~ Waiting(t)' /\ OwnPart(t)'
    BY <1>1, <2>2 DEF Waiting, OwnPart, InTheWait
  <2>4. \A f \in Events : \A i \in 1 .. Len(waiters_[f]) : Passed(f, i)' => Passed(f, i)
    <3> SUFFICES ASSUME NEW f \in Events, NEW i \in 1 .. Len(waiters_[f]), NEW s \in Threads,
                        lock_'[f] = s,
                        \/ pc'[s] = "fire" /\ i < cursor'[s]
                        \/ pc'[s] \in {"popRetry", "popReturn"} /\ i = 1
                 PROVE  Passed(f, i)
      BY DEF Passed
    <3>1. s # t  BY <2>2
    <3> QED  BY <2>1, <2>2, <3>1 DEF TypeOK, Passed, Same
  <2>5. WaitersListed' /\ PassedAreFired' /\ FiredByItsEvent'
    BY <1>1, <2>2, <2>3, <2>4, ListsStay
  <2>6. /\ On[t] = {} /\ On'[t] = {} /\ Left'[t] = Left[t]
        /\ Got'[t] = Got[t] /\ Sig[t] = NoEvent /\ Sig'[t] = e
    <3>1. Sig'[t] = TheOnly({e})  BY <2>2, ViewOf
    <3> QED  BY <1>1, <2>2, <2>3, <3>1, ViewOf, OnlyOne DEF InTheWait
  <2>7. /\ On' = [On EXCEPT ![t] = On[t]] /\ Left' = [Left EXCEPT ![t] = Left[t]]
        /\ Got' = [Got EXCEPT ![t] = Got[t]] /\ Sig' = [Sig EXCEPT ![t] = e]
    BY <2>2, <2>6, OthersStay
  <2>8. On' = On /\ Left' = Left /\ Got' = Got
    <3>1. On' = On  BY <2>7 DEF On
    <3>2. Left' = Left  BY <2>7 DEF Left
    <3>3. Got' = Got  BY <2>7 DEF Got
    <3> QED  BY <3>1, <3>2, <3>3
  <2>9. Abstract!BeginSignal(t, e)
    BY <1>1, <1>3, <2>6, <2>7, <2>8 DEF Abstract!BeginSignal, Abstract!Free
  <2> QED  BY <2>5, <2>9 DEF Follows, Abstract!Next
<1> QED  BY <1>2, <1>3

(* A thread blocks, in the list of each of its events, with none set; the  *)
(* lists it joins are locked by nobody else.                               *)
LEMMA BlockFollows ==
  ASSUME WaitInv, NEW t \in Threads, NEW E \in SUBSET Events, E # {},
         pc[t] \in {"idle", "lock"}, pc'[t] \in {"check", "unlock"}, evs'[t] = E,
         NEW d \in {"never", "later"}, deadline'[t] = d,
         sw'[t] = NewWaiter, signaled_' = signaled_, \A e \in E : ~ signaled_[e],
         \A e \in Events : waiters_'[e] = IF e \in E THEN Append(waiters_[e], t) ELSE waiters_[e],
         \A x \in Threads \ {t} : Same(x) /\ cursor'[x] = cursor[x],
         \A e \in Events : lock_'[e] \in Threads \ {t} => lock_'[e] = lock_[e] /\ e \notin E
  PROVE  Follows
<1> USE DEF WaitInv, IInv
<1>1. sw'[t].fired = FALSE /\ sw'[t].event = NoEvent  BY DEF NewWaiter
<1>2. /\ ~ Waiting(t) /\ Waiting(t)' /\ OwnPart(t)'
      /\ \A x \in Threads \ {t} : Waiting(x)' => Waiting(x) /\ evs'[x] = evs[x]
  BY <1>1 DEF Waiting, OwnPart, InTheWait, Same
<1>3. \A e \in E : /\ Len(waiters_'[e]) = Len(waiters_[e]) + 1 /\ Len(waiters_[e]) \in Nat
                   /\ waiters_'[e][Len(waiters_[e]) + 1] = t
                   /\ \A i \in 1 .. Len(waiters_[e]) : waiters_'[e][i] = waiters_[e][i]
  <2> TAKE e \in E
  <2>1. waiters_[e] \in Seq(Threads) /\ waiters_'[e] = Append(waiters_[e], t)  BY DEF TypeOK
  <2>2. Len(waiters_[e]) \in Nat  BY <2>1, LenProperties
  <2> QED  BY <2>1, <2>2, AppendEntry
<1>4. WaitersListed'
  <2> SUFFICES ASSUME NEW x \in Threads, Waiting(x)', NEW e \in evs'[x]
               PROVE  \E i \in 1 .. Len(waiters_'[e]) : waiters_'[e][i] = x
    BY DEF WaitersListed
  <2>1. CASE x = t  BY <1>3, <2>1
  <2>2. CASE x # t
    <3>1. e \in Events  BY <1>2, <2>2 DEF TypeOK
    <3>2. PICK i \in 1 .. Len(waiters_[e]) : waiters_[e][i] = x  BY <1>2, <2>2 DEF WaitersListed
    <3>3. CASE e \in E
      <4>1. i \in 1 .. Len(waiters_'[e])  BY <1>3, <3>3
      <4> QED  BY <1>3, <3>2, <3>3, <4>1
    <3>4. CASE e \notin E  BY <3>1, <3>2, <3>4
    <3> QED  BY <3>3, <3>4
  <2> QED  BY <2>1, <2>2
<1>5. PassedAreFired'
  <2> SUFFICES ASSUME NEW e \in Events, NEW i \in 1 .. Len(waiters_'[e]), Passed(e, i)',
                      NEW u, u = waiters_'[e][i], Waiting(u)', e \in evs'[u]
               PROVE  FALSE
    BY DEF PassedAreFired
  <2>1. e \notin E /\ Passed(e, i)
    BY DEF Passed, Same
  <2>2. waiters_'[e] = waiters_[e]  BY <2>1
  <2>3. u = waiters_[e][i] /\ u \in Threads  BY <2>2, EntryTyped
  <2>4. u # t  BY <2>1
  <2> QED  BY <1>2, <2>1, <2>2, <2>3, <2>4 DEF PassedAreFired
<1>6. FiredByItsEvent'
  <2> SUFFICES ASSUME NEW x \in Threads PROVE OwnPart(x)'
    BY DEF FiredByItsEvent, OwnPart, InTheWait
  <2>1. CASE x # t
    <3>1. OwnPart(x)  BY DEF FiredByItsEvent, OwnPart, InTheWait
    <3> QED  BY <2>1, <3>1 DEF OwnPart, Same
  <2> QED  BY <1>2, <2>1
<1>7. /\ On[t] = {} /\ On'[t] = E /\ Left'[t] = d /\ Sig[t] = NoEvent /\ Sig'[t] = NoEvent /\ Got'[t] = NoEvent
  BY <1>1, <1>2, ViewOf DEF InTheWait
<1>8. /\ On' = [On EXCEPT ![t] = E] /\ Left' = [Left EXCEPT ![t] = d]
      /\ Sig' = [Sig EXCEPT ![t] = Sig[t]] /\ Got' = [Got EXCEPT ![t] = NoEvent]
  BY <1>7, OthersStay
<1>9. Sig' = Sig  BY <1>8 DEF Sig
<1>10. Abstract!Block(t, E, d)  BY <1>7, <1>8, <1>9 DEF Abstract!Block, Abstract!Free
<1> QED  BY <1>4, <1>5, <1>6, <1>10 DEF Follows, Abstract!Next

LEMMA TimedWaitFollows ==
  ASSUME WaitInv, NEW t \in Threads, NEW e \in Events, NEW d \in {"never", "later"},
         TimedWait(t, e, d)
  PROVE  Follows
<1> USE DEF WaitInv, IInv
<1>1. pc[t] = "idle" /\ UNCHANGED <<lock_, cursor>> /\ lock_[e] = NoThread
  BY DEF TimedWait, Call, Unlocked
<1>2. CASE signaled_[e]
  <2>1. /\ Consume(e) /\ result' = [result EXCEPT ![t] = e]
        /\ UNCHANGED <<waiters_, sw, pc, call, evs, deadline>>
    BY <1>2 DEF TimedWait
  <2>2. Aside(t) /\ result'[t] = e  BY <1>1, <2>1 DEF Aside, Same, Signalling, TypeOK
  <2> QED  BY <1>1, <1>2, <2>1, <2>2, TakeFollows
<1>3. CASE ~ signaled_[e]
  <2>1. /\ waiters_' = [waiters_ EXCEPT ![e] = Append(@, t)] /\ sw' = [sw EXCEPT ![t] = NewWaiter]
        /\ pc' = [pc EXCEPT ![t] = "check"] /\ evs' = [evs EXCEPT ![t] = {e}]
        /\ deadline' = [deadline EXCEPT ![t] = d]
        /\ UNCHANGED <<signaled_, result>>
    BY <1>3 DEF TimedWait, Goto
  <2>2. \A x \in Threads \ {t} : Same(x) /\ cursor'[x] = cursor[x]
    BY <1>1, <2>1 DEF Same, TypeOK
  <2>3. pc'[t] = "check" /\ evs'[t] = {e} /\ sw'[t] = NewWaiter /\ deadline'[t] = d  BY <2>1 DEF TypeOK
  <2>4. \A f \in Events : waiters_'[f] = IF f \in {e} THEN Append(waiters_[f], t) ELSE waiters_[f]
    BY <2>1 DEF TypeOK
  <2>5. \A f \in Events : lock_'[f] \in Threads \ {t} => lock_'[f] = lock_[f] /\ f \notin {e}
    BY <1>1, EventAssumption
  <2> DEFINE E == {e}
  <2>6. E \in SUBSET Events /\ E # {} /\ \A f \in E : ~ signaled_[f]  BY <1>3
  <2> HIDE DEF E, WaitInv, IInv
  <2>7. evs'[t] = E  BY <2>3 DEF E
  <2>8. /\ \A f \in Events : waiters_'[f] = IF f \in E THEN Append(waiters_[f], t) ELSE waiters_[f]
        /\ \A f \in Events : lock_'[f] \in Threads \ {t} => lock_'[f] = lock_[f] /\ f \notin E
    BY <2>4, <2>5 DEF E
  <2> QED  BY <1>1, <2>1, <2>2, <2>3, <2>6, <2>7, <2>8, BlockFollows
<1> QED  BY <1>2, <1>3

LEMMA EnqueueAllFollows ==
  ASSUME WaitInv, NEW t \in Threads, NEW e \in Events, EnqueueAll(t, e)
  PROVE  Follows
<1> USE DEF WaitInv, IInv
<1>1. /\ pc[t] = "lock" /\ ~ signaled_[e] /\ todo[t] = {e} /\ lock_[e] = NoThread
      /\ lock_' = [lock_ EXCEPT ![e] = t]
      /\ waiters_' = [f \in Events |-> IF f \in evs[t] THEN Append(waiters_[f], t)
                                                       ELSE waiters_[f]]
      /\ sw' = [sw EXCEPT ![t] = NewWaiter]
      /\ pc' = [pc EXCEPT ![t] = "unlock"]
      /\ UNCHANGED <<signaled_, evs, deadline, cursor, result>>
  BY DEF EnqueueAll, LockForMany, Unlocked, Goto
<1>2. evs[t] \in SUBSET Events /\ evs[t] # {}  BY <1>1 DEF TypeOK, FramesMatch, Frame
<1>3. \A f \in evs[t] : f # e => lock_[f] = t /\ ~ signaled_[f]
  BY <1>1, <1>2 DEF LocksMatch, LockedAreUnset, Holds
<1>4. \A x \in Threads \ {t} : Same(x) /\ cursor'[x] = cursor[x]  BY <1>1 DEF Same, TypeOK
<1>5. pc'[t] = "unlock" /\ sw'[t] = NewWaiter /\ evs'[t] = evs[t]  BY <1>1 DEF TypeOK
<1>6. \A f \in Events : lock_'[f] \in Threads \ {t} => lock_'[f] = lock_[f] /\ f \notin evs[t]
  BY <1>1, <1>3 DEF TypeOK
<1> DEFINE E == evs[t]
<1>7. E \in SUBSET Events /\ E # {} /\ (\A f \in E : ~ signaled_[f]) /\ evs'[t] = E
  BY <1>1, <1>2, <1>3, <1>5
<1>8. /\ \A f \in Events : waiters_'[f] = IF f \in E THEN Append(waiters_[f], t) ELSE waiters_[f]
      /\ \A f \in Events : lock_'[f] \in Threads \ {t} => lock_'[f] = lock_[f] /\ f \notin E
  BY <1>1, <1>6
<1>9. pc[t] \in {"idle", "lock"} /\ pc'[t] \in {"check", "unlock"} /\ signaled_' = signaled_
      /\ deadline'[t] = "never"
  BY <1>1, <1>5 DEF DeadlinesMatch
<1> HIDE DEF E, WaitInv, IInv
<1> QED  BY <1>4, <1>5, <1>7, <1>8, <1>9, BlockFollows

(* A step in which t gets on with its signal, and no thread's wait begins  *)
(* or ends: what it drops from the lists belongs to nobody that waits.     *)
LEMMA SignallerMoves ==
  ASSUME WaitInv, NEW t \in Threads, \A x \in Threads \ {t} : Same(x),
         ~ Waiting(t)', OwnPart(t)',
         \A e \in Events : \A x \in Threads :
           Waiting(x) /\ e \in evs[x] /\ (\E i \in 1 .. Len(waiters_[e]) : waiters_[e][i] = x) =>
             \E i \in 1 .. Len(waiters_'[e]) : waiters_'[e][i] = x,
         \A e \in Events : \A i \in 1 .. Len(waiters_'[e]) :
           Passed(e, i)' => Passed(e, i) /\ waiters_'[e] = waiters_[e]
  PROVE  WaitersListed' /\ PassedAreFired' /\ FiredByItsEvent'
<1> USE DEF WaitInv, IInv
<1>1. \A x \in Threads : Waiting(x)' => Waiting(x) /\ evs'[x] = evs[x] /\ evs[x] \in SUBSET Events
  BY DEF Same, Waiting, TypeOK
<1>2. WaitersListed'
  <2> SUFFICES ASSUME NEW x \in Threads, Waiting(x)', NEW e \in evs'[x]
               PROVE  \E i \in 1 .. Len(waiters_'[e]) : waiters_'[e][i] = x
    BY DEF WaitersListed
  <2>1. Waiting(x) /\ e \in evs[x] /\ e \in Events  BY <1>1
  <2>2. \E i \in 1 .. Len(waiters_[e]) : waiters_[e][i] = x  BY <2>1 DEF WaitersListed
  <2> QED  BY <2>1, <2>2
<1>3. PassedAreFired'
  <2> SUFFICES ASSUME NEW e \in Events, NEW i \in 1 .. Len(waiters_'[e]), Passed(e, i)',
                      NEW u, u = waiters_'[e][i], Waiting(u)', e \in evs'[u]
               PROVE  FALSE
    BY DEF PassedAreFired
  <2>1. Passed(e, i) /\ waiters_'[e] = waiters_[e]  OBVIOUS
  <2>2. u = waiters_[e][i] /\ u \in Threads  BY <2>1, EntryTyped
  <2> QED  BY <1>1, <2>1, <2>2 DEF PassedAreFired
<1>4. FiredByItsEvent'
  <2> SUFFICES ASSUME NEW x \in Threads PROVE OwnPart(x)'
    BY DEF FiredByItsEvent, OwnPart, InTheWait
  <2>1. CASE x # t
    <3>1. OwnPart(x)  BY DEF FiredByItsEvent, OwnPart, InTheWait
    <3> QED  BY <2>1, <3>1 DEF OwnPart, Same
  <2> QED  BY <2>1
<1> QED  BY <1>2, <1>3, <1>4

LEMMA DequeueFollows ==
  ASSUME WaitInv, NEW t \in Threads, NEW e \in Events, Dequeue(t, e)
  PROVE  Follows
<1> USE DEF WaitInv, IInv
<1> DEFINE q == waiters_[e]
           r == RemoveFirst(q, t)
<1>1. /\ pc[t] = "leave" /\ lock_[e] = NoThread /\ waiters_' = [waiters_ EXCEPT ![e] = r]
      /\ UNCHANGED <<signaled_, lock_, sw, evs, deadline, cursor, result>>
      /\ pc'[t] \in {"leave", "idle"} /\ \A x \in Threads \ {t} : pc'[x] = pc[x]
  BY DEF Dequeue, Unlocked, Goto, TypeOK
<1>2. q \in Seq(Threads) /\ Len(q) \in Nat  BY LenProperties DEF TypeOK
<1>3. Erased(q, t, r)  BY <1>2, RemoveFirstEntry, Zenon
<1>4. Len(r) \in Nat  BY <1>2, RemoveFirstEntry, LenProperties
<1>5. waiters_'[e] = r /\ \A f \in Events : f # e => waiters_'[f] = waiters_[f]
  BY <1>1 DEF TypeOK
<1> HIDE DEF q, r
<1>6. \A x \in Threads \ {t} : (\E i \in 1 .. Len(q) : q[i] = x) => \E i \in 1 .. Len(r) : r[i] = x
  <2> SUFFICES ASSUME NEW x \in Threads \ {t}, NEW i \in 1 .. Len(q), q[i] = x
               PROVE  \E j \in 1 .. Len(r) : r[j] = x
    OBVIOUS
  <2>1. CASE r = q  BY <2>1
  <2>2. CASE \E k \in 1 .. Len(q) :
               /\ q[k] = t
               /\ Len(r) = Len(q) - 1
               /\ \A j \in 1 .. Len(r) : r[j] = q[IF j < k THEN j ELSE j + 1]
    <3>1. PICK k \in 1 .. Len(q) :
                 /\ q[k] = t
                 /\ Len(r) = Len(q) - 1
                 /\ \A j \in 1 .. Len(r) : r[j] = q[IF j < k THEN j ELSE j + 1]
      BY <2>2
    <3>2. i # k  BY <3>1
    <3>3. CASE i < k
      <4>1. i \in 1 .. Len(r)  BY <1>2, <3>1, <3>3
      <4> QED  BY <3>1, <3>3, <4>1
    <3>4. CASE k < i
      <4>1. i - 1 \in 1 .. Len(r) /\ ~ (i - 1 < k) /\ (i - 1) + 1 = i  BY <1>2, <3>1, <3>4
      <4> QED  BY <3>1, <4>1
    <3> QED  BY <1>2, <3>2, <3>3, <3>4
  <2> QED  BY <1>3, <2>1, <2>2 DEF Erased
<1>7. \A x \in Threads \ {t} : Same(x)  BY <1>1 DEF Same
<1>8. ~ Waiting(t) /\ ~ Waiting(t)' /\ OwnPart(t)'
  BY <1>1 DEF Waiting, OwnPart, InTheWait, FiredByItsEvent
<1>9. \A f \in Events : \A x \in Threads :
        Waiting(x) /\ f \in evs[x] /\ (\E i \in 1 .. Len(waiters_[f]) : waiters_[f][i] = x) =>
          \E i \in 1 .. Len(waiters_'[f]) : waiters_'[f][i] = x
  BY <1>5, <1>6, <1>8 DEF q
<1>10. \A f \in Events : \A i \in 1 .. Len(waiters_'[f]) :
         Passed(f, i)' => Passed(f, i) /\ waiters_'[f] = waiters_[f]
  <2> SUFFICES ASSUME NEW f \in Events, NEW i \in 1 .. Len(waiters_'[f]), Passed(f, i)'
               PROVE  Passed(f, i) /\ f # e
    BY <1>5
  <2> QED  BY <1>1, EventAssumption DEF Passed
<1>11. WaitersListed' /\ PassedAreFired' /\ FiredByItsEvent'
  BY <1>7, <1>8, <1>9, <1>10, SignallerMoves
<1>12. On'[t] = On[t] /\ Left'[t] = Left[t] /\ Sig'[t] = Sig[t] /\ Got'[t] = Got[t]
  BY <1>1, <1>8, ViewOf DEF InTheWait
<1> QED  BY <1>1, <1>7, <1>11, <1>12, Stutters DEF Follows

(* The waiter that SignalOne drops has been fired, or was before.          *)
LEMMA PopFrontFollows ==
  ASSUME WaitInv, NEW t \in Threads, NEW e \in Events, PopFront(t, e)
  PROVE  Follows
<1> USE DEF WaitInv, IInv
<1> DEFINE q == waiters_[e]
<1>1. /\ pc[t] \in {"popRetry", "popReturn"} /\ evs[t] = {e}
      /\ waiters_' = [waiters_ EXCEPT ![e] = Tail(q)]
      /\ UNCHANGED <<signaled_, sw, evs, deadline, cursor, result>>
      /\ \A x \in Threads \ {t} : pc'[x] = pc[x]
      /\ pc[t] = "popRetry" => pc'[t] = "fire" /\ lock_' = lock_
      /\ pc[t] = "popReturn" => pc'[t] = "idle" /\ lock_' = [lock_ EXCEPT ![e] = NoThread]
  BY DEF PopFront, Goto, TypeOK
<1>2. lock_[e] = t /\ q # <<>> /\ q \in Seq(Threads) /\ cursor[t] = 1
  BY <1>1 DEF LocksMatch, Holds, FramesMatch, Frame, Signalling, TypeOK
<1>3. Len(q) \in Nat \ {0} /\ Len(Tail(q)) = Len(q) - 1
        /\ \A i \in 1 .. Len(q) - 1 : Tail(q)[i] = q[i + 1]
  BY <1>2, HeadTailProperties, EmptySeq
<1>4. waiters_'[e] = Tail(q) /\ \A f \in Events : f # e => waiters_'[f] = waiters_[f]
  BY <1>1 DEF TypeOK
<1>5. \A x \in Threads \ {t} : Same(x)  BY <1>1 DEF Same
<1>6. ~ Waiting(t) /\ ~ Waiting(t)' /\ OwnPart(t)'  BY <1>1 DEF Waiting, OwnPart, InTheWait
<1>7. Passed(e, 1)  BY <1>1, <1>2 DEF Passed
<1> HIDE DEF q
<1>8. \A f \in Events : \A x \in Threads :
        Waiting(x) /\ f \in evs[x] /\ (\E i \in 1 .. Len(waiters_[f]) : waiters_[f][i] = x) =>
          \E i \in 1 .. Len(waiters_'[f]) : waiters_'[f][i] = x
  <2> SUFFICES ASSUME NEW f \in Events, NEW x \in Threads, Waiting(x), f \in evs[x],
                      NEW i \in 1 .. Len(waiters_[f]), waiters_[f][i] = x
               PROVE  \E j \in 1 .. Len(waiters_'[f]) : waiters_'[f][j] = x
    OBVIOUS
  <2>1. CASE f # e
    <3>1. waiters_'[f] = waiters_[f]  BY <1>4, <2>1
    <3> QED  BY <3>1
  <2>2. CASE f = e
    <3>1. i \in 1 .. Len(q) /\ q[i] = x  BY <2>2 DEF q
    <3>2. i # 1
      <4>1. 1 \in 1 .. Len(q)  BY <1>3
      <4> QED  BY <1>7, <2>2, <4>1 DEF PassedAreFired, q
    <3>3. i - 1 \in 1 .. Len(q) - 1 /\ (i - 1) + 1 = i  BY <1>3, <3>1, <3>2
    <3>4. i - 1 \in 1 .. Len(Tail(q)) /\ Tail(q)[i - 1] = x  BY <1>3, <3>1, <3>3
    <3> QED  BY <1>4, <2>2, <3>4
  <2> QED  BY <2>1, <2>2
<1>9. \A f \in Events : \A i \in 1 .. Len(waiters_'[f]) :
        Passed(f, i)' => Passed(f, i) /\ waiters_'[f] = waiters_[f]
  <2> SUFFICES ASSUME NEW f \in Events, NEW i \in 1 .. Len(waiters_'[f]), NEW s \in Threads,
                      lock_'[f] = s,
                      \/ pc'[s] = "fire" /\ i < cursor'[s]
                      \/ pc'[s] \in {"popRetry", "popReturn"} /\ i = 1
               PROVE  Passed(f, i) /\ f # e
    BY <1>4 DEF Passed
  <2>1. s # t
    <3>1. ~ (i < 1)  BY <1>3, <1>4 DEF TypeOK
    <3> QED  BY <1>1, <1>2, <3>1
  <2>2. f # e  BY <1>1, <1>2, <2>1, EventAssumption DEF TypeOK
  <2>3. lock_[f] = s  BY <1>1, <2>2 DEF TypeOK
  <2> QED  BY <1>1, <2>1, <2>2, <2>3 DEF Passed
<1>10. WaitersListed' /\ PassedAreFired' /\ FiredByItsEvent'
  BY <1>5, <1>6, <1>8, <1>9, SignallerMoves
<1>11. On'[t] = On[t] /\ Left'[t] = Left[t] /\ Sig'[t] = Sig[t] /\ Got'[t] = Got[t]
  BY <1>1, <1>6, ViewOf DEF InTheWait
<1> QED  BY <1>1, <1>5, <1>10, <1>11, Stutters DEF Follows

(* Everyone in the list has been fired, or was before: nobody is left who  *)
(* waits for the event that becomes set.                                   *)
LEMMA SignalEndFollows ==
  ASSUME WaitInv, NEW t \in Threads, NEW e \in Events, SignalEnd(t, e)
  PROVE  Follows
<1> USE DEF WaitInv, IInv
<1>1. /\ pc[t] = "fire" /\ evs[t] = {e} /\ cursor[t] > Len(waiters_[e])
      /\ waiters_' = [waiters_ EXCEPT ![e] = <<>>]
      /\ signaled_' = [signaled_ EXCEPT ![e] = TRUE]
      /\ lock_' = [lock_ EXCEPT ![e] = NoThread]
      /\ pc' = [pc EXCEPT ![t] = "idle"]
      /\ UNCHANGED <<sw, evs, deadline, cursor, result>>
  BY DEF SignalEnd, Goto
<1>2. lock_[e] = t /\ Len(waiters_[e]) \in Nat /\ cursor[t] \in Nat
  BY <1>1, LenProperties DEF LocksMatch, Holds, Signalling, TypeOK
<1>3. /\ waiters_'[e] = <<>> /\ \A f \in Events : f # e => waiters_'[f] = waiters_[f]
      /\ pc'[t] = "idle" /\ \A x \in Threads \ {t} : pc'[x] = pc[x]
  BY <1>1 DEF TypeOK
<1>4. \A x \in Threads : ~ (Waiting(x) /\ e \in evs[x])
  <2> SUFFICES ASSUME NEW x \in Threads, Waiting(x), e \in evs[x] PROVE FALSE
    OBVIOUS
  <2>1. PICK i \in 1 .. Len(waiters_[e]) : waiters_[e][i] = x  BY DEF WaitersListed
  <2>2. i < cursor[t]  BY <1>1, <1>2
  <2>3. Passed(e, i)  BY <1>1, <1>2, <2>2 DEF Passed
  <2> QED  BY <2>1, <2>3 DEF PassedAreFired
<1>5. \A x \in Threads \ {t} : Same(x)  BY <1>1, <1>3 DEF Same
<1>6. ~ Waiting(t) /\ ~ Waiting(t)' /\ OwnPart(t)'
  BY <1>1, <1>3 DEF Waiting, OwnPart, InTheWait
<1>7. \A f \in Events : \A x \in Threads :
        Waiting(x) /\ f \in evs[x] /\ (\E i \in 1 .. Len(waiters_[f]) : waiters_[f][i] = x) =>
          \E i \in 1 .. Len(waiters_'[f]) : waiters_'[f][i] = x
  BY <1>3, <1>4
<1>8. \A f \in Events : \A i \in 1 .. Len(waiters_'[f]) :
        Passed(f, i)' => Passed(f, i) /\ waiters_'[f] = waiters_[f]
  <2> SUFFICES ASSUME NEW f \in Events, NEW i \in 1 .. Len(waiters_'[f]), NEW s \in Threads,
                      lock_'[f] = s,
                      \/ pc'[s] = "fire" /\ i < cursor'[s]
                      \/ pc'[s] \in {"popRetry", "popReturn"} /\ i = 1
               PROVE  Passed(f, i) /\ f # e
    BY <1>3 DEF Passed
  <2>1. f # e /\ s # t  BY <1>1, <1>3, EventAssumption DEF TypeOK
  <2>2. lock_[f] = s  BY <1>1, <2>1 DEF TypeOK
  <2> QED  BY <1>1, <1>3, <2>1, <2>2 DEF Passed
<1>9. WaitersListed' /\ PassedAreFired' /\ FiredByItsEvent'
  BY <1>5, <1>6, <1>7, <1>8, SignallerMoves
<1>10. Sig[t] = e
  <2>1. Sig[t] = TheOnly({e})  BY <1>1, ViewOf
  <2> QED  BY <2>1, OnlyOne
<1>11. Sig'[t] = NoEvent /\ On'[t] = On[t] /\ Left'[t] = Left[t] /\ Got'[t] = Got[t]
  BY <1>1, <1>3, <1>6, ViewOf DEF InTheWait
<1>12. /\ On' = [On EXCEPT ![t] = On[t]] /\ Left' = [Left EXCEPT ![t] = Left[t]]
       /\ Got' = [Got EXCEPT ![t] = Got[t]] /\ Sig' = [Sig EXCEPT ![t] = NoEvent]
  BY <1>5, <1>11, OthersStay
<1>13. On' = On /\ Left' = Left /\ Got' = Got
  <2>1. On' = On  BY <1>12 DEF On
  <2>2. Left' = Left  BY <1>12 DEF Left
  <2>3. Got' = Got  BY <1>12 DEF Got
  <2> QED  BY <2>1, <2>2, <2>3
<1>14. \A x \in Threads : e \notin On[x]  BY <1>4, ViewOf
<1>15. e # NoEvent  BY EventAssumption
<1>16. Abstract!EndSignal(t)  BY <1>1, <1>10, <1>12, <1>13, <1>14, <1>15 DEF Abstract!EndSignal
<1> QED  BY <1>9, <1>16 DEF Follows, Abstract!Next

LEMMA AcceptFires ==
  ASSUME TypeOK, NEW u \in Threads, NEW e \in Events, Accept(u, e)
  PROVE  /\ sw'[u].fired /\ sw'[u].event = IF sw[u].fired THEN sw[u].event ELSE e
         /\ \A x \in Threads \ {u} : sw'[x] = sw[x]
<1>1. CASE sw[u].fired  BY <1>1 DEF Accept
<1>2. CASE ~ sw[u].fired
  <2> DEFINE w == pc[u] = "blocked"
             r == [sw[u] EXCEPT !.fired = TRUE, !.event = e, !.woken = w]
  <2>1. sw' = [sw EXCEPT ![u] = r]  BY <1>2 DEF Accept
  <2> HIDE DEF w
  <2>2. r.fired /\ r.event = e  BY DEF TypeOK, SyncWaiter
  <2> HIDE DEF r
  <2>3. sw'[u] = r /\ \A x \in Threads \ {u} : sw'[x] = sw[x]  BY <2>1 DEF TypeOK
  <2> QED  BY <1>2, <2>2, <2>3, Zenon
<1> QED  BY <1>1, <1>2

(* The waiter at the cursor refuses, or is released by e.                  *)
LEMMA FireFollows ==
  ASSUME WaitInv, NEW t \in Threads, NEW e \in Events, Fire(t, e)
  PROVE  Follows
<1> USE DEF WaitInv, IInv
<1>0. PICK c \in Nat, u \in Threads :
        c = cursor[t] /\ c \in 1 .. Len(waiters_[e]) /\ u = waiters_[e][c]
  BY DEF Fire, TypeOK
<1>1. /\ pc[t] = "fire" /\ evs[t] = {e} /\ lock_[e] = t
      /\ UNCHANGED <<signaled_, lock_, waiters_, evs, deadline, result>>
  BY DEF Fire, kernelVars, LocksMatch, Holds, Signalling
<1>2. Accept(u, e)  BY <1>0 DEF Fire
<1>3. /\ e \in Manual => cursor' = [cursor EXCEPT ![t] = c + 1] /\ pc' = pc
      /\ e \notin Manual => /\ cursor' = cursor /\ c = 1
                            /\ pc' = [pc EXCEPT ![t] = IF sw[u].fired THEN "popRetry"
                                   ELSE "popReturn"]
  BY <1>0, <1>1 DEF Fire, Goto, FramesMatch, Frame, Signalling
<1>4. InWait(u, e) /\ e \in evs[u] /\ u # t
  <2>1. ~ Passed(e, c)  BY <1>0, <1>1 DEF Passed
  <2>2. InWait(u, e)  BY <1>0, <1>1, <2>1 DEF EntriesLive, EntryLive
  <2> QED  BY <1>1, <2>2 DEF InWait, FramesMatch, Frame
<1>5. \A x \in Threads \ {t} : pc'[x] = pc[x] /\ cursor'[x] = cursor[x]  BY <1>3 DEF TypeOK
<1>6. /\ e \in Manual => pc'[t] = "fire" /\ cursor'[t] = c + 1
      /\ e \notin Manual => /\ cursor'[t] = 1 /\ c = 1
                            /\ pc'[t] = IF sw[u].fired THEN "popRetry" ELSE "popReturn"
  BY <1>0, <1>1, <1>3 DEF TypeOK
<1>7. pc'[t] \in Signalling  BY <1>6 DEF Signalling
<1>8. /\ sw'[u].fired /\ sw'[u].event = IF sw[u].fired THEN sw[u].event ELSE e
      /\ \A x \in Threads \ {u} : sw'[x] = sw[x]
  BY <1>2, AcceptFires
<1>9. ~ Waiting(u)' /\ \A x \in Threads : Waiting(x)' => Waiting(x)
  <2>1. ~ Waiting(u)'  BY <1>8 DEF Waiting
  <2>2. \A x \in Threads : x # t /\ x # u => (Waiting(x)' => Waiting(x))
    BY <1>5, <1>8 DEF Waiting
  <2>3. ~ Waiting(t)'  BY <1>7 DEF Waiting, Signalling
  <2> QED  BY <2>1, <2>2, <2>3
<1>10. WaitersListed'  BY <1>1, <1>9 DEF WaitersListed
<1>11. PassedAreFired'
  <2> SUFFICES ASSUME NEW f \in Events, NEW i \in 1 .. Len(waiters_[f]), NEW s \in Threads,
                      lock_[f] = s,
                      \/ pc'[s] = "fire" /\ i < cursor'[s]
                      \/ pc'[s] \in {"popRetry", "popReturn"} /\ i = 1,
                      NEW v, v = waiters_[f][i], Waiting(v)', f \in evs[v]
               PROVE  FALSE
    BY <1>1 DEF PassedAreFired, Passed
  <2>1. v \in Threads /\ Waiting(v)  BY <1>9, EntryTyped DEF Waiting
  <2>2. CASE s # t
    <3>1. Passed(f, i)  BY <1>5, <2>2 DEF Passed
    <3> QED  BY <2>1, <3>1 DEF PassedAreFired
  <2>3. CASE s = t
    <3>1. f = e  BY <1>1, <2>3 DEF LocksMatch, Holds, Signalling
    <3>2. i < c \/ i = c  BY <1>0, <1>1, <1>6, <2>3 DEF TypeOK
    <3>3. CASE i = c  BY <1>0, <1>9, <3>1, <3>3
    <3>4. CASE i < c
      <4>1. Passed(f, i)  BY <1>0, <1>1, <2>3, <3>4 DEF Passed
      <4> QED  BY <2>1, <4>1 DEF PassedAreFired
    <3> QED  BY <3>2, <3>3, <3>4
  <2> QED  BY <2>2, <2>3
<1>12. FiredByItsEvent'
  <2> SUFFICES ASSUME NEW x \in Threads PROVE OwnPart(x)'
    BY DEF FiredByItsEvent, OwnPart, InTheWait
  <2>1. OwnPart(x)  BY DEF FiredByItsEvent, OwnPart, InTheWait
  <2>2. CASE x = t  BY <1>7, <2>2 DEF OwnPart, InTheWait, Signalling
  <2>3. CASE x = u  BY <1>1, <1>4, <1>5, <1>8, <2>1, <2>3 DEF OwnPart
  <2>4. CASE x # t /\ x # u  BY <1>1, <1>5, <1>8, <2>1, <2>4 DEF OwnPart
  <2> QED  BY <2>2, <2>3, <2>4
<1>13. Sig[t] = e
  <2>1. Sig[t] = TheOnly({e})  BY <1>1, ViewOf
  <2> QED  BY <2>1, OnlyOne
<1>14. CASE sw[u].fired
  <2>1. sw' = sw  BY <1>2, <1>14 DEF Accept
  <2>2. \A x \in Threads \ {t} : Same(x)  BY <1>1, <1>5, <2>1 DEF Same
  <2>3. On'[t] = On[t] /\ Left'[t] = Left[t] /\ Got'[t] = Got[t]
    BY <1>1, <1>7, <1>9, ViewOf DEF InTheWait, Signalling, Waiting
  <2>4. pc'[t] \in {"fire", "popRetry"}  BY <1>6, <1>14
  <2>5. Sig'[t] = Sig[t]  BY <1>1, <2>4, ViewOf
  <2> QED  BY <1>1, <1>10, <1>11, <1>12, <2>2, <2>3, <2>5, Stutters DEF Follows
<1>15. CASE ~ sw[u].fired
  <2>1. Waiting(u) /\ pc[u] \in InTheWait
    BY <1>1, <1>4, <1>15 DEF InWait, Waiting, FiredByItsEvent, InTheWait
  <2>2. On[u] = evs[u] /\ On'[u] = {} /\ Left'[u] = "never" /\ Got'[u] = e
    BY <1>1, <1>4, <1>5, <1>8, <1>9, <1>15, <2>1, ViewOf
  <2>3. Sig'[t] = IF e \in Manual THEN e ELSE NoEvent
    <3>1. Sig'[t] = IF pc'[t] \in {"fire", "popRetry"} THEN TheOnly({e}) ELSE NoEvent
      BY <1>1, ViewOf
    <3> QED  BY <1>6, <1>15, <3>1, OnlyOne
  <2>4. \A x \in Threads \ {t} : Sig'[x] = Sig[x]  BY <1>1, <1>5, ViewOf
  <2>5. \A x \in Threads \ {u} : On'[x] = On[x] /\ Left'[x] = Left[x] /\ Got'[x] = Got[x]
    <3> TAKE x \in Threads \ {u}
    <3>1. CASE x = t
      BY <1>1, <1>7, <3>1, ViewOf DEF InTheWait, Signalling, Waiting
    <3>2. CASE x # t
      BY <1>1, <1>5, <1>8, <3>2, ViewOf DEF Waiting
    <3> QED  BY <3>1, <3>2
  <2>6. /\ On = [x \in Threads |-> On[x]] /\ On' = [x \in Threads |-> On'[x]]
        /\ Left = [x \in Threads |-> Left[x]] /\ Left' = [x \in Threads |-> Left'[x]]
        /\ Sig = [x \in Threads |-> Sig[x]] /\ Sig' = [x \in Threads |-> Sig'[x]]
        /\ Got = [x \in Threads |-> Got[x]] /\ Got' = [x \in Threads |-> Got'[x]]
    BY DEF On, Left, Sig, Got
  <2>7. /\ On' = [On EXCEPT ![u] = {}] /\ Left' = [Left EXCEPT ![u] = "never"]
        /\ Got' = [Got EXCEPT ![u] = e]
        /\ Sig' = [Sig EXCEPT ![t] = IF e \in Manual THEN e ELSE NoEvent]
    BY <1>1, <2>2, <2>3, <2>4, <2>5, <2>6
  <2>8. Abstract!Release(t, u)  BY <1>1, <1>4, <1>13, <2>2, <2>7
    DEF Abstract!Release, Abstract!Unblock
  <2> QED  BY <1>1, <1>10, <1>11, <1>12, <2>8 DEF Follows, Abstract!Next
<1> QED  BY <1>14, <1>15

LEMMA StepFollows ==
  ASSUME WaitInv, [Next]_vars
  PROVE  Follows
<1>1. CASE UNCHANGED vars
  <2>1. UNCHANGED <<signaled_, waiters_, lock_, sw, pc, evs, deadline, cursor, result>>
    BY <1>1 DEF vars, kernelVars, localVars
  <2>2. On' = On /\ Left' = Left /\ Sig' = Sig /\ Got' = Got
    BY <2>1 DEF On, Left, Sig, Got, Waiting
  <2>3. WaitersListed' /\ PassedAreFired' /\ FiredByItsEvent'
    BY <2>1 DEF WaitInv, WaitersListed, PassedAreFired, FiredByItsEvent, Passed, Waiting
  <2> QED  BY <2>1, <2>2, <2>3 DEF Follows, Abstract!vars
<1>2. ASSUME NEW t \in Threads, Step(t) PROVE Follows
  BY <1>2, FireFollows, PopFrontFollows, SignalEndFollows, CvWaitFollows, CvReturnFollows,
     StopWaitingManyFollows, StopWaitingFollows, FindSignaledFollows, LockOneFollows,
     EnqueueAllFollows, ReleaseLockFollows, DequeueFollows DEF Step, EnqueueMany, Wake
<1>3. ASSUME NEW t \in Threads, Start(t) PROVE Follows
  <2>1. ASSUME NEW E \in (SUBSET Events) \ {{}}, WaitMany(t, E) PROVE Follows
    <3>1. E \in SUBSET Events  BY <2>1
    <3> QED  BY <2>1, <3>1, WaitManyFollows
  <2>2. ASSUME NEW e \in Events, Reset(t, e) \/ IsSignaled(t, e) \/ Signal(t, e) PROVE Follows
    BY <2>2, ResetFollows, IsSignaledFollows, SignalFollows
  <2>3. ASSUME NEW e \in Events, NEW d \in {"never", "later"}, TimedWait(t, e, d) PROVE Follows
    BY <2>3, TimedWaitFollows
  <2> QED  BY <1>3, <2>1, <2>2, <2>3 DEF Start
<1> QED
  BY <1>1, <1>2, <1>3, ExpireFollows, CvReturnFollows DEF Next, SpuriousWake

(* Deadlines are TimedWait's, and pass in its loop only.                   *)
LEMMA DeadlinesStay ==
  ASSUME WaitInv, [Next]_vars
  PROVE  DeadlinesMatch'
<1> USE DEF WaitInv, IInv
<1> DEFINE Locking == {"lock", "unlock", "unwind"}
           Stays(t) ==
             /\ \A x \in Threads \ {t} : pc'[x] = pc[x] /\ deadline'[x] = deadline[x]
             /\ pc'[t] \in Locking =>
                  deadline'[t] = "never" \/ (pc[t] \in Locking /\ deadline'[t] = deadline[t])
<1>1. CASE UNCHANGED vars  BY <1>1 DEF vars, localVars, DeadlinesMatch
<1>2. ASSUME NEW t \in Threads, Stays(t) PROVE DeadlinesMatch'
  BY <1>2 DEF DeadlinesMatch
<1>3. ASSUME NEW t \in Threads, NEW e \in Events,
             \/ Fire(t, e) \/ PopFront(t, e) \/ SignalEnd(t, e) \/ StopWaiting(t, e)
             \/ Dequeue(t, e)
      PROVE  Stays(t)
  BY <1>3 DEF Fire, PopFront, SignalEnd, StopWaiting, Dequeue, Goto, TypeOK
<1>4. ASSUME NEW t \in Threads, NEW e \in Events, EnqueueMany(t, e) \/ ReleaseLock(t, e)
      PROVE  Stays(t)
  BY <1>4 DEF EnqueueMany, FindSignaled, LockOne, EnqueueAll, LockForMany, ReleaseLock, Goto,
              TypeOK
<1>5. ASSUME NEW t \in Threads, CvWait(t) \/ CvReturn(t) \/ StopWaitingMany(t) \/ Expire(t)
      PROVE  Stays(t)
  BY <1>5 DEF CvWait, CvReturn, StopWaitingMany, Expire, Goto, TypeOK
<1>6. ASSUME NEW t \in Threads, NEW e \in Events, Reset(t, e) \/ IsSignaled(t, e) \/ Signal(t, e)
      PROVE  Stays(t)
  BY <1>6 DEF Reset, IsSignaled, Signal, Call, Goto, localVars, TypeOK
<1>7. ASSUME NEW t \in Threads, NEW e \in Events, NEW d \in {"never", "later"},
             TimedWait(t, e, d)
      PROVE  Stays(t)
  BY <1>7 DEF TimedWait, Call, Goto, TypeOK
<1>8. ASSUME NEW t \in Threads, NEW E \in SUBSET Events, WaitMany(t, E) PROVE Stays(t)
  BY <1>8 DEF WaitMany, Call, Goto, TypeOK
<1> HIDE DEF Stays
<1>9. ASSUME NEW t \in Threads, Step(t) PROVE Stays(t)
  BY <1>3, <1>4, <1>5, <1>9 DEF Step, Wake
<1>10. ASSUME NEW t \in Threads, Start(t) PROVE Stays(t)
  <2>1. ASSUME NEW E \in (SUBSET Events) \ {{}}, WaitMany(t, E) PROVE Stays(t)
    <3>1. E \in SUBSET Events  BY <2>1
    <3> QED  BY <1>8, <2>1, <3>1
  <2> QED  BY <1>6, <1>7, <1>10, <2>1 DEF Start
<1> QED  BY <1>1, <1>2, <1>5, <1>9, <1>10 DEF Next, SpuriousWake

LEMMA InitFollows ==
  ASSUME Init
  PROVE  WaitInv /\ Abstract!Init
<1>1. IInv  BY InitSatisfies
<1>2. \A t \in Threads : pc[t] = "idle" /\ result[t] = NoEvent  BY DEF Init
<1>3. \A t \in Threads : ~ Waiting(t)  BY <1>2 DEF Waiting
<1>4. WaitersListed /\ PassedAreFired /\ FiredByItsEvent /\ DeadlinesMatch
  BY <1>2, <1>3 DEF DeadlinesMatch, WaitersListed, PassedAreFired, FiredByItsEvent, Passed
<1>5. /\ On = [t \in Threads |-> {}] /\ Sig = [t \in Threads |-> NoEvent]
      /\ Got = [t \in Threads |-> NoEvent] /\ Left = [t \in Threads |-> "never"]
  BY <1>2, <1>3 DEF On, Left, Sig, Got
<1>6. Abstract!Init  BY <1>5 DEF Init, Abstract!Init
<1> QED  BY <1>1, <1>4, <1>6 DEF WaitInv

(* Whoever waits is in the list of each of its events, a signaller leaves  *)
(* behind it nobody to be released, and a wait knows what released it.     *)
THEOREM WaitersAreFound == Spec => []WaitInv
<1>1. Init => WaitInv  BY InitFollows
<1>2. WaitInv /\ [Next]_vars => WaitInv'
  BY StepFollows, NextKeeps, DeadlinesStay DEF WaitInv, Follows
<1> QED  BY <1>1, <1>2, PTL DEF Spec

(* The locks, wait-lists and SyncWaiters of the code do what EventSpec     *)
(* promises: a blocked thread is released by exactly one signal, a signal  *)
(* sets the event only when it has released whom it must, and a wait that  *)
(* times out takes no signal with it.                                      *)
THEOREM Implements == Spec => AbstractSpec
<1>1. Init => Abstract!Init  BY InitFollows
<1>2. WaitInv /\ [Next]_vars => [Abstract!Next]_(Abstract!vars)
  BY StepFollows DEF Follows
<1> QED  BY <1>1, <1>2, WaitersAreFound, PTL DEF Spec, AbstractSpec, Abstract!Spec
-----------------------------------------------------------------------------
(* What a Filter keeps of a sequence whose elements it keeps all.          *)
LEMMA FilterAll ==
  ASSUME NEW T, NEW S, NEW s \in Seq(T), \A i \in 1 .. Len(s) : s[i] \in S
  PROVE  Watching!Filter(s, S) = s
<1> DEFINE Value(f, i) == IF i = 0 THEN <<>>
                         ELSE IF s[i] \in S THEN Append(f[i - 1], s[i]) ELSE f[i - 1]
           Firsts(f) == f = [i \in 0 .. Len(s) |-> Value(f, i)]
           first == CHOOSE f : Firsts(f)
           g == [i \in 0 .. Len(s) |-> SubSeq(s, 1, i)]
<1>0. Len(s) \in Nat  OBVIOUS
<1>1. Watching!Filter(s, S) = first[Len(s)]  BY DEF Watching!Filter
<1>2. Firsts(g)
  <2>1. ASSUME NEW i \in 0 .. Len(s) PROVE g[i] = Value(g, i)
    <3>1. CASE i = 0
      <4>1. SubSeq(s, 1, 0) = <<>>  BY SubSeqEmpty, <1>0
      <4> QED  BY <3>1, <4>1
    <3>2. CASE i # 0
      <4>1. i \in 1 .. Len(s) /\ i - 1 \in 0 .. Len(s)  BY <3>2, <1>0
      <4>2. SubSeq(s, 1, i) = Append(SubSeq(s, 1, i - 1), s[i])
        BY <4>1, <1>0, SubSeqRecursiveSecond
      <4> QED  BY <4>1, <4>2, <3>2
    <3> QED  BY <3>1, <3>2
  <2>2. g = [i \in 0 .. Len(s) |-> g[i]]  OBVIOUS
  <2> HIDE DEF g, Value
  <2> QED  BY <2>1, <2>2
<1>3. Firsts(first)  BY <1>2
<1>4. \A i \in 0 .. Len(s) : first[i] = g[i]
  <2> DEFINE D == {i \in 0 .. Len(s) : first[i] # g[i]}
  <2> SUFFICES ASSUME D # {} PROVE FALSE  OBVIOUS
  <2>1. D \subseteq Nat  BY <1>0
  <2>2. PICK n \in D : \A m \in D : ~ (m < n)
    <3> DEFINE R == OpToRel(<, Nat)
    <3>1. IsWellFoundedOn(R, Nat)  BY NatLessThanWellFounded
    <3>2. \A m, n \in Nat : m < n => <<m, n>> \in R  BY DEF OpToRel
    <3> HIDE DEF R, D
    <3>3. PICK n \in D : \A m \in D : ~ (<<m, n>> \in R)  BY <2>1, <3>1, WFMin
    <3> QED  BY <2>1, <3>2, <3>3
  <2>3. \A f, i : Firsts(f) /\ i \in 0 .. Len(s) => f[i] = Value(f, i)
    <3> HIDE DEF Value
    <3> QED  OBVIOUS
  <2> HIDE DEF first, g, Firsts
  <2>4. n \in 0 .. Len(s) /\ first[n] # g[n]  OBVIOUS
  <2>5. first[n] = Value(first, n) /\ g[n] = Value(g, n)  BY <2>3, <2>4, <1>2, <1>3
  <2>6. n # 0  BY <2>4, <2>5
  <2>7. n - 1 \in 0 .. Len(s) /\ n - 1 < n  BY <2>4, <2>6, <1>0
  <2>8. first[n - 1] = g[n - 1]  BY <2>2, <2>7
  <2> QED  BY <2>4, <2>5, <2>6, <2>8
<1>5. first[Len(s)] = SubSeq(s, 1, Len(s))
  <2> HIDE DEF first
  <2> QED  BY <1>0, <1>4
<1>6. SubSeq(s, 1, Len(s)) = s  BY SubSeqFull
<1> HIDE DEF first
<1> QED  BY <1>1, <1>5, <1>6

(* The elements of a sequence, of a piece of it, of two after each other.  *)
LEMMA PieceOnce ==
  ASSUME NEW S, NEW s \in Seq(S), Watching!Once(s), NEW m \in 1 .. Len(s) + 1, NEW n
             \in 0 .. Len(s),
         m <= n + 1
  PROVE  LET r == SubSeq(s, m, n)
         IN  /\ r \in Seq(S) /\ Watching!Once(r) /\ Watching!ToSet(r) = {s[i] : i \in m .. n}
             /\ \A i, j \in 1 .. Len(s) : s[i] = s[j] => i = j
             /\ Watching!ToSet(s) = {s[i] : i \in 1 .. Len(s)}
<1> DEFINE r == SubSeq(s, m, n)
<1>1. /\ r \in Seq(S) /\ Len(r) = n - m + 1 /\ Len(r) \in Nat /\ Len(s) \in Nat
      /\ DOMAIN r = 1 .. Len(r) /\ DOMAIN s = 1 .. Len(s)
      /\ \A i \in 1 .. Len(r) : r[i] = s[m + i - 1]
  OBVIOUS
<1> HIDE DEF r
<1>2. \A i \in 1 .. Len(r) : m + i - 1 \in m .. n /\ m + i - 1 \in 1 .. Len(s)  BY <1>1
<1>3. \A i, j \in 1 .. Len(s) : s[i] = s[j] => i = j  BY <1>1 DEF Watching!Once
<1>4. Watching!Once(r)
  <2> SUFFICES ASSUME NEW i \in 1 .. Len(r), NEW j \in 1 .. Len(r), r[i] = r[j] PROVE i = j
    BY <1>1 DEF Watching!Once
  <2>1. s[m + i - 1] = s[m + j - 1]  BY <1>1
  <2>2. m + i - 1 = m + j - 1  BY <2>1, <1>2, <1>3
  <2> QED  BY <2>2, <1>1
<1>5. Watching!ToSet(r) = {s[i] : i \in m .. n}
  <2>1. ASSUME NEW i \in m .. n PROVE \E k \in 1 .. Len(r) : r[k] = s[i]
    <3>1. i - m + 1 \in 1 .. Len(r) /\ m + (i - m + 1) - 1 = i  BY <1>1
    <3> QED  BY <3>1, <1>1
  <2>2. Watching!ToSet(r) = {r[k] : k \in 1 .. Len(r)}  BY <1>1 DEF Watching!ToSet
  <2>3. \A k \in 1 .. Len(r) : r[k] \in {s[i] : i \in m .. n}  BY <1>1, <1>2
  <2> QED  BY <2>1, <2>2, <2>3
<1>6. Watching!ToSet(s) = {s[i] : i \in 1 .. Len(s)}  BY <1>1 DEF Watching!ToSet
<1> QED  BY <1>1, <1>3, <1>4, <1>5, <1>6 DEF r

LEMMA ConcatOnce ==
  ASSUME NEW S, NEW s \in Seq(S), NEW t \in Seq(S)
  PROVE  /\ s \o t \in Seq(S) /\ Watching!ToSet(s \o t) = Watching!ToSet(s) \cup Watching!ToSet(t)
         /\ Watching!Once(s) /\ Watching!Once(t) /\ Watching!ToSet(s) \cap Watching!ToSet(t) = {}
              => Watching!Once(s \o t)
<1> DEFINE r == s \o t
<1>1. /\ r \in Seq(S) /\ Len(r) = Len(s) + Len(t)
      /\ \A i \in 1 .. Len(s) + Len(t) : r[i] = IF i <= Len(s) THEN s[i] ELSE t[i - Len(s)]
  BY ConcatProperties, Zenon
<1>2. Len(s) \in Nat /\ Len(t) \in Nat /\ DOMAIN s = 1 .. Len(s) /\ DOMAIN t = 1 .. Len(t)
  OBVIOUS
<1> HIDE DEF r
<1>3. DOMAIN r = 1 .. Len(s) + Len(t)  BY <1>1
<1>4. Watching!ToSet(r) = Watching!ToSet(s) \cup Watching!ToSet(t)
  <2>1. ASSUME NEW i \in 1 .. Len(s) + Len(t)
        PROVE  r[i] \in Watching!ToSet(s) \cup Watching!ToSet(t)
    <3>1. CASE i <= Len(s)  BY <3>1, <1>1, <1>2 DEF Watching!ToSet
    <3>2. CASE ~(i <= Len(s))
      <4>1. i - Len(s) \in 1 .. Len(t)  BY <3>2, <1>2
      <4> QED  BY <4>1, <3>2, <1>1, <1>2 DEF Watching!ToSet
    <3> QED  BY <3>1, <3>2
  <2>2. ASSUME NEW i \in 1 .. Len(s) PROVE \E k \in 1 .. Len(s) + Len(t) : r[k] = s[i]
    <3>1. i \in 1 .. Len(s) + Len(t) /\ i <= Len(s)  BY <1>2
    <3> QED  BY <3>1, <1>1
  <2>3. ASSUME NEW i \in 1 .. Len(t) PROVE \E k \in 1 .. Len(s) + Len(t) : r[k] = t[i]
    <3>1. /\ i + Len(s) \in 1 .. Len(s) + Len(t) /\ ~(i + Len(s) <= Len(s))
          /\ i + Len(s) - Len(s) = i
      BY <1>2
    <3> QED  BY <3>1, <1>1
  <2>4. Watching!ToSet(r) = {r[k] : k \in 1 .. Len(s) + Len(t)}  BY <1>3 DEF Watching!ToSet
  <2>5. Watching!ToSet(s) = {s[i] : i \in 1 .. Len(s)}
          /\ Watching!ToSet(t) = {t[i] : i \in 1 .. Len(t)}
    BY <1>2 DEF Watching!ToSet
  <2>6. /\ \A x \in Watching!ToSet(s) : x \in Watching!ToSet(r)
        /\ \A x \in Watching!ToSet(t) : x \in Watching!ToSet(r)
    BY <2>2, <2>3, <2>4, <2>5
  <2> QED  BY <2>1, <2>4, <2>6
<1>5. ASSUME Watching!Once(s), Watching!Once(t), Watching!ToSet(s) \cap Watching!ToSet(t) = {},
             NEW i \in 1 .. Len(s) + Len(t), NEW j \in 1 .. Len(s) + Len(t), r[i] = r[j]
      PROVE  i = j
  <2>1. \A k, l \in 1 .. Len(s) : s[k] = s[l] => k = l  BY <1>2, <1>5 DEF Watching!Once
  <2>2. \A k, l \in 1 .. Len(t) : t[k] = t[l] => k = l  BY <1>2, <1>5 DEF Watching!Once
  <2>3. \A k \in 1 .. Len(s), l \in 1 .. Len(t) : s[k] # t[l]  BY <1>2, <1>5 DEF Watching!ToSet
  <2>4. CASE i <= Len(s) /\ j <= Len(s)
    <3>1. i \in 1 .. Len(s) /\ j \in 1 .. Len(s)  BY <2>4, <1>2
    <3> QED  BY <3>1, <2>4, <2>1, <1>1, <1>5
  <2>5. CASE i <= Len(s) /\ ~(j <= Len(s))
    <3>1. i \in 1 .. Len(s) /\ j - Len(s) \in 1 .. Len(t)  BY <2>5, <1>2
    <3> QED  BY <3>1, <2>5, <2>3, <1>1, <1>5
  <2>6. CASE ~(i <= Len(s)) /\ j <= Len(s)
    <3>1. j \in 1 .. Len(s) /\ i - Len(s) \in 1 .. Len(t)  BY <2>6, <1>2
    <3> QED  BY <3>1, <2>6, <2>3, <1>1, <1>5
  <2>7. CASE ~(i <= Len(s)) /\ ~(j <= Len(s))
    <3>1. i - Len(s) \in 1 .. Len(t) /\ j - Len(s) \in 1 .. Len(t)  BY <2>7, <1>2
    <3>2. i - Len(s) = j - Len(s)  BY <3>1, <2>7, <2>2, <1>1, <1>5
    <3> QED  BY <3>2, <1>2
  <2> QED  BY <2>4, <2>5, <2>6, <2>7
<1> QED  BY <1>1, <1>3, <1>4, <1>5 DEF r, Watching!Once

LEMMA AppendOnce ==
  ASSUME NEW S, NEW s \in Seq(S), NEW x \in S
  PROVE  /\ Append(s, x) \in Seq(S) /\ Watching!ToSet(Append(s, x)) = Watching!ToSet(s) \cup {x}
         /\ Watching!Once(s) /\ x \notin Watching!ToSet(s) => Watching!Once(Append(s, x))
<1>1. <<x>> \in Seq(S) /\ Append(s, x) = s \o <<x>>  OBVIOUS
<1>2. DOMAIN <<x>> = {1} /\ <<x>>[1] = x  OBVIOUS
<1>3. Watching!ToSet(<<x>>) = {x} /\ Watching!Once(<<x>>)  BY <1>2 DEF Watching!ToSet, Watching!Once
<1>4. PICK t \in Seq(S) : t = <<x>>  BY <1>1
<1>5. /\ s \o t \in Seq(S) /\ Watching!ToSet(s \o t) = Watching!ToSet(s) \cup Watching!ToSet(t)
      /\ Watching!Once(s) /\ Watching!Once(t) /\ Watching!ToSet(s) \cap Watching!ToSet(t) = {}
           => Watching!Once(s \o t)
  BY ConcatOnce
<1> QED  BY <1>1, <1>3, <1>4, <1>5

(* A list of distinct elements, without one of them. *)
LEMMA RemoveOnce ==
  ASSUME NEW S, NEW s \in Seq(S), Watching!Once(s), NEW k \in 1 .. Len(s)
  PROVE  /\ Watching!RemoveAt(s, k) \in Seq(S) /\ Watching!Once(Watching!RemoveAt(s, k))
         /\ Watching!ToSet(Watching!RemoveAt(s, k)) = Watching!ToSet(s) \ {s[k]}
<1> DEFINE a == SubSeq(s, 1, k - 1)
           b == SubSeq(s, k + 1, Len(s))
<1>1. Len(s) \in Nat  OBVIOUS
<1>2. /\ a \in Seq(S) /\ Watching!Once(a) /\ Watching!ToSet(a) = {s[i] : i \in 1 .. k - 1}
      /\ \A i, j \in 1 .. Len(s) : s[i] = s[j] => i = j
      /\ Watching!ToSet(s) = {s[i] : i \in 1 .. Len(s)}
  <2>1. 1 \in 1 .. Len(s) + 1 /\ k - 1 \in 0 .. Len(s) /\ 1 <= k - 1 + 1  BY <1>1
  <2> QED  BY <2>1, PieceOnce
<1>3. b \in Seq(S) /\ Watching!Once(b) /\ Watching!ToSet(b) = {s[i] : i \in k + 1 .. Len(s)}
  <2>1. k + 1 \in 1 .. Len(s) + 1 /\ Len(s) \in 0 .. Len(s) /\ k + 1 <= Len(s) + 1  BY <1>1
  <2> QED  BY <2>1, PieceOnce
<1>4. Watching!RemoveAt(s, k) = a \o b  BY DEF Watching!RemoveAt
<1> HIDE DEF a, b
<1>5. Watching!ToSet(a) \cap Watching!ToSet(b) = {}
        /\ Watching!ToSet(a) \cup Watching!ToSet(b) = Watching!ToSet(s) \ {s[k]}
  BY ONLY <1>1, <1>2, <1>3, k \in 1 .. Len(s)
<1>6. /\ a \o b \in Seq(S) /\ Watching!ToSet(a \o b) = Watching!ToSet(a) \cup Watching!ToSet(b)
      /\ Watching!Once(a) /\ Watching!Once(b) /\ Watching!ToSet(a) \cap Watching!ToSet(b) = {}
           => Watching!Once(a \o b)
  BY <1>2, <1>3, ConcatOnce
<1> QED  BY <1>2, <1>3, <1>4, <1>5, <1>6
Listed(e) == Watching!ToSet(list[e])

(* A waiter in use is on a list, its watch is running and has no other.    *)
LEMMA WaitersAre ==
  ASSUME Watching!IInv
  PROVE  /\ \A e \in Events : /\ list[e] \in Seq(Addresses) /\ Watching!Once(list[e])
                              /\ Listed(e) \in SUBSET Addresses
                              /\ \A a \in Listed(e) : waiter[a] # 0
         /\ \A a \in Addresses : waiter[a] # 0 =>
              /\ waiter[a] \in Watching!Watches /\ waiter[a] <= watches
              /\ waiter[a] \notin value /\ waiter[a] \notin stopped
         /\ \A a, b \in Addresses : waiter[a] # 0 /\ waiter[a] = waiter[b] => a = b
<1>1. /\ \A e \in Events : list[e] \in Seq(Addresses) /\ Watching!Once(list[e])
      /\ \A a \in Addresses : waiter[a] \in 0 .. MaxWatches
  BY DEF Watching!IInv, Watching!TypeOK, Watching!ListedOnce
<1>2. \A s \in Seq(Addresses) : Watching!ToSet(s) \in SUBSET Addresses
  <2> SUFFICES ASSUME NEW s \in Seq(Addresses), NEW i \in DOMAIN s PROVE s[i] \in Addresses
    BY DEF Watching!ToSet
  <2> QED  OBVIOUS
<1>3. \A e \in Events : Listed(e) \in SUBSET Addresses  BY <1>1, <1>2 DEF Listed
<1>4. \A a \in Addresses : waiter[a] # 0 <=> \E e \in Events : a \in Listed(e)
  BY DEF Watching!IInv, Watching!ListedOnce, Listed
<1>5. \A e \in Events : \A a \in Listed(e) : \E w \in Watchers :
        /\ cancel_flag_[w] = waiter[a] /\ waiter[a] \notin value
        /\ waiter_[w] = a /\ kernel_[w] = e /\ message_loop_[w]
  BY DEF Watching!IInv, Watching!WaitersAreWatched, Listed
<1>6. /\ \A w \in Watchers : cancel_flag_[w] <= watches /\ cancel_flag_[w] \notin stopped
      /\ \A v, w \in Watchers : cancel_flag_[v] = cancel_flag_[w] /\ cancel_flag_[v] # 0 => v = w
  BY DEF Watching!IInv, Watching!FlagsAreNew
<1>7. ASSUME NEW a \in Addresses, waiter[a] # 0
      PROVE  /\ waiter[a] \in Watching!Watches /\ waiter[a] <= watches
             /\ waiter[a] \notin value /\ waiter[a] \notin stopped
  <2>1. PICK w \in Watchers : cancel_flag_[w] = waiter[a] /\ waiter[a] \notin value
    BY <1>4, <1>5, <1>7
  <2>2. waiter[a] \in Watching!Watches
    BY <1>1, <1>7, WatchingAssumption DEF Watching!Watches, Watching!WatcherAssumption
  <2> QED  BY <2>1, <2>2, <1>6
<1>8. ASSUME NEW a \in Addresses, NEW b \in Addresses, waiter[a] # 0, waiter[a] = waiter[b]
      PROVE  a = b
  <2>1. PICK v \in Watchers : cancel_flag_[v] = waiter[a] /\ waiter_[v] = a  BY <1>4, <1>5, <1>8
  <2>2. PICK w \in Watchers : cancel_flag_[w] = waiter[b] /\ waiter_[w] = b  BY <1>4, <1>5, <1>8
  <2>3. v = w  BY <2>1, <2>2, <1>6, <1>8
  <2> QED  BY <2>1, <2>2, <2>3
<1> QED  BY <1>1, <1>3, <1>4, <1>7, <1>8

LEMMA TasksAre ==
  ASSUME Watching!IInv
  PROVE  /\ tasks \in Seq(Watching!Watches) /\ Watching!Once(tasks)
         /\ Watching!ToSet(tasks) \in SUBSET Watching!Watches
         /\ watches \in Nat /\ watches <= MaxWatches /\ Watching!Watches \subseteq Nat
         /\ 0 \notin Watching!Watches
<1>1. tasks \in Seq(Watching!Watches) /\ Watching!Once(tasks) /\ watches \in 0 .. MaxWatches
  BY DEF Watching!IInv, Watching!TypeOK, Watching!TasksAreOnce
<1>2. Watching!ToSet(tasks) \in SUBSET Watching!Watches
  <2> SUFFICES ASSUME NEW i \in DOMAIN tasks PROVE tasks[i] \in Watching!Watches
    BY DEF Watching!ToSet
  <2> QED  BY <1>1
<1>3. /\ watches \in Nat /\ watches <= MaxWatches
      /\ Watching!Watches \subseteq Nat /\ 0 \notin Watching!Watches
  BY <1>1, WatchingAssumption DEF Watching!Watches, Watching!WatcherAssumption
<1> QED  BY <1>1, <1>2, <1>3

(* A signal takes waiters from the front of the list, all or one, and the  *)
(* event is set only if nobody is left; their watches are posted, and none *)
(* was in the queue.                                                       *)
LEMMA SignalTakes ==
  ASSUME Watching!IInv, NEW e \in Events, Watching!Signal(e)
  PROVE  \E F, R \in SUBSET Addresses :
           /\ F \cap R = {} /\ F \cup R = Listed(e)
           /\ list' \in [Events -> Seq(Addresses)] /\ Watching!Once(list[e])' /\ Listed(e)' = R
           /\ \A f \in Events \ {e} : list'[f] = list[f]
           /\ set' \in [Events -> BOOLEAN] /\ (set'[e] => R = {})
           /\ \A f \in Events \ {e} : set'[f] = set[f]
           /\ waiter' = [a \in Addresses |-> IF a \in F THEN 0 ELSE waiter[a]]
           /\ tasks' \in Seq(Watching!Watches) /\ Watching!Once(tasks')
           /\ Watching!ToSet(tasks') = Watching!ToSet(tasks) \cup {waiter[a] : a \in F}
<1>1. /\ list[e] \in Seq(Addresses) /\ Watching!Once(list[e]) /\ Listed(e) \in SUBSET Addresses
      /\ \A a \in Listed(e) : waiter[a] # 0
      /\ \A a \in Addresses : waiter[a] # 0 =>
            waiter[a] \in Watching!Watches /\ waiter[a] \notin value
      /\ \A a, b \in Addresses : waiter[a] # 0 /\ waiter[a] = waiter[b] => a = b
  BY WaitersAre
<1> DEFINE W == list[e]
<1>2. PICK n : n = IF e \in Manual \/ W = <<>> THEN Len(W) ELSE 1  OBVIOUS
<1>3. /\ n \in 0 .. Len(W) /\ Len(W) \in Nat
      /\ e \in Manual \/ n = 0 => n = Len(W)
  BY <1>1, <1>2
<1> DEFINE fired == SubSeq(W, 1, n)
           rest == SubSeq(W, n + 1, Len(W))
           posted == [i \in DOMAIN fired |-> waiter[fired[i]]]
<1>4. /\ waiter' = [a \in Addresses |-> IF a \in Watching!ToSet(fired) THEN 0 ELSE waiter[a]]
      /\ tasks' = tasks \o Watching!Filter(posted, Watching!Watches \ value)
      /\ list' = [list EXCEPT ![e] = rest]
      /\ set' = [set EXCEPT ![e] = e \in Manual \/ n = 0]
  BY <1>2 DEF Watching!Signal, Watching!Fire
<1>5. /\ fired \in Seq(Addresses) /\ Watching!Once(fired)
      /\ Watching!ToSet(fired) = {W[i] : i \in 1 .. n}
      /\ \A i, j \in 1 .. Len(W) : W[i] = W[j] => i = j
      /\ Listed(e) = {W[i] : i \in 1 .. Len(W)}
  <2>1. 1 \in 1 .. Len(W) + 1 /\ 1 <= n + 1  BY <1>3
  <2> HIDE DEF W
  <2> QED  BY <1>1, <1>3, <2>1, PieceOnce DEF W, Listed
<1>6. rest \in Seq(Addresses) /\ Watching!Once(rest)
        /\ Watching!ToSet(rest) = {W[i] : i \in n + 1 .. Len(W)}
  <2>1. n + 1 \in 1 .. Len(W) + 1 /\ Len(W) \in 0 .. Len(W) /\ n + 1 <= Len(W) + 1  BY <1>3
  <2> HIDE DEF W
  <2> QED  BY <1>1, <2>1, PieceOnce DEF W
<1>7. PICK F, R : F = Watching!ToSet(fired) /\ R = Watching!ToSet(rest)  OBVIOUS
<1>8. F \cap R = {} /\ F \cup R = Listed(e) /\ (n = Len(W) => R = {})
  <2> HIDE DEF W, fired, rest
  <2> QED  BY <1>3, <1>5, <1>6, <1>7
<1>9. F \in SUBSET Addresses /\ R \in SUBSET Addresses  BY <1>1, <1>8
<1>10. DOMAIN fired = 1 .. Len(fired) /\ Len(fired) \in Nat
         /\ F = {fired[i] : i \in 1 .. Len(fired)}
  <2> HIDE DEF fired
  <2> QED  BY <1>5, <1>7 DEF Watching!ToSet
<1>11. \A i \in 1 .. Len(fired) :
         fired[i] \in Addresses /\ waiter[fired[i]] \in Watching!Watches \ value
  <2> SUFFICES ASSUME NEW i \in 1 .. Len(fired)
               PROVE  fired[i] \in Addresses /\ waiter[fired[i]] \in Watching!Watches \ value
    OBVIOUS
  <2>1. fired[i] \in F
    <3> HIDE DEF fired
    <3> QED  BY <1>10
  <2> HIDE DEF fired, W, rest
  <2> QED  BY <2>1, <1>1, <1>8, <1>9
<1> HIDE DEF fired, W, rest
<1>12. /\ posted \in Seq(Watching!Watches \ value) /\ Watching!Once(posted)
       /\ Watching!ToSet(posted) = {waiter[a] : a \in F}
  <2>1. DOMAIN posted = 1 .. Len(fired) /\ \A i \in 1 .. Len(fired) : posted[i] = waiter[fired[i]]
    BY <1>10
  <2> HIDE DEF posted
  <2>2. posted = [i \in 1 .. Len(fired) |-> posted[i]]  BY <1>10 DEF posted
  <2>3. posted \in Seq(Watching!Watches \ value)
    <3>1. \A i \in 1 .. Len(fired) : posted[i] \in Watching!Watches \ value  BY <2>1, <1>11
    <3> QED  BY <3>1, <2>2, <1>10
  <2>4. Watching!Once(posted)
    <3> SUFFICES ASSUME NEW i \in 1 .. Len(fired), NEW j \in 1 .. Len(fired), posted[i] = posted[j]
                 PROVE  i = j
      BY <2>1 DEF Watching!Once
    <3>1. waiter[fired[i]] = waiter[fired[j]] /\ waiter[fired[i]] # 0
      BY <2>1, <1>11, TasksAre
    <3>2. fired[i] = fired[j]  BY <3>1, <1>1, <1>11
    <3> QED  BY <3>2, <1>5, <1>10 DEF Watching!Once
  <2>5. Watching!ToSet(posted) = {posted[i] : i \in 1 .. Len(fired)}  BY <2>1 DEF Watching!ToSet
  <2>6. \A i \in 1 .. Len(fired) : fired[i] \in F  BY <1>10
  <2>7. \A a \in F : \E i \in 1 .. Len(fired) : fired[i] = a  BY <1>10
  <2>8. \A x \in Watching!ToSet(posted) : x \in {waiter[a] : a \in F}  BY <2>1, <2>5, <2>6
  <2>9. \A a \in F : waiter[a] \in Watching!ToSet(posted)  BY <2>1, <2>5, <2>7
  <2> QED  BY <2>3, <2>4, <2>8, <2>9
<1> HIDE DEF posted
<1>13. tasks' = tasks \o posted /\ posted \in Seq(Watching!Watches)
  <2>1. \A i \in 1 .. Len(posted) : posted[i] \in Watching!Watches \ value  BY <1>12
  <2>2. posted \in Seq(Watching!Watches)
    <3>1. \A i \in 1 .. Len(posted) : posted[i] \in Watching!Watches  BY <2>1
    <3> QED  BY <3>1, <1>12
  <2>3. Watching!Filter(posted, Watching!Watches \ value) = posted  BY <2>1, <2>2, FilterAll
  <2> QED  BY <2>2, <2>3, <1>4
<1>14. /\ tasks \o posted \in Seq(Watching!Watches)
       /\ Watching!ToSet(tasks \o posted) = Watching!ToSet(tasks) \cup Watching!ToSet(posted)
       /\ Watching!Once(tasks) /\ Watching!Once(posted)
            /\ Watching!ToSet(tasks) \cap Watching!ToSet(posted) = {}
                 => Watching!Once(tasks \o posted)
  BY <1>13, TasksAre, ConcatOnce
<1>15. Watching!ToSet(tasks) \cap Watching!ToSet(posted) = {}
  <2>1. \A x \in Watching!ToSet(tasks) : \A a \in Addresses : waiter[a] # x
    BY DEF Watching!IInv, Watching!TasksAreOnce
  <2> QED  BY <2>1, <1>9, <1>12
<1>16. /\ list' \in [Events -> Seq(Addresses)] /\ list'[e] = rest
       /\ \A f \in Events \ {e} : list'[f] = list[f]
  BY <1>4, <1>6 DEF Watching!IInv, Watching!TypeOK
<1>17. /\ set' \in [Events -> BOOLEAN] /\ (set'[e] => e \in Manual \/ n = 0)
       /\ \A f \in Events \ {e} : set'[f] = set[f]
  BY <1>4 DEF Watching!IInv, Watching!TypeOK
<1>18. Watching!Once(list[e])' /\ Listed(e)' = R
  BY <1>6, <1>7, <1>16 DEF Watching!Once, Listed, Watching!ToSet
<1>19. Watching!Once(tasks')  BY <1>12, <1>13, <1>14, <1>15, TasksAre
<1>20. tasks' \in Seq(Watching!Watches)
         /\ Watching!ToSet(tasks') = Watching!ToSet(tasks) \cup {waiter[a] : a \in F}
  BY <1>12, <1>13, <1>14
<1> QED  BY <1>3, <1>4, <1>7, <1>8, <1>9, <1>16, <1>17, <1>18, <1>19, <1>20
(* A signal leaves no waiter without its watcher, and loses no watch.      *)
LEMMA WatchedSignalKeeps ==
  ASSUME Watching!IInv, NEW e \in Events, Watching!Signal(e) PROVE Watching!IInv'
<1>1. PICK F \in SUBSET Addresses, R \in SUBSET Addresses :
        /\ F \cap R = {} /\ F \cup R = Listed(e)
        /\ list' \in [Events -> Seq(Addresses)] /\ Watching!Once(list[e])' /\ Listed(e)' = R
        /\ \A f \in Events \ {e} : list'[f] = list[f]
        /\ set' \in [Events -> BOOLEAN] /\ (set'[e] => R = {})
        /\ \A f \in Events \ {e} : set'[f] = set[f]
        /\ waiter' = [a \in Addresses |-> IF a \in F THEN 0 ELSE waiter[a]]
        /\ tasks' \in Seq(Watching!Watches) /\ Watching!Once(tasks')
        /\ Watching!ToSet(tasks') = Watching!ToSet(tasks) \cup {waiter[a] : a \in F}
  BY SignalTakes
<1>2. UNCHANGED <<exists, value, cancel_flag_, waiter_, kernel_, message_loop_, loop, watches,
                  stopped, called>>
  BY DEF Watching!Signal, Watching!watcherVars
<1>3. /\ \A f \in Events : Listed(f) \in SUBSET Addresses
      /\ \A a \in Addresses : waiter[a] # 0 =>
           /\ waiter[a] \in Watching!Watches /\ waiter[a] <= watches
           /\ waiter[a] \notin value /\ waiter[a] \notin stopped
      /\ \A a, b \in Addresses : waiter[a] # 0 /\ waiter[a] = waiter[b] => a = b
      /\ \A f \in Events : \A a \in Listed(f) : waiter[a] # 0
  BY WaitersAre
<1>4. /\ \A f \in Events \ {e} : Listed(f)' = Listed(f)
      /\ \A a \in Addresses : waiter'[a] = IF a \in F THEN 0 ELSE waiter[a]
  BY <1>1 DEF Listed
<1>5. \A f, g \in Events : Listed(f) \cap Listed(g) # {} => f = g
  BY DEF Watching!IInv, Watching!ListedOnce, Listed
<1>6. \A a \in Addresses : waiter[a] # 0 <=> \E f \in Events : a \in Listed(f)
  BY DEF Watching!IInv, Watching!ListedOnce, Listed
<1>7. Watching!TypeOK'
  <2>1. waiter' \in [Addresses -> 0 .. MaxWatches]
    BY <1>1, WatchingAssumption DEF Watching!IInv, Watching!TypeOK, Watching!WatcherAssumption
  <2> QED  BY <2>1, <1>1, <1>2 DEF Watching!IInv, Watching!TypeOK
<1>8. Watching!ListedOnce'
  <2>1. \A f \in Events : Watching!Once(list'[f])
    BY <1>1 DEF Watching!IInv, Watching!ListedOnce, Watching!Once
  <2>2. ASSUME NEW f \in Events, NEW g \in Events, Listed(f)' \cap Listed(g)' # {} PROVE f = g
    <3>1. Listed(f)' \subseteq Listed(f) /\ Listed(g)' \subseteq Listed(g)  BY <1>1, <1>4
    <3> QED  BY <3>1, <2>2, <1>5
  <2>3. ASSUME NEW a \in Addresses
        PROVE  waiter'[a] # 0 <=> \E f \in Events : a \in Listed(f)'
    <3>1. CASE a \in F
      <4>1. waiter'[a] = 0 /\ a \in Listed(e)  BY <3>1, <1>1, <1>4
      <4>2. \A f \in Events : a \notin Listed(f)'  BY <4>1, <3>1, <1>1, <1>4, <1>5
      <4> QED  BY <4>1, <4>2
    <3>2. CASE a \notin F
      <4>1. waiter'[a] = waiter[a]  BY <3>2, <1>4
      <4>2. \A f \in Events : a \in Listed(f)' <=> a \in Listed(f)  BY <3>2, <1>1, <1>4
      <4> QED  BY <4>1, <4>2, <1>6
    <3> QED  BY <3>1, <3>2
  <2> QED  BY <2>1, <2>2, <2>3 DEF Watching!ListedOnce, Listed
<1>9. Watching!WaitersAreWatched'
  <2> SUFFICES ASSUME NEW f \in Events, NEW a \in Listed(f)'
               PROVE  /\ ~set'[f] /\ loop' # "down"
                      /\ \E w \in Watchers :
                           /\ cancel_flag_'[w] = waiter'[a] /\ waiter'[a] \notin value'
                           /\ waiter_'[w] = a /\ kernel_'[w] = f /\ message_loop_'[w]
    BY DEF Watching!WaitersAreWatched, Listed
  <2>1. a \in Listed(f) /\ a \in Addresses  BY <1>1, <1>3, <1>4
  <2>2. a \notin F  BY <2>1, <1>1, <1>4, <1>5
  <2>3. waiter'[a] = waiter[a] /\ ~set'[f]
    <3>1. CASE f = e  BY <3>1, <2>1, <2>2, <1>1, <1>4
    <3>2. CASE f # e
      BY <3>2, <2>1, <2>2, <1>1, <1>4 DEF Watching!IInv, Watching!WaitersAreWatched, Listed
    <3> QED  BY <3>1, <3>2
  <2> QED  BY <2>1, <2>3, <1>2 DEF Watching!IInv, Watching!WaitersAreWatched, Listed
<1>10. Watching!FlagsAreNew'  BY <1>2 DEF Watching!IInv, Watching!FlagsAreNew
<1>11. Watching!TasksAreOnce'
  <2> SUFFICES ASSUME NEW n \in Watching!ToSet(tasks')
               PROVE  /\ n <= watches /\ \A a \in Addresses : waiter'[a] # n
                      /\ n \in stopped => n \in value
    BY <1>1, <1>2 DEF Watching!TasksAreOnce
  <2>1. CASE n \in Watching!ToSet(tasks)
    <3>1. n \in Watching!Watches /\ n # 0  BY <2>1, TasksAre
    <3> QED  BY <2>1, <3>1, <1>4 DEF Watching!IInv, Watching!TasksAreOnce
  <2>2. CASE n \in {waiter[a] : a \in F}
    <3>1. PICK a \in F : n = waiter[a]  BY <2>2
    <3>2. waiter[a] # 0 /\ a \in Addresses  BY <3>1, <1>1, <1>3
    <3>3. \A b \in Addresses : waiter'[b] # n  BY <3>1, <3>2, <1>3, <1>4
    <3> QED  BY <3>1, <3>2, <3>3, <1>3
  <2> QED  BY <2>1, <2>2, <1>1
<1>12. Watching!NothingIsLost'
  <2> SUFFICES ASSUME loop = "up", NEW n \in (1 .. watches) \ (stopped \cup value)
               PROVE  n \in Watching!ToSet(tasks') \/ \E a \in Addresses : waiter'[a] = n
    BY <1>2 DEF Watching!NothingIsLost
  <2>1. n \in Watching!ToSet(tasks) \/ \E a \in Addresses : waiter[a] = n
    BY DEF Watching!IInv, Watching!NothingIsLost
  <2>2. CASE n \in Watching!ToSet(tasks)  BY <2>2, <1>1
  <2>3. CASE \E a \in Addresses : waiter[a] = n
    <3>1. PICK a \in Addresses : waiter[a] = n  BY <2>3
    <3>2. CASE a \in F  BY <3>1, <3>2, <1>1
    <3>3. CASE a \notin F  BY <3>1, <3>3, <1>4
    <3> QED  BY <3>2, <3>3
  <2> QED  BY <2>1, <2>2, <2>3
<1> QED  BY <1>7, <1>8, <1>9, <1>10, <1>11, <1>12 DEF Watching!IInv

LEMMA WatchedResetKeeps ==
  ASSUME Watching!IInv, NEW e \in Events, Watching!Reset(e) \/ Watching!DeleteEvent(e)
  PROVE  Watching!IInv'
<1>1. /\ UNCHANGED <<list, waiter, value, cancel_flag_, waiter_, kernel_, message_loop_,
                     tasks, loop, watches, stopped, called>>
      /\ set' \in [Events -> BOOLEAN] /\ exists' \subseteq Events
      /\ \A f \in Events : set'[f] => set[f]
  BY DEF Watching!Reset, Watching!DeleteEvent, Watching!watcherVars, Watching!IInv, Watching!TypeOK
<1>2. Watching!TypeOK'  BY <1>1 DEF Watching!IInv, Watching!TypeOK
<1>3. Watching!ListedOnce' /\ Watching!FlagsAreNew' /\ Watching!TasksAreOnce'
        /\ Watching!NothingIsLost'
  BY <1>1
     DEF Watching!IInv, Watching!ListedOnce, Watching!FlagsAreNew, Watching!TasksAreOnce,
         Watching!NothingIsLost, Watching!Once
<1>4. Watching!WaitersAreWatched'  BY <1>1 DEF Watching!IInv, Watching!WaitersAreWatched
<1> QED  BY <1>2, <1>3, <1>4 DEF Watching!IInv

LEMMA RunTaskKeeps ==
  ASSUME Watching!IInv, Watching!RunTask
  PROVE  Watching!IInv' /\ \A n \in Watching!Watches : called'[n] # called[n]
           => n \notin stopped /\ called[n] = 0
<1>1. PICK n : n = Head(tasks)  OBVIOUS
<1>2. /\ loop = "up" /\ tasks # <<>> /\ tasks' = Tail(tasks) /\ value' = value \cup {n}
      /\ called' = IF n \in value THEN called ELSE [called EXCEPT ![n] = @ + 1]
      /\ UNCHANGED <<set, list, exists, waiter, cancel_flag_, waiter_, kernel_,
                     message_loop_, loop, watches, stopped>>
  BY <1>1 DEF Watching!RunTask, Watching!watcherVars
<1>3. /\ tasks \in Seq(Watching!Watches) /\ Watching!Once(tasks)
      /\ Watching!ToSet(tasks) \in SUBSET Watching!Watches
      /\ watches \in Nat /\ watches <= MaxWatches /\ Watching!Watches \subseteq Nat
      /\ 0 \notin Watching!Watches
  BY TasksAre
<1>4. tasks' \in Seq(Watching!Watches) /\ Watching!Once(tasks')
        /\ Watching!ToSet(tasks') = Watching!ToSet(tasks) \ {n} /\ n \in Watching!ToSet(tasks)
  <2>1. Len(tasks) \in Nat /\ Len(tasks) # 0  BY <1>2, <1>3
  <2>2. 2 \in 1 .. Len(tasks) + 1 /\ Len(tasks) \in 0 .. Len(tasks) /\ 2 <= Len(tasks) + 1  BY <2>1
  <2>3. /\ SubSeq(tasks, 2, Len(tasks)) \in Seq(Watching!Watches)
        /\ Watching!Once(SubSeq(tasks, 2, Len(tasks)))
        /\ Watching!ToSet(SubSeq(tasks, 2, Len(tasks))) = {tasks[i] : i \in 2 .. Len(tasks)}
        /\ \A i, j \in 1 .. Len(tasks) : tasks[i] = tasks[j] => i = j
        /\ Watching!ToSet(tasks) = {tasks[i] : i \in 1 .. Len(tasks)}
    BY <2>2, <1>3, PieceOnce
  <2>4. tasks' = SubSeq(tasks, 2, Len(tasks)) /\ n = tasks[1]  BY <1>1, <1>2, <1>3
  <2>5. {tasks[i] : i \in 2 .. Len(tasks)} = {tasks[i] : i \in 1 .. Len(tasks)} \ {tasks[1]}
    BY ONLY <2>1, <2>3
  <2>6. tasks[1] \in {tasks[i] : i \in 1 .. Len(tasks)}  BY <2>1
  <2> QED  BY <2>3, <2>4, <2>5, <2>6
<1>5. n \in Watching!Watches /\ n <= watches /\ (\A a \in Addresses : waiter[a] # n)
        /\ (n \in stopped => n \in value)
  BY <1>3, <1>4 DEF Watching!IInv, Watching!TasksAreOnce
<1>6. called' \in [Watching!Watches -> Nat] /\ \A m \in Watching!Watches : called'[m] = IF m = n
        /\ n \notin value THEN called[m] + 1 ELSE called[m]
  BY <1>2, <1>5 DEF Watching!IInv, Watching!TypeOK
<1>7. Watching!TypeOK'  BY <1>2, <1>4, <1>5, <1>6 DEF Watching!IInv, Watching!TypeOK
<1>8. Watching!ListedOnce'  BY <1>2 DEF Watching!IInv, Watching!ListedOnce, Watching!Once
<1>9. Watching!WaitersAreWatched'
  <2> SUFFICES ASSUME NEW f \in Events, NEW a \in Listed(f)'
               PROVE  /\ ~set'[f] /\ loop' # "down"
                      /\ \E w \in Watchers :
                           /\ cancel_flag_'[w] = waiter'[a] /\ waiter'[a] \notin value'
                           /\ waiter_'[w] = a /\ kernel_'[w] = f /\ message_loop_'[w]
    BY DEF Watching!WaitersAreWatched, Listed
  <2>1. a \in Listed(f)  BY <1>2 DEF Listed
  <2>2. a \in Addresses  BY <2>1, WaitersAre
  <2>3. waiter[a] # n  BY <2>2, <1>5
  <2> QED  BY <2>1, <2>3, <1>2 DEF Watching!IInv, Watching!WaitersAreWatched, Listed
<1>10. Watching!FlagsAreNew'
  <2>1. n \in 1 .. watches  BY <1>3, <1>5
  <2> QED  BY <2>1, <1>2, <1>6 DEF Watching!IInv, Watching!FlagsAreNew
<1>11. Watching!TasksAreOnce'  BY <1>2, <1>4 DEF Watching!IInv, Watching!TasksAreOnce
<1>12. Watching!NothingIsLost'  BY <1>2, <1>4 DEF Watching!IInv, Watching!NothingIsLost
<1>13. Watching!IInv'  BY <1>7, <1>8, <1>9, <1>10, <1>11, <1>12 DEF Watching!IInv
<1>14. \A m \in Watching!Watches : called'[m] # called[m] => m \notin stopped /\ called[m] = 0
  BY <1>5, <1>6 DEF Watching!IInv, Watching!FlagsAreNew
<1> QED  BY <1>13, <1>14

LEMMA CloseLoopKeeps ==
  ASSUME Watching!IInv, Watching!CloseLoop \/ Watching!LoopGone PROVE Watching!IInv'
<1>1. /\ tasks' = <<>> /\ loop' \in {"closing", "down"}
      /\ loop' = "down" => \A w \in Watchers : ~message_loop_[w]
      /\ UNCHANGED <<set, list, exists, waiter, value, cancel_flag_, waiter_, kernel_,
                     message_loop_, watches, stopped, called>>
  BY DEF Watching!CloseLoop, Watching!LoopGone, Watching!watcherVars
<1>2. tasks' \in Seq(Watching!Watches) /\ Watching!Once(tasks') /\ Watching!ToSet(tasks') = {}
  <2>1. DOMAIN <<>> = {}  OBVIOUS
  <2> QED  BY <2>1, <1>1 DEF Watching!Once, Watching!ToSet
<1>3. Watching!TypeOK'  BY <1>1, <1>2 DEF Watching!IInv, Watching!TypeOK
<1>4. Watching!ListedOnce' /\ Watching!FlagsAreNew'
  BY <1>1 DEF Watching!IInv, Watching!ListedOnce, Watching!FlagsAreNew, Watching!Once
<1>5. Watching!TasksAreOnce' /\ Watching!NothingIsLost'
  BY <1>1, <1>2 DEF Watching!TasksAreOnce, Watching!NothingIsLost
<1>6. Watching!WaitersAreWatched'  BY <1>1 DEF Watching!IInv, Watching!WaitersAreWatched
<1> QED  BY <1>3, <1>4, <1>5, <1>6 DEF Watching!IInv
(* A watcher that starts holds no waiter any more, whatever it held.       *)
LEMMA StartWatchingKeeps ==
  ASSUME Watching!IInv, NEW w \in Watchers, NEW e \in Events, Watching!StartWatching(w, e)
  PROVE  Watching!IInv'
<1>1. PICK n : n = watches + 1  OBVIOUS
<1>2. /\ loop = "up" /\ e \in exists /\ watches < MaxWatches
      /\ cancel_flag_[w] # 0 => cancel_flag_[w] \in value
      /\ watches' = n /\ cancel_flag_' = [cancel_flag_ EXCEPT ![w] = n]
      /\ UNCHANGED <<exists, value, loop, stopped, called>>
  BY <1>1 DEF Watching!StartWatching
<1>3. /\ tasks \in Seq(Watching!Watches) /\ Watching!Once(tasks)
      /\ Watching!ToSet(tasks) \in SUBSET Watching!Watches
      /\ watches \in Nat /\ watches <= MaxWatches /\ Watching!Watches \subseteq Nat
      /\ 0 \notin Watching!Watches
  BY TasksAre
<1>4. n \in Watching!Watches /\ n \in Nat /\ n # 0 /\ n \in 0 .. MaxWatches /\ ~(n <= watches)
        /\ watches <= n
  BY <1>1, <1>2, <1>3, WatchingAssumption DEF Watching!Watches, Watching!WatcherAssumption
<1>5. /\ \A f \in Events : Listed(f) \in SUBSET Addresses
      /\ \A a \in Addresses : waiter[a] # 0 =>
           /\ waiter[a] \in Watching!Watches /\ waiter[a] <= watches
           /\ waiter[a] \notin value /\ waiter[a] \notin stopped
      /\ \A f \in Events : \A a \in Listed(f) : waiter[a] # 0
      /\ list[e] \in Seq(Addresses) /\ Watching!Once(list[e])
  BY WaitersAre
<1>6. /\ \A f, g \in Events : Listed(f) \cap Listed(g) # {} => f = g
      /\ \A a \in Addresses : waiter[a] # 0 <=> \E f \in Events : a \in Listed(f)
  BY DEF Watching!IInv, Watching!ListedOnce, Listed
<1>7. /\ value \cup stopped \subseteq 1 .. watches
      /\ \A v \in Watchers : cancel_flag_[v] <= watches /\ cancel_flag_[v] \notin stopped
      /\ \A v, x \in Watchers : cancel_flag_[v] = cancel_flag_[x] /\ cancel_flag_[v] # 0 => v = x
      /\ \A m \in Watching!Watches : called[m] # 0 => m \in value
  BY DEF Watching!IInv, Watching!FlagsAreNew
<1>8. /\ cancel_flag_' \in [Watchers -> 0 .. MaxWatches]
      /\ \A v \in Watchers : cancel_flag_'[v] = IF v = w THEN n ELSE cancel_flag_[v]
  BY <1>2, <1>4 DEF Watching!IInv, Watching!TypeOK
<1>9. \A v \in Watchers : cancel_flag_[v] \in 0 .. MaxWatches /\ cancel_flag_[v] # n
  BY <1>3, <1>4, <1>7 DEF Watching!IInv, Watching!TypeOK
<1>10. n \notin value /\ n \notin stopped  BY <1>3, <1>4, <1>7
<1>11. Watching!FlagsAreNew'
  <2>1. value \cup stopped \subseteq 1 .. n
    BY ONLY <1>1, <1>3, <1>7
  <2>2. \A v \in Watchers : cancel_flag_'[v] <= n /\ cancel_flag_'[v] \notin stopped
    BY <1>1, <1>3, <1>4, <1>7, <1>8, <1>9, <1>10
  <2>3. \A v, x \in Watchers : cancel_flag_'[v] = cancel_flag_'[x] /\ cancel_flag_'[v] # 0 => v = x
    BY <1>7, <1>8, <1>9
  <2> QED  BY <2>1, <2>2, <2>3, <1>2, <1>7 DEF Watching!FlagsAreNew
<1>12. \A f \in Events : \A a \in Listed(f) : \E v \in Watchers \ {w} :
         /\ ~set[f] /\ cancel_flag_[v] = waiter[a] /\ waiter[a] \notin value
         /\ waiter_[v] = a /\ kernel_[v] = f /\ message_loop_[v]
  BY <1>2, <1>5 DEF Watching!IInv, Watching!WaitersAreWatched, Listed
<1>13. \A m \in 1 .. n : m = n \/ m \in 1 .. watches  BY <1>1, <1>3
<1>14. \A m \in Watching!ToSet(tasks) :
         /\ m <= watches /\ m <= n /\ m # n
         /\ \A a \in Addresses : waiter[a] # m
         /\ m \in stopped => m \in value
  <2>1. \A m \in Watching!ToSet(tasks) :
          /\ m <= watches /\ m \in Nat
          /\ \A a \in Addresses : waiter[a] # m
          /\ m \in stopped => m \in value
    BY <1>3 DEF Watching!IInv, Watching!TasksAreOnce
  <2>2. \A m \in Nat : m <= watches => m <= n /\ m # n  BY ONLY <1>1, <1>3
  <2> QED  BY <2>1, <2>2
<1>15. \A m \in (1 .. watches) \ (stopped \cup value) :
         m \in Watching!ToSet(tasks) \/ \E a \in Addresses : waiter[a] = m
  BY <1>2 DEF Watching!IInv, Watching!NothingIsLost
<1>16. CASE set[e]
  <2>1. /\ set' = [set EXCEPT ![e] = e \in Manual]
        /\ tasks' = Append(tasks, n)
        /\ message_loop_'
               = [message_loop_ EXCEPT ![w] = @
                 /\ ~(cancel_flag_[w] # 0 /\ cancel_flag_[w] \in value)]
        /\ UNCHANGED <<list, waiter, waiter_, kernel_>>
    BY <1>1, <1>16 DEF Watching!StartWatching
  <2>2. /\ set' \in [Events -> BOOLEAN]
        /\ \A f \in Events : set'[f] => set[f]
    <3>1. set \in [Events -> BOOLEAN]  BY DEF Watching!IInv, Watching!TypeOK
    <3>2. \A f \in Events : set'[f] = IF f = e THEN e \in Manual ELSE set[f]
      BY <2>1, <3>1, Zenon
    <3>3. set' \in [Events -> BOOLEAN]
      <4>1. \E r \in BOOLEAN : set' = [set EXCEPT ![e] = r]
        <5> DEFINE r == e \in Manual
        <5>1. r \in BOOLEAN  BY SMT
        <5>2. set' = [set EXCEPT ![e] = r]  BY <2>1, Zenon
        <5> HIDE DEF r
        <5> QED  BY <5>1, <5>2
      <4> QED  BY <3>1, <4>1
    <3> QED  BY <3>2, <3>3, <1>16, Zenon
  <2>3. message_loop_' \in [Watchers -> BOOLEAN]
          /\ \A v \in Watchers \ {w} : message_loop_'[v] = message_loop_[v]
    BY <2>1, Zenon DEF Watching!IInv, Watching!TypeOK
  <2>4. /\ tasks' \in Seq(Watching!Watches) /\ Watching!Once(tasks')
        /\ Watching!ToSet(tasks') = Watching!ToSet(tasks) \cup {n}
    BY <2>1, <1>3, <1>4, <1>14, AppendOnce
  <2>5. Watching!TypeOK'
    BY <1>2, <1>4, <1>8, <2>1, <2>2, <2>3, <2>4 DEF Watching!IInv, Watching!TypeOK
  <2>6. Watching!ListedOnce'  BY <2>1 DEF Watching!IInv, Watching!ListedOnce, Watching!Once
  <2>7. Watching!WaitersAreWatched'
    <3> SUFFICES ASSUME NEW f \in Events, NEW a \in Listed(f)'
                 PROVE  /\ ~set'[f] /\ loop' # "down"
                        /\ \E v \in Watchers :
                             /\ cancel_flag_'[v] = waiter'[a] /\ waiter'[a] \notin value'
                             /\ waiter_'[v] = a /\ kernel_'[v] = f /\ message_loop_'[v]
      BY DEF Watching!WaitersAreWatched, Listed
    <3>1. a \in Listed(f)  BY <2>1 DEF Listed
    <3>2. PICK v \in Watchers \ {w} :
            /\ ~set[f] /\ cancel_flag_[v] = waiter[a] /\ waiter[a] \notin value
            /\ waiter_[v] = a /\ kernel_[v] = f /\ message_loop_[v]
      BY <3>1, <1>12
    <3> QED  BY <3>2, <1>2, <1>8, <2>1, <2>2, <2>3
  <2>8. Watching!TasksAreOnce'
    <3>1. \A a \in Addresses : waiter[a] # n  BY <1>4, <1>5
    <3> QED  BY <3>1, <1>2, <1>4, <1>10, <1>14, <2>1, <2>4 DEF Watching!TasksAreOnce
  <2>9. Watching!NothingIsLost'  BY <1>2, <1>13, <1>15, <2>1, <2>4 DEF Watching!NothingIsLost
  <2> QED  BY <1>11, <2>5, <2>6, <2>7, <2>8, <2>9 DEF Watching!IInv
<1>17. CASE ~set[e]
  <2>1. PICK b \in Addresses :
          /\ waiter[b] = 0
          /\ waiter' = [waiter EXCEPT ![b] = n]
          /\ waiter_' = [waiter_ EXCEPT ![w] = b]
          /\ list' = [list EXCEPT ![e] = Append(@, b)]
          /\ message_loop_' = [message_loop_ EXCEPT ![w] = TRUE]
          /\ kernel_' = [kernel_ EXCEPT ![w] = e]
          /\ UNCHANGED <<set, tasks>>
    BY <1>1, <1>17 DEF Watching!StartWatching
  <2>2. /\ Append(list[e], b) \in Seq(Addresses) /\ Watching!Once(Append(list[e], b))
        /\ Watching!ToSet(Append(list[e], b)) = Listed(e) \cup {b}
    <3>1. b \notin Listed(e)  BY <2>1, <1>5
    <3> QED  BY <3>1, <1>5, AppendOnce DEF Listed
  <2>3. /\ list' \in [Events -> Seq(Addresses)] /\ list'[e] = Append(list[e], b)
        /\ \A f \in Events \ {e} : list'[f] = list[f]
    BY <2>1, <2>2 DEF Watching!IInv, Watching!TypeOK
  <2>4. Listed(e)' = Listed(e) \cup {b} /\ \A f \in Events \ {e} : Listed(f)' = Listed(f)
    BY <2>2, <2>3 DEF Listed
  <2>5. /\ waiter' \in [Addresses -> 0 .. MaxWatches]
        /\ \A a \in Addresses : waiter'[a] = IF a = b THEN n ELSE waiter[a]
        /\ waiter_' \in [Watchers -> Addresses \cup {NULL}] /\ waiter_'[w] = b
        /\ kernel_' \in [Watchers -> Events \cup {NULL}] /\ kernel_'[w] = e
        /\ \A v \in Watchers \ {w} : waiter_'[v] = waiter_[v] /\ kernel_'[v] = kernel_[v]
    BY <2>1, <1>4 DEF Watching!IInv, Watching!TypeOK
  <2>6. /\ message_loop_' \in [Watchers -> BOOLEAN] /\ message_loop_'[w]
        /\ \A v \in Watchers \ {w} : message_loop_'[v] = message_loop_[v]
    BY <2>1, Zenon DEF Watching!IInv, Watching!TypeOK
  <2>7. Watching!TypeOK'
    BY <1>2, <1>4, <1>8, <2>1, <2>3, <2>5, <2>6 DEF Watching!IInv, Watching!TypeOK
  <2>8. Watching!ListedOnce'
    <3>1. \A f \in Events : Watching!Once(list'[f])
      <4> SUFFICES ASSUME NEW f \in Events PROVE Watching!Once(list'[f])  OBVIOUS
      <4>1. CASE f = e
        <5>1. list'[f] = Append(list[e], b)  BY <4>1, <2>3
        <5> QED  BY <5>1, <2>2
      <4>2. CASE f # e
        <5>1. list'[f] = list[f] /\ Watching!Once(list[f])
          BY <4>2, <2>3 DEF Watching!IInv, Watching!ListedOnce
        <5> QED  BY <5>1
      <4> QED  BY <4>1, <4>2
    <3>2. \A f \in Events : b \notin Listed(f)  BY <2>1, <1>5
    <3>3. \A f, g \in Events : Listed(f)' \cap Listed(g)' # {} => f = g
      BY <3>2, <2>4, <1>6
    <3>4. \A a \in Addresses : waiter'[a] # 0 <=> \E f \in Events : a \in Listed(f)'
      BY <3>2, <2>4, <2>5, <1>4, <1>6
    <3> QED  BY <3>1, <3>3, <3>4 DEF Watching!ListedOnce, Listed
  <2>9. Watching!WaitersAreWatched'
    <3> SUFFICES ASSUME NEW f \in Events, NEW a \in Listed(f)'
                 PROVE  /\ ~set'[f] /\ loop' # "down"
                        /\ \E v \in Watchers :
                             /\ cancel_flag_'[v] = waiter'[a] /\ waiter'[a] \notin value'
                             /\ waiter_'[v] = a /\ kernel_'[v] = f /\ message_loop_'[v]
      BY DEF Watching!WaitersAreWatched, Listed
    <3>1. CASE a = b
      <4>1. f = e  BY <3>1, <2>1, <2>4, <1>5
      <4> QED  BY <3>1, <4>1, <1>2, <1>8, <1>10, <1>17, <2>1, <2>5, <2>6
    <3>2. CASE a # b
      <4>1. a \in Listed(f) /\ a \in Addresses  BY <3>2, <2>4, <1>5
      <4>2. PICK v \in Watchers \ {w} :
              /\ ~set[f] /\ cancel_flag_[v] = waiter[a] /\ waiter[a] \notin value
              /\ waiter_[v] = a /\ kernel_[v] = f /\ message_loop_[v]
        BY <4>1, <1>12
      <4>3. waiter'[a] = waiter[a]  BY <3>2, <4>1, <2>5
      <4> QED  BY <4>2, <4>3, <1>2, <1>8, <2>1, <2>5, <2>6
    <3> QED  BY <3>1, <3>2
  <2>10. Watching!TasksAreOnce'
    <3>1. \A m \in Watching!ToSet(tasks) : \A a \in Addresses : waiter'[a] # m  BY <1>14, <2>5
    <3> QED  BY <3>1, <1>2, <1>14, <1>3, <2>1 DEF Watching!TasksAreOnce
  <2>11. Watching!NothingIsLost'
    <3>1. \A m \in (1 .. n) \ (stopped \cup value) :
            m \in Watching!ToSet(tasks) \/ \E a \in Addresses : waiter'[a] = m
      <4> SUFFICES ASSUME NEW m \in (1 .. n) \ (stopped \cup value)
                   PROVE  m \in Watching!ToSet(tasks) \/ \E a \in Addresses : waiter'[a] = m
        OBVIOUS
      <4>1. CASE m = n  BY <4>1, <2>5
      <4>2. CASE m # n
        <5>1. m \in (1 .. watches) \ (stopped \cup value) /\ m # 0  BY <4>2, <1>13
        <5>2. m \in Watching!ToSet(tasks) \/ \E a \in Addresses : waiter[a] = m  BY <5>1, <1>15
        <5> QED  BY <5>1, <5>2, <2>1, <2>5
      <4> QED  BY <4>1, <4>2
    <3> QED  BY <3>1, <1>2, <2>1 DEF Watching!NothingIsLost
  <2> QED  BY <1>11, <2>7, <2>8, <2>9, <2>10, <2>11 DEF Watching!IInv
<1> QED  BY <1>16, <1>17
(* StopWatching leaves its watcher with no waiter, and its watch either in *)
(* no list or with its flag set.                                           *)
LEMMA StopWatchingEnds ==
  ASSUME Watching!IInv, NEW w \in Watchers, Watching!StopWatching(w)
  PROVE  \E n \in 0 .. MaxWatches :
           /\ n = cancel_flag_[w]
           /\ cancel_flag_' = [cancel_flag_ EXCEPT ![w] = 0]
           /\ stopped' = IF n = 0 THEN stopped ELSE stopped \cup {n}
           /\ \/ /\ UNCHANGED <<list, waiter>>
                 /\ \/ value' = value /\ (n = 0 \/ n \in value)
                    \/ value' = value \cup {n} /\ n # 0
                 /\ \A f \in Events : \A a \in Listed(f) : waiter[a] # n
              \/ /\ value' = value /\ n # 0
                 /\ \E e \in Events, a \in Addresses :
                      /\ a \in Listed(e) /\ waiter[a] = n /\ waiter' = [waiter EXCEPT ![a] = 0]
                      /\ list' \in [Events -> Seq(Addresses)] /\ Watching!Once(list[e])'
                      /\ Listed(e)' = Listed(e) \ {a}
                      /\ \A f \in Events \ {e} : list'[f] = list[f]
<1>1. PICK n \in 0 .. MaxWatches : n = cancel_flag_[w]  BY DEF Watching!IInv, Watching!TypeOK
<1>2. /\ cancel_flag_' = [cancel_flag_ EXCEPT ![w] = 0]
      /\ stopped' = IF n = 0 THEN stopped ELSE stopped \cup {n}
  BY <1>1 DEF Watching!StopWatching
<1>3. \A f \in Events : \A a \in Listed(f) : \E v \in Watchers :
        /\ cancel_flag_[v] = waiter[a] /\ waiter[a] \notin value /\ waiter[a] # 0
        /\ waiter_[v] = a /\ kernel_[v] = f
  BY WaitersAre DEF Watching!IInv, Watching!WaitersAreWatched, Listed
<1>4. \A v \in Watchers : cancel_flag_[v] = n /\ n # 0 => v = w
  BY <1>1 DEF Watching!IInv, Watching!FlagsAreNew
<1>5. CASE n = 0 \/ n \in value
  <2>1. UNCHANGED <<value, list, waiter>>  BY <1>1, <1>5 DEF Watching!StopWatching
  <2>2. \A f \in Events : \A a \in Listed(f) : waiter[a] # n  BY <1>3, <1>5
  <2> QED  BY <1>1, <1>2, <1>5, <2>1, <2>2
<1>6. CASE ~(n = 0 \/ n \in value)
  <2>1. Watching!Cancel(w, n)  BY <1>1, <1>6 DEF Watching!StopWatching
  <2>2. PICK found : found = IF kernel_[w] = NULL THEN {}
                 ELSE Watching!Compare(kernel_[w], waiter_[w], n)
    OBVIOUS
  <2>3. CASE found = {}
    <3>1. value' = value \cup {n} /\ UNCHANGED <<list, waiter>>
      BY <2>1, <2>2, <2>3 DEF Watching!Cancel
    <3>2. ASSUME NEW f \in Events, NEW a \in Listed(f), waiter[a] = n PROVE FALSE
      <4>1. waiter_[w] = a /\ kernel_[w] = f  BY <1>3, <1>4, <1>6, <3>2
      <4>2. PICK i \in DOMAIN list[f] : list[f][i] = a  BY <3>2 DEF Listed, Watching!ToSet
      <4>3. f # NULL  BY WatchingAssumption DEF Watching!WatcherAssumption
      <4> QED  BY <4>1, <4>2, <4>3, <2>2, <2>3, <3>2 DEF Watching!Compare
    <3> QED  BY <1>1, <1>2, <1>6, <3>1, <3>2
  <2>4. CASE found # {}
    <3>1. PICK e \in Events, a \in Addresses :
            e = kernel_[w] /\ a = waiter_[w] /\ found = Watching!Compare(e, a, n)
      <4>1. kernel_[w] \in Events /\ found = Watching!Compare(kernel_[w], waiter_[w], n)
        BY <2>2, <2>4 DEF Watching!IInv, Watching!TypeOK
      <4>2. PICK i \in DOMAIN list[kernel_[w]] : list[kernel_[w]][i] = waiter_[w]
        BY <2>4, <4>1 DEF Watching!Compare
      <4>3. waiter_[w] \in Watching!ToSet(list[kernel_[w]])  BY <4>2 DEF Watching!ToSet
      <4>4. waiter_[w] \in Addresses  BY <4>1, <4>3, WaitersAre DEF Listed
      <4> QED  BY <4>1, <4>4
    <3>2. PICK i \in found : i = CHOOSE j \in found : TRUE  BY <2>4
    <3>3. i \in DOMAIN list[e] /\ list[e][i] = a /\ waiter[a] = n
      BY <3>1, <3>2 DEF Watching!Compare
    <3>4. e # NULL  BY WatchingAssumption DEF Watching!WatcherAssumption
    <3>5. /\ list' = [list EXCEPT ![e] = Watching!RemoveAt(@, i)]
          /\ waiter' = [waiter EXCEPT ![a] = 0] /\ value' = value
      BY <2>1, <2>2, <2>4, <3>1, <3>2, <3>4 DEF Watching!Cancel
    <3>6. list[e] \in Seq(Addresses) /\ Watching!Once(list[e])  BY WaitersAre
    <3>7. /\ Watching!RemoveAt(list[e], i) \in Seq(Addresses)
          /\ Watching!Once(Watching!RemoveAt(list[e], i))
          /\ Watching!ToSet(Watching!RemoveAt(list[e], i)) = Watching!ToSet(list[e]) \ {a}
      <4>1. i \in 1 .. Len(list[e])  BY <3>3, <3>6
      <4> QED  BY <3>3, <3>6, <4>1, RemoveOnce
    <3>8. /\ list' \in [Events -> Seq(Addresses)] /\ list'[e] = Watching!RemoveAt(list[e], i)
          /\ \A f \in Events \ {e} : list'[f] = list[f]
      BY <3>5, <3>7 DEF Watching!IInv, Watching!TypeOK
    <3>9. Watching!Once(list[e])' /\ Listed(e)' = Listed(e) \ {a}
      <4>1. PICK r : r = Watching!RemoveAt(list[e], i)  OBVIOUS
      <4>2. list'[e] = r /\ Watching!Once(r)  BY <4>1, <3>7, <3>8
      <4>3. Watching!ToSet(r) = Watching!ToSet(list[e]) \ {a}  BY <4>1, <3>7
      <4>4. Watching!Once(list[e])'  BY <4>2 DEF Watching!Once
      <4>5. Listed(e)' = Listed(e) \ {a}  BY <4>2, <4>3 DEF Listed
      <4> QED  BY <4>4, <4>5
    <3>10. a \in Listed(e)  BY <3>3 DEF Listed, Watching!ToSet
    <3> QED  BY <1>1, <1>2, <1>6, <3>3, <3>5, <3>8, <3>9, <3>10
  <2> QED  BY <2>3, <2>4
<1> QED  BY <1>5, <1>6

LEMMA StopWatchingKeeps ==
  ASSUME Watching!IInv, NEW w \in Watchers, Watching!StopWatching(w), loop' = loop,
         waiter_' \in [Watchers -> Addresses \cup {NULL}],
         kernel_' \in [Watchers -> Events \cup {NULL}],
         \A v \in Watchers \ {w} : waiter_'[v] = waiter_[v] /\ kernel_'[v] = kernel_[v]
  PROVE  Watching!IInv'
<1>1. PICK n \in 0 .. MaxWatches :
        /\ n = cancel_flag_[w]
        /\ cancel_flag_' = [cancel_flag_ EXCEPT ![w] = 0]
        /\ stopped' = IF n = 0 THEN stopped ELSE stopped \cup {n}
        /\ \/ /\ UNCHANGED <<list, waiter>>
              /\ \/ value' = value /\ (n = 0 \/ n \in value)
                 \/ value' = value \cup {n} /\ n # 0
              /\ \A f \in Events : \A a \in Listed(f) : waiter[a] # n
           \/ /\ value' = value /\ n # 0
              /\ \E e \in Events, a \in Addresses :
                   /\ a \in Listed(e) /\ waiter[a] = n /\ waiter' = [waiter EXCEPT ![a] = 0]
                   /\ list' \in [Events -> Seq(Addresses)] /\ Watching!Once(list[e])'
                   /\ Listed(e)' = Listed(e) \ {a}
                   /\ \A f \in Events \ {e} : list'[f] = list[f]
  BY StopWatchingEnds
<1>2. /\ message_loop_' = [message_loop_ EXCEPT ![w] = FALSE]
      /\ UNCHANGED <<set, exists, tasks, watches, called>>
  BY DEF Watching!StopWatching
<1>3. /\ tasks \in Seq(Watching!Watches) /\ Watching!Once(tasks)
      /\ Watching!ToSet(tasks) \in SUBSET Watching!Watches
      /\ watches \in Nat /\ watches <= MaxWatches /\ Watching!Watches \subseteq Nat
      /\ 0 \notin Watching!Watches
  BY TasksAre
<1>4. /\ \A f \in Events : Listed(f) \in SUBSET Addresses /\ Watching!Once(list[f])
      /\ \A a \in Addresses : waiter[a] # 0 =>
           /\ waiter[a] \in Watching!Watches /\ waiter[a] <= watches
           /\ waiter[a] \notin value /\ waiter[a] \notin stopped
      /\ \A f \in Events : \A a \in Listed(f) : waiter[a] # 0
      /\ \A a, b \in Addresses : waiter[a] # 0 /\ waiter[a] = waiter[b] => a = b
  BY WaitersAre
<1>5. /\ \A f, g \in Events : Listed(f) \cap Listed(g) # {} => f = g
      /\ \A a \in Addresses : waiter[a] # 0 <=> \E f \in Events : a \in Listed(f)
  BY DEF Watching!IInv, Watching!ListedOnce, Listed
<1>6. /\ value \cup stopped \subseteq 1 .. watches
      /\ \A v \in Watchers : cancel_flag_[v] <= watches /\ cancel_flag_[v] \notin stopped
      /\ \A v, x \in Watchers : cancel_flag_[v] = cancel_flag_[x] /\ cancel_flag_[v] # 0 => v = x
      /\ \A m \in Watching!Watches : called[m] # 0 => m \in value
  BY DEF Watching!IInv, Watching!FlagsAreNew
<1>7. \A m \in Watching!ToSet(tasks) :
        /\ m <= watches /\ \A a \in Addresses : waiter[a] # m
        /\ m \in stopped => m \in value
  BY DEF Watching!IInv, Watching!TasksAreOnce
<1>8. n # 0 => n \in Watching!Watches /\ n \in 1 .. watches
  <2>1. n \in 0 .. MaxWatches /\ n <= watches  BY <1>1, <1>6
  <2> QED  BY ONLY <2>1, <1>3 DEF Watching!Watches
<1>9. /\ cancel_flag_' \in [Watchers -> 0 .. MaxWatches]
      /\ \A v \in Watchers : cancel_flag_'[v] = IF v = w THEN 0 ELSE cancel_flag_[v]
  <2>1. 0 \in 0 .. MaxWatches  BY WatchingAssumption DEF Watching!WatcherAssumption
  <2> QED  BY <2>1, <1>1 DEF Watching!IInv, Watching!TypeOK
<1>10. /\ message_loop_' \in [Watchers -> BOOLEAN]
       /\ \A v \in Watchers \ {w} : message_loop_'[v] = message_loop_[v]
  BY <1>2 DEF Watching!IInv, Watching!TypeOK
<1>11. /\ value' \subseteq Watching!Watches /\ stopped' \subseteq Watching!Watches
       /\ value' \cup stopped' \subseteq 1 .. watches
       /\ value \subseteq value' /\ \A m \in value' : m \in value \/ m = n
       /\ \A m \in stopped' : m \in stopped \/ (m = n /\ n # 0)
       /\ (n # 0 => n \in stopped') /\ stopped \subseteq stopped'
  BY <1>1, <1>6, <1>8 DEF Watching!IInv, Watching!TypeOK
<1>12. Watching!FlagsAreNew'
  <2>1. \A v \in Watchers : cancel_flag_'[v] <= watches /\ cancel_flag_'[v] \notin stopped'
    <3> SUFFICES ASSUME NEW v \in Watchers
                 PROVE  cancel_flag_'[v] <= watches /\ cancel_flag_'[v] \notin stopped'
      OBVIOUS
    <3>1. CASE v = w
      <4>1. 0 \notin stopped'  BY <1>3, <1>11
      <4> QED  BY <3>1, <4>1, <1>3, <1>9
    <3>2. CASE v # w
      <4>1. cancel_flag_'[v] = cancel_flag_[v]  BY <3>2, <1>9
      <4>2. cancel_flag_[v] = n => n = 0  BY <3>2, <1>1, <1>6
      <4> QED  BY <4>1, <4>2, <1>6, <1>11
    <3> QED  BY <3>1, <3>2
  <2>2. \A v, x \in Watchers : cancel_flag_'[v] = cancel_flag_'[x] /\ cancel_flag_'[v] # 0 => v = x
    BY <1>6, <1>9
  <2> QED  BY <2>1, <2>2, <1>2, <1>6, <1>11 DEF Watching!FlagsAreNew
<1>13. \A f \in Events : \A a \in Listed(f) : waiter[a] # n => \E v \in Watchers \ {w} :
         /\ ~set[f] /\ loop # "down"
         /\ cancel_flag_[v] = waiter[a] /\ waiter[a] \notin value
         /\ waiter_[v] = a /\ kernel_[v] = f /\ message_loop_[v]
  BY <1>1 DEF Watching!IInv, Watching!WaitersAreWatched, Listed
<1>14. ASSUME \A f \in Events : /\ Listed(f)' \subseteq Listed(f)
                               /\ \A a \in Listed(f)' : waiter'[a] = waiter[a] /\ waiter[a] # n
       PROVE  Watching!WaitersAreWatched'
  <2> SUFFICES ASSUME NEW f \in Events, NEW a \in Listed(f)'
               PROVE  /\ ~set'[f] /\ loop' # "down"
                      /\ \E v \in Watchers :
                           /\ cancel_flag_'[v] = waiter'[a] /\ waiter'[a] \notin value'
                           /\ waiter_'[v] = a /\ kernel_'[v] = f /\ message_loop_'[v]
    BY DEF Watching!WaitersAreWatched, Listed
  <2>1. a \in Listed(f) /\ waiter'[a] = waiter[a] /\ waiter[a] # n  BY <1>14
  <2>2. PICK v \in Watchers \ {w} :
          /\ ~set[f] /\ loop # "down"
          /\ cancel_flag_[v] = waiter[a] /\ waiter[a] \notin value
          /\ waiter_[v] = a /\ kernel_[v] = f /\ message_loop_[v]
    BY <2>1, <1>13
  <2>3. waiter[a] \notin value'  BY <2>1, <2>2, <1>11
  <2> QED  BY <2>1, <2>2, <2>3, <1>2, <1>9, <1>10
<1>15. CASE /\ UNCHANGED <<list, waiter>>
            /\ \/ value' = value /\ (n = 0 \/ n \in value)
               \/ value' = value \cup {n} /\ n # 0
            /\ \A f \in Events : \A a \in Listed(f) : waiter[a] # n
  <2>1. Watching!TypeOK'  BY <1>2, <1>9, <1>10, <1>11, <1>15 DEF Watching!IInv, Watching!TypeOK
  <2>2. Watching!ListedOnce'  BY <1>15 DEF Watching!IInv, Watching!ListedOnce, Watching!Once
  <2>3. Watching!WaitersAreWatched'
    <3>1. \A f \in Events : Listed(f)' = Listed(f)  BY <1>15 DEF Listed
    <3> QED  BY <3>1, <1>14, <1>15
  <2>4. n # 0 => n \in value'  BY <1>15
  <2>5. Watching!TasksAreOnce'
    <3>1. \A m \in Watching!ToSet(tasks) :
            /\ m <= watches /\ \A a \in Addresses : waiter[a] # m
            /\ m \in stopped' => m \in value'
      BY <2>4, <1>7, <1>11
    <3> QED  BY <3>1, <1>2, <1>3, <1>15 DEF Watching!TasksAreOnce
  <2>6. Watching!NothingIsLost'
    <3>1. \A m \in (1 .. watches) \ (stopped' \cup value') :
             m \in (1 .. watches) \ (stopped \cup value)
      BY <1>11
    <3> QED  BY <3>1, <1>2, <1>15 DEF Watching!IInv, Watching!NothingIsLost
  <2> QED  BY <1>12, <2>1, <2>2, <2>3, <2>5, <2>6 DEF Watching!IInv
<1>16. CASE /\ value' = value /\ n # 0
            /\ \E e \in Events, a \in Addresses :
                 /\ a \in Listed(e) /\ waiter[a] = n /\ waiter' = [waiter EXCEPT ![a] = 0]
                 /\ list' \in [Events -> Seq(Addresses)] /\ Watching!Once(list[e])'
                 /\ Listed(e)' = Listed(e) \ {a}
                 /\ \A f \in Events \ {e} : list'[f] = list[f]
  <2>1. PICK e \in Events, b \in Addresses :
          /\ b \in Listed(e) /\ waiter[b] = n /\ waiter' = [waiter EXCEPT ![b] = 0]
          /\ list' \in [Events -> Seq(Addresses)] /\ Watching!Once(list[e])'
          /\ Listed(e)' = Listed(e) \ {b}
          /\ \A f \in Events \ {e} : list'[f] = list[f]
    BY <1>16
  <2>2. /\ waiter' \in [Addresses -> 0 .. MaxWatches]
        /\ \A a \in Addresses : waiter'[a] = IF a = b THEN 0 ELSE waiter[a]
    <3>1. 0 \in 0 .. MaxWatches  BY WatchingAssumption DEF Watching!WatcherAssumption
    <3> QED  BY <3>1, <2>1 DEF Watching!IInv, Watching!TypeOK
  <2>3. \A f \in Events \ {e} : Listed(f)' = Listed(f) /\ b \notin Listed(f)
    BY <2>1, <1>5 DEF Listed
  <2>4. Watching!TypeOK'  BY <1>2, <1>9, <1>10, <1>11, <2>1, <2>2 DEF Watching!IInv, Watching!TypeOK
  <2>5. Watching!ListedOnce'
    <3>1. \A f \in Events : Watching!Once(list'[f])
      <4> SUFFICES ASSUME NEW f \in Events PROVE Watching!Once(list'[f])  OBVIOUS
      <4>1. CASE f = e  BY <4>1, <2>1 DEF Watching!Once
      <4>2. CASE f # e
        <5>1. list'[f] = list[f]  BY <4>2, <2>1
        <5> QED  BY <5>1, <1>4
      <4> QED  BY <4>1, <4>2
    <3>2. \A f, g \in Events : Listed(f)' \cap Listed(g)' # {} => f = g
      <4>1. \A f \in Events : Listed(f)' \subseteq Listed(f)  BY <2>1, <2>3
      <4> QED  BY <4>1, <1>5
    <3>3. \A a \in Addresses : waiter'[a] # 0 <=> \E f \in Events : a \in Listed(f)'
      <4> SUFFICES ASSUME NEW a \in Addresses
                   PROVE  waiter'[a] # 0 <=> \E f \in Events : a \in Listed(f)'
        OBVIOUS
      <4>1. CASE a = b  BY <4>1, <2>1, <2>2, <2>3
      <4>2. CASE a # b
        <5>1. \A f \in Events : a \in Listed(f)' <=> a \in Listed(f)  BY <4>2, <2>1, <2>3
        <5> QED  BY <4>2, <5>1, <2>2, <1>5
      <4> QED  BY <4>1, <4>2
    <3> QED  BY <3>1, <3>2, <3>3 DEF Watching!ListedOnce, Listed
  <2>6. Watching!WaitersAreWatched'
    <3>1. \A f \in Events : /\ Listed(f)' \subseteq Listed(f)
                           /\ \A a \in Listed(f)' : a # b /\ a \in Addresses
      BY <2>1, <2>3, <1>4
    <3>2. \A a \in Addresses : a # b => waiter'[a] = waiter[a] /\ waiter[a] # n
      BY <2>1, <2>2, <1>4, <1>16
    <3> QED  BY <3>1, <3>2, <1>14
  <2>7. n \notin Watching!ToSet(tasks)  BY <2>1, <1>7
  <2>8. Watching!TasksAreOnce'
    <3>1. \A m \in Watching!ToSet(tasks) : m # 0  BY <1>3
    <3>2. \A m \in Watching!ToSet(tasks) :
            /\ m <= watches /\ \A a \in Addresses : waiter'[a] # m
            /\ m \in stopped' => m \in value'
      BY <3>1, <2>2, <2>7, <1>7, <1>11
    <3> QED  BY <3>2, <1>2, <1>3 DEF Watching!TasksAreOnce
  <2>9. Watching!NothingIsLost'
    <3> SUFFICES ASSUME loop = "up", NEW m \in (1 .. watches) \ (stopped' \cup value')
                 PROVE  m \in Watching!ToSet(tasks) \/ \E a \in Addresses : waiter'[a] = m
      BY <1>2 DEF Watching!NothingIsLost
    <3>1. m \in (1 .. watches) \ (stopped \cup value) /\ m # n  BY <1>11, <1>16
    <3>2. m \in Watching!ToSet(tasks) \/ \E a \in Addresses : waiter[a] = m
      BY <3>1 DEF Watching!IInv, Watching!NothingIsLost
    <3> QED  BY <3>1, <3>2, <2>1, <2>2
  <2> QED  BY <1>12, <2>4, <2>5, <2>6, <2>8, <2>9 DEF Watching!IInv
<1> QED  BY <1>1, <1>15, <1>16
LEMMA StopKeeps ==
  ASSUME Watching!IInv, NEW w \in Watchers, Watching!Stop(w) \/ Watching!Delete(w)
           \/ Watching!WillDestroyCurrentMessageLoop(w)
  PROVE  Watching!IInv' /\ UNCHANGED called
<1>1. /\ Watching!StopWatching(w) /\ loop' = loop
      /\ waiter_' = waiter_ \/ waiter_' = [waiter_ EXCEPT ![w] = NULL]
      /\ kernel_' = kernel_ \/ kernel_' = [kernel_ EXCEPT ![w] = NULL]
  BY DEF Watching!Stop, Watching!Delete, Watching!WillDestroyCurrentMessageLoop
<1>2. /\ waiter_' \in [Watchers -> Addresses \cup {NULL}]
      /\ kernel_' \in [Watchers -> Events \cup {NULL}]
      /\ \A v \in Watchers \ {w} : waiter_'[v] = waiter_[v] /\ kernel_'[v] = kernel_[v]
  BY <1>1 DEF Watching!IInv, Watching!TypeOK
<1>3. Watching!IInv'  BY <1>1, <1>2, StopWatchingKeeps
<1> QED  BY <1>1, <1>3 DEF Watching!StopWatching

(* Every step keeps the invariant, and calls back only whom it may.        *)
LEMMA WatchingKeeps ==
  ASSUME Watching!IInv, [Watching!Next]_(Watching!vars)
  PROVE  /\ Watching!IInv'
         /\ \A n \in Watching!Watches : called'[n] # called[n] => n \notin stopped /\ called[n] = 0
<1>1. CASE UNCHANGED Watching!vars
  <2>1. UNCHANGED <<set, list, exists, waiter, value, cancel_flag_, waiter_, kernel_,
                    message_loop_, tasks, loop, watches, stopped, called>>
    BY <1>1 DEF Watching!vars, Watching!watcherVars
  <2>2. Watching!TypeOK' /\ Watching!ListedOnce' /\ Watching!FlagsAreNew' /\ Watching!TasksAreOnce'
          /\ Watching!NothingIsLost'
    BY <2>1
       DEF Watching!IInv, Watching!TypeOK, Watching!ListedOnce, Watching!FlagsAreNew,
           Watching!TasksAreOnce, Watching!NothingIsLost, Watching!Once
  <2>3. Watching!WaitersAreWatched'  BY <2>1 DEF Watching!IInv, Watching!WaitersAreWatched
  <2> QED  BY <2>1, <2>2, <2>3 DEF Watching!IInv
<1>2. ASSUME NEW e \in Events, Watching!Signal(e) \/ Watching!Reset(e) \/ Watching!DeleteEvent(e)
      PROVE  Watching!IInv' /\ UNCHANGED called
  BY <1>2, WatchedSignalKeeps, WatchedResetKeeps
     DEF Watching!Signal, Watching!Reset, Watching!DeleteEvent
<1>3. ASSUME NEW w \in Watchers, NEW e \in Events, Watching!StartWatching(w, e)
      PROVE  Watching!IInv' /\ UNCHANGED called
  BY <1>3, StartWatchingKeeps DEF Watching!StartWatching
<1>4. ASSUME Watching!CloseLoop \/ Watching!LoopGone PROVE Watching!IInv' /\ UNCHANGED called
  BY <1>4, CloseLoopKeeps DEF Watching!CloseLoop, Watching!LoopGone
<1>5. ASSUME Watching!Next
      PROVE  \/ \E e \in Events : \/ Watching!Signal(e) \/ Watching!Reset(e)
                                \/ Watching!DeleteEvent(e)
             \/ \E w \in Watchers, e \in Events : Watching!StartWatching(w, e)
             \/ \E w \in Watchers : \/ Watching!Stop(w) \/ Watching!Delete(w)
                                  \/ Watching!WillDestroyCurrentMessageLoop(w)
             \/ Watching!RunTask \/ Watching!CloseLoop \/ Watching!LoopGone
  BY <1>5 DEF Watching!Next
<1> QED  BY <1>1, <1>2, <1>3, <1>4, <1>5, StopKeeps, RunTaskKeeps

LEMMA WatchingInit ==
  ASSUME Watching!Init PROVE Watching!IInv
<1>1. /\ Watching!Watches \subseteq Nat /\ 0 \in 0 .. MaxWatches
  BY WatchingAssumption DEF Watching!WatcherAssumption, Watching!Watches
<1>2. /\ tasks = <<>> /\ list = [e \in Events |-> <<>>] /\ value = {} /\ stopped = {}
      /\ watches = 0 /\ set \in [Events -> BOOLEAN] /\ exists = Events
      /\ waiter = [a \in Addresses |-> 0] /\ cancel_flag_ = [w \in Watchers |-> 0]
      /\ waiter_ = [w \in Watchers |-> NULL] /\ kernel_ = [w \in Watchers |-> NULL]
      /\ message_loop_ = [w \in Watchers |-> FALSE] /\ loop = "up"
      /\ called = [n \in Watching!Watches |-> 0]
  BY DEF Watching!Init
<1>3. Watching!TypeOK
  <2>1. list \in [Events -> Seq(Addresses)] /\ tasks \in Seq(Watching!Watches)  BY <1>2
  <2> QED  BY <1>1, <1>2, <2>1 DEF Watching!TypeOK
<1>4. DOMAIN <<>> = {}  OBVIOUS
<1>5. \A e \in Events : Watching!Once(list[e]) /\ Watching!ToSet(list[e]) = {}
  BY <1>2, <1>4 DEF Watching!Once, Watching!ToSet
<1>6. Watching!Once(tasks) /\ Watching!ToSet(tasks) = {}
  BY <1>2, <1>4 DEF Watching!Once, Watching!ToSet
<1>7. Watching!ListedOnce /\ Watching!WaitersAreWatched
  BY <1>2, <1>5 DEF Watching!ListedOnce, Watching!WaitersAreWatched
<1>8. Watching!FlagsAreNew /\ Watching!TasksAreOnce /\ Watching!NothingIsLost
  BY <1>2, <1>6 DEF Watching!FlagsAreNew, Watching!TasksAreOnce, Watching!NothingIsLost
<1> QED  BY <1>3, <1>7, <1>8 DEF Watching!IInv

(* A set that has one member or none, counted. *)
LEMMA AtMostOne ==
  ASSUME NEW S, \A x, y \in S : x = y
  PROVE  Watching!Cardinality(S) = IF S = {} THEN 0 ELSE 1
<1>0. \A T : Watching!Cardinality(T) = Cardinality(T)
  BY Zenon DEF Watching!Cardinality, Cardinality, Watching!IsFiniteSet, IsFiniteSet
<1>1. CASE S = {}  BY <1>0, <1>1, FS_EmptySet
<1>2. CASE S # {}
  <2>1. PICK x \in S : TRUE  BY <1>2
  <2>2. S = {x}  BY <2>1
  <2>3. Cardinality({x}) = 1  BY FS_Singleton
  <2> QED  BY <1>0, <1>2, <2>2, <2>3
<1> QED  BY <1>1, <1>2

LEMMA WatchersPaired ==
  ASSUME Watching!IInv
  PROVE  Watching!EveryWaiterHasItsWatcher /\ Watching!WatchIsPendingOnce
<1>1. /\ \A e \in Events : /\ Listed(e) \in SUBSET Addresses
                           /\ \A a \in Listed(e) : waiter[a] # 0
      /\ \A a \in Addresses : waiter[a] # 0 => waiter[a] \notin value /\ waiter[a] \notin stopped
      /\ \A a, b \in Addresses : waiter[a] # 0 /\ waiter[a] = waiter[b] => a = b
  BY WaitersAre
<1>2. /\ \A e \in Events : Watching!Once(list[e])
      /\ \A e, f \in Events : Listed(e) \cap Listed(f) # {} => e = f
      /\ \A a \in Addresses : waiter[a] # 0 <=> \E e \in Events : a \in Listed(e)
  BY DEF Watching!IInv, Watching!ListedOnce, Listed
<1>3. \A e \in Events : \A i \in DOMAIN list[e] : list[e][i] \in Listed(e)
  BY DEF Listed, Watching!ToSet
<1>4. ASSUME NEW p \in Watching!Places
      PROVE  /\ p[1] \in Events /\ p[2] \in DOMAIN list[p[1]] /\ p = <<p[1], p[2]>>
             /\ list[p[1]][p[2]] \in Listed(p[1]) /\ list[p[1]][p[2]] \in Addresses
  <2>1. PICK e \in Events : p \in {e} \X DOMAIN list[e]  BY DEF Watching!Places
  <2>2. p[1] = e /\ p[2] \in DOMAIN list[e] /\ p = <<p[1], p[2]>>  BY <2>1
  <2> QED  BY <2>2, <1>1, <1>3
<1>5. ASSUME NEW p \in Watching!Places, NEW q \in Watching!Places, list[p[1]][p[2]]
                 = list[q[1]][q[2]]
      PROVE  p = q
  <2>1. p[1] = q[1]  BY <1>2, <1>4, <1>5
  <2>2. p[2] = q[2]  BY <2>1, <1>2, <1>4, <1>5 DEF Watching!Once
  <2> QED  BY <2>1, <2>2, <1>4
<1>6. ASSUME NEW e \in Events, NEW a \in Listed(e)
      PROVE  \E p \in Watching!Places : list[p[1]][p[2]] = a
  <2>1. PICK i \in DOMAIN list[e] : list[e][i] = a  BY <1>6 DEF Listed, Watching!ToSet
  <2>2. <<e, i>> \in Watching!Places  BY DEF Watching!Places
  <2> QED  BY <2>1, <2>2
<1>7. ASSUME NEW a \in Addresses
      PROVE  Watching!Cardinality({p \in Watching!Places : list[p[1]][p[2]] = a}) = IF waiter[a]
                 = 0 THEN 0 ELSE 1
  <2> DEFINE S == {p \in Watching!Places : list[p[1]][p[2]] = a}
  <2>1. \A x, y \in S : x = y  BY <1>5
  <2>2. S = {} <=> waiter[a] = 0
    <3>1. ASSUME waiter[a] # 0 PROVE S # {}
      <4>1. PICK e \in Events : a \in Listed(e)  BY <3>1, <1>2
      <4> QED  BY <4>1, <1>6
    <3>2. ASSUME NEW p \in S PROVE waiter[a] # 0  BY <1>1, <1>4
    <3> QED  BY <3>1, <3>2
  <2> HIDE DEF S
  <2>3. Watching!Cardinality(S) = IF S = {} THEN 0 ELSE 1  BY <2>1, AtMostOne
  <2> QED  BY <2>2, <2>3 DEF S
<1>8. Watching!EveryWaiterHasItsWatcher
  BY <1>7 DEF Watching!EveryWaiterHasItsWatcher, Watching!IInv
<1>9. ASSUME loop = "up", NEW n \in 1 .. watches
      PROVE  /\ Watching!Cardinality(Watching!Waiting(n))
                  + Watching!Cardinality(Watching!Posted(n)) <= 1
             /\ n \notin value
                  => (n \in stopped) # (Watching!Waiting(n) \cup Watching!Posted(n) # {})
  <2>1. n # 0  BY TasksAre
  <2>2. \A x, y \in Watching!Waiting(n) : x = y
    <3> SUFFICES ASSUME NEW x \in Watching!Waiting(n), NEW y \in Watching!Waiting(n) PROVE x = y
      OBVIOUS
    <3>1. /\ x \in Watching!Places /\ waiter[list[x[1]][x[2]]] = n
          /\ y \in Watching!Places /\ waiter[list[y[1]][y[2]]] = n
      BY DEF Watching!Waiting
    <3>2. list[x[1]][x[2]] = list[y[1]][y[2]]  BY <3>1, <2>1, <1>1, <1>4
    <3> QED  BY <3>1, <3>2, <1>5
  <2>3. \A x, y \in Watching!Posted(n) : x = y  BY TasksAre DEF Watching!Posted, Watching!Once
  <2>4. Watching!Waiting(n) # {} <=> \E a \in Addresses : waiter[a] = n
    <3>1. ASSUME NEW p \in Watching!Waiting(n) PROVE \E a \in Addresses : waiter[a] = n
      BY <1>4 DEF Watching!Waiting
    <3>2. ASSUME NEW a \in Addresses, waiter[a] = n PROVE Watching!Waiting(n) # {}
      <4>1. PICK e \in Events : a \in Listed(e)  BY <3>2, <2>1, <1>2
      <4>2. PICK p \in Watching!Places : list[p[1]][p[2]] = a  BY <4>1, <1>6
      <4>3. p \in Watching!Waiting(n)  BY <4>2, <3>2 DEF Watching!Waiting
      <4> QED  BY <4>3
    <3> QED  BY <3>1, <3>2
  <2>5. Watching!Posted(n) # {} <=> n \in Watching!ToSet(tasks)
    BY DEF Watching!Posted, Watching!ToSet
  <2>6. n \in Watching!ToSet(tasks) =>
          (\A a \in Addresses : waiter[a] # n) /\ (n \in stopped => n \in value)
    BY DEF Watching!IInv, Watching!TasksAreOnce
  <2>7. /\ Watching!Cardinality(Watching!Waiting(n)) = IF Watching!Waiting(n) = {} THEN 0 ELSE 1
        /\ Watching!Cardinality(Watching!Posted(n)) = IF Watching!Posted(n) = {} THEN 0 ELSE 1
    BY <2>2, <2>3, AtMostOne
  <2>8. Watching!Cardinality(Watching!Waiting(n)) + Watching!Cardinality(Watching!Posted(n)) <= 1
    BY <2>4, <2>5, <2>6, <2>7
  <2>9. ASSUME n \notin value
        PROVE  n \in stopped <=> ~(Watching!Waiting(n) \cup Watching!Posted(n) # {})
    <3>1. CASE n \in stopped
      <4>1. ~ \E a \in Addresses : waiter[a] = n  BY <3>1, <2>1, <1>1
      <4>2. n \notin Watching!ToSet(tasks)  BY <3>1, <2>6, <2>9
      <4> QED  BY <3>1, <4>1, <4>2, <2>4, <2>5
    <3>2. CASE n \notin stopped
      <4>1. n \in Watching!ToSet(tasks) \/ \E a \in Addresses : waiter[a] = n
        BY <3>2, <1>9, <2>9 DEF Watching!IInv, Watching!NothingIsLost
      <4> QED  BY <3>2, <4>1, <2>4, <2>5
    <3> QED  BY <3>1, <3>2
  <2>10. n \notin value => (n \in stopped) # (Watching!Waiting(n) \cup Watching!Posted(n) # {})
    BY <2>9, Zenon
  <2> QED  BY <2>8, <2>10
<1>10. Watching!WatchIsPendingOnce  BY <1>9, Zenon DEF Watching!WatchIsPendingOnce
<1> QED  BY <1>8, <1>10

(* A behaviour of either subject is one of the events, and one of the      *)
(* watchers.                                                               *)
LEMMA EitherSubject ==
  /\ EachSpec => Spec
  /\ EachSpec => Watching!Spec
<1>1. EachInit => Init /\ Watching!Init  BY DEF EachInit
<1>2. [EachNext]_<<subject, vars, watching>> => [Next]_vars /\ [Watching!Next]_(Watching!vars)
  BY DEF EachNext, watching, Watching!vars, Watching!watcherVars
<1> QED  BY <1>1, <1>2, PTL DEF EachSpec, Spec, Watching!Spec

(* The inductive invariant of the watchers, of their waiters, flags and    *)
(* tasks.                                                                  *)
THEOREM WatchingInvariance == Watching!Spec => []Watching!IInv
<1>1. Watching!IInv /\ [Watching!Next]_(Watching!vars) => Watching!IInv'  BY WatchingKeeps
<1> QED  BY <1>1, WatchingInit, PTL DEF Watching!Spec

(* The types of both, and the locks of the events are held by the threads  *)
(* whose step says so.                                                     *)
THEOREM TypesAreCorrect == EachSpec => []TypesOK
<1>1. Watching!IInv => Watching!TypeOK  BY DEF Watching!IInv
<1>2. IInv => TypeOK /\ LocksMatch  BY DEF IInv
<1>3. TypeOK /\ LocksMatch /\ Watching!TypeOK => TypesOK  BY DEF TypesOK
<1> QED  BY <1>1, <1>2, <1>3, EitherSubject, Invariance, WatchingInvariance, PTL

(* Every AsyncWaiter has the one watcher that can still stop it, and a     *)
(* watch is neither lost nor doubled between StartWatching, Signal and     *)
(* its callback.                                                           *)
THEOREM WatchersStayPaired == EachSpec => []WatchersArePaired
<1>1. Watching!IInv => WatchersArePaired  BY WatchersPaired DEF WatchersArePaired
<1> QED  BY <1>1, EitherSubject, WatchingInvariance, PTL

(* The callback of a watch runs once at most, and never after              *)
(* StopWatching has returned for it.                                       *)
THEOREM StoppedWatchesAreSilent == EachSpec => StoppedIsSilent
<1>1. Watching!IInv /\ [Watching!Next]_(Watching!vars) =>
        [\A n \in Watching!Watches :
           called'[n] # called[n] => n \notin stopped /\ called[n] = 0]_(Watching!vars)
  BY WatchingKeeps
<1> QED
  BY <1>1, EitherSubject, WatchingInvariance, PTL
     DEF Watching!Spec, StoppedIsSilent, Watching!StoppedIsSilent
=============================================================================

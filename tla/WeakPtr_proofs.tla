--------------------------- MODULE WeakPtr_proofs ---------------------------
(* Proofs about WeakPtr, for any threads, pointers and flags, and about    *)
(* the lists of observers and of callbacks, for any of these, vectors of   *)
(* any size and loops nested to any depth.                                 *)
EXTENDS MCCallbacks, Filters, SequenceTheorems, FiniteSetTheorems, TLAPS

(* The references to a flag can be counted. *)
LEMMA ReferencesFinite ==
  ASSUME NEW f
  PROVE  IsFiniteSet(References(f)) /\ Cardinality(References(f)) \in Nat
<1>1. IsFiniteSet(Handles \cup {Owner})  BY WeakPtrAssumption, FS_AddElement
<1>2. IsFiniteSet(Pointers)  BY <1>1, WeakPtrAssumption, FS_Union DEF Pointers
<1>3. References(f) \in SUBSET Pointers  BY DEF References
<1> QED  BY <1>2, <1>3, FS_Subset, FS_CardinalityType

(* Assigning a scoped_refptr keeps the count of every flag right: that of  *)
(* the new value includes it at once, that of the old one until Release.   *)
LEMMA StoreCounts ==
  ASSUME TypeOK, NEW t \in Threads, NEW x \in Handles \cup {Owner},
         NEW f \in Flags \cup {NULL}, Store(t, x, f), ptr_[t] = NULL,
         \A g \in Flags : ref_count_[g] = Cardinality(References(g))
  PROVE  /\ ref_count_' \in [Flags -> Nat]
         /\ \A g \in Flags : ref_count_'[g] = Cardinality(References(g)')
<1> DEFINE old == ptr_[x]
<1>1. /\ x \in Pointers /\ t \in Pointers /\ x # t
      /\ ptr_ \in [Pointers -> Flags \cup {NULL}] /\ ref_count_ \in [Flags -> Nat]
  BY WeakPtrAssumption DEF TypeOK, Pointers
<1>2. \A y \in Pointers : ptr_'[y] = IF y = t THEN old ELSE IF y = x THEN f ELSE ptr_[y]
  BY <1>1 DEF Store
<1>3. /\ ref_count_' \in [Flags -> Nat]
      /\ \A g \in Flags : ref_count_'[g] = IF g = f THEN ref_count_[g] + 1 ELSE ref_count_[g]
  BY <1>1, WeakPtrAssumption DEF Store
<1>4. ASSUME NEW g \in Flags PROVE ref_count_'[g] = Cardinality(References(g)')
  <2> DEFINE R == References(g)
  <2>1. IsFiniteSet(R) /\ Cardinality(R) \in Nat /\ ref_count_[g] = Cardinality(R)
    BY ReferencesFinite
  <2>2. t \notin R /\ (x \in R <=> old = g)
    BY <1>1, WeakPtrAssumption DEF References
  <2>3. CASE g # f /\ g # old
    <3>1. References(g)' = R  BY <1>1, <1>2, <2>3, <2>2 DEF References
    <3> QED  BY <3>1, <2>1, <1>3, <2>3
  <2>4. CASE g # f /\ g = old
    <3>1. References(g)' = (R \ {x}) \cup {t}  BY <1>1, <1>2, <2>4 DEF References
    <3>2. IsFiniteSet(R \ {x}) /\ Cardinality(R \ {x}) = Cardinality(R) - 1
      BY <2>1, <2>2, <2>4, FS_RemoveElement
    <3>3. Cardinality((R \ {x}) \cup {t}) = Cardinality(R \ {x}) + 1
      BY <2>2, <3>2, FS_AddElement
    <3> QED  BY <3>1, <3>2, <3>3, <2>1, <1>3, <2>4
  <2>5. CASE g = f /\ g # old
    <3>1. References(g)' = R \cup {x}
      BY <1>1, <1>2, <2>5, <2>2 DEF References
    <3>2. Cardinality(R \cup {x}) = Cardinality(R) + 1  BY <2>1, <2>2, <2>5, FS_AddElement
    <3> QED  BY <3>1, <3>2, <2>1, <1>3, <2>5
  <2>6. CASE g = f /\ g = old
    <3>1. References(g)' = R \cup {t}  BY <1>1, <1>2, <2>6 DEF References
    <3>2. Cardinality(R \cup {t}) = Cardinality(R) + 1  BY <2>1, <2>2, FS_AddElement
    <3> QED  BY <3>1, <3>2, <2>1, <1>3, <2>6
  <2> QED  BY <2>3, <2>4, <2>5, <2>6
<1> QED  BY <1>3, <1>4

(* What an assignment to a scoped_refptr by a thread that is not releasing *)
(* anything keeps of the invariant; the value stored is a flag that has a  *)
(* reference already, or is new.                                           *)
LEMMA StoreKeeps ==
  ASSUME TypeOK, CountsAreReferences, StepsMatch,
         NEW t \in Threads, pc[t] = "idle",
         NEW x \in Handles \cup {Owner}, NEW f \in Flags \cup {NULL}, Store(t, x, f),
         doomed' = doomed, live' \subseteq Flags,
         \/ live' = live /\ (f # NULL => References(f) # {})
         \/ f \in Flags \ live /\ live' = live \cup {f}
  PROVE  /\ ptr_' \in [Pointers -> Flags \cup {NULL}] /\ ref_count_' \in [Flags -> Nat]
         /\ pc' \in [Threads -> {"idle", "release", "delete"}]
         /\ CountsAreReferences' /\ StepsMatch'
         /\ \A y \in Handles \cup {Owner} : ptr_'[y] = IF y = x THEN f ELSE ptr_[y]
<1>1. ptr_[t] = NULL /\ doomed[t] = NULL
  BY DEF StepsMatch, TypeOK
<1>2. /\ x \in Pointers /\ t \in Pointers /\ x # t /\ t \notin Handles \cup {Owner}
      /\ ptr_ \in [Pointers -> Flags \cup {NULL}]
  BY WeakPtrAssumption DEF TypeOK, Pointers
<1>3. /\ ptr_' \in [Pointers -> Flags \cup {NULL}]
      /\ \A y \in Pointers : ptr_'[y] = IF y = t THEN ptr_[x] ELSE IF y = x THEN f ELSE ptr_[y]
  BY <1>2 DEF Store
<1>4. /\ pc' \in [Threads -> {"idle", "release", "delete"}]
      /\ \A u \in Threads : pc'[u] = IF u = t
                                     THEN (IF ptr_[x] = NULL THEN "idle" ELSE "release")
                                     ELSE pc[u]
  BY DEF Store, TypeOK
<1>5. /\ ref_count_' \in [Flags -> Nat]
      /\ \A g \in Flags : ref_count_'[g] = Cardinality(References(g)')
  BY <1>1, StoreCounts DEF CountsAreReferences
<1>6. \A g \in Flags : References(g)' = {} <=> References(g) = {} /\ g # f
  <2> SUFFICES ASSUME NEW g \in Flags
               PROVE  References(g)' = {} <=> References(g) = {} /\ g # f
    OBVIOUS
  <2>1. CASE g = f  BY <2>1, <1>2, <1>3 DEF References
  <2>2. CASE g # f /\ ptr_[x] = g  BY <2>2, <1>2, <1>3 DEF References
  <2>3. CASE g # f /\ ptr_[x] # g
    <3>1. References(g)' = References(g)
      BY <2>3, <1>1, <1>2, <1>3, WeakPtrAssumption DEF References
    <3> QED  BY <2>3, <3>1
  <2> QED  BY <2>1, <2>2, <2>3
<1>7. CountsAreReferences'
  <2>1. \A g \in Flags : ref_count_'[g] = Cardinality(References(g)')  BY <1>5
  <2>2. ASSUME NEW g \in Flags, g \notin live'
        PROVE  References(g)' = {} /\ \A u \in Threads : doomed'[u] # g
    <3>1. g \notin live /\ References(g) = {} /\ \A u \in Threads : doomed[u] # g
      BY <2>2 DEF CountsAreReferences
    <3>2. g # f  BY <2>2, <3>1, WeakPtrAssumption
    <3> QED  BY <1>6, <3>1, <3>2
  <2>3. ASSUME NEW g \in Flags, NEW u \in Threads, doomed'[u] = g
        PROVE  References(g)' = {} /\ \A v \in Threads : doomed'[v] = g => v = u
    <3>1. g \in live /\ References(g) = {} /\ \A v \in Threads : doomed[v] = g => v = u
      BY <2>3 DEF CountsAreReferences
    <3>2. g # f  BY <3>1, WeakPtrAssumption
    <3> QED  BY <1>6, <3>1, <3>2
  <2>4. ASSUME NEW g \in Flags, g \in live', References(g)' = {}
        PROVE  \E u \in Threads : doomed'[u] = g
    <3>1. g # f /\ References(g) = {}  BY <1>6, <2>4
    <3> QED  BY <2>4, <3>1 DEF CountsAreReferences
  <2> QED  BY <2>1, <2>2, <2>3, <2>4 DEF CountsAreReferences
<1>8. StepsMatch'
  BY <1>1, <1>2, <1>3, <1>4, WeakPtrAssumption DEF StepsMatch, Pointers
<1>9. \A y \in Handles \cup {Owner} : ptr_'[y] = IF y = x THEN f ELSE ptr_[y]
  BY <1>2, <1>3, WeakPtrAssumption DEF Pointers
<1> QED  BY <1>3, <1>4, <1>5, <1>7, <1>8, <1>9
-----------------------------------------------------------------------------
LEMMA InitSatisfies ==
  ASSUME Init PROVE IInv
<1>1. TypeOK  BY WeakPtrAssumption DEF Init, TypeOK, Pointers
<1>2. ASSUME NEW f \in Flags PROVE ref_count_[f] = Cardinality(References(f)) /\ References(f) = {}
  <2>1. References(f) = {}  BY WeakPtrAssumption DEF Init, References
  <2> QED  BY <2>1, FS_EmptySet DEF Init
<1>3. CountsAreReferences  BY <1>2, WeakPtrAssumption DEF Init, CountsAreReferences
<1>4. StepsMatch  BY WeakPtrAssumption DEF Init, StepsMatch, Pointers
<1>5. OwnerFlagIsValid /\ FreshOnesShare
  BY DEF Init, OwnerFlagIsValid, FreshOnesShare, flag_, Pointers
<1> QED  BY <1>1, <1>3, <1>4, <1>5 DEF IInv

(* Release lowers the count with the reference, and leaves the flag to the *)
(* thread that dropped the last one.                                       *)
LEMMA ReleaseKeeps ==
  ASSUME IInv, NEW t \in Threads, Release(t) PROVE IInv'
<1>0. PICK f \in Flags : f = ptr_[t]
  BY DEF IInv, TypeOK, StepsMatch, Release, Pointers
<1> DEFINE R == References(f)
<1>1. /\ t \in Pointers /\ f \in Flags /\ ptr_[t] = f /\ doomed[t] = NULL
      /\ t \notin Handles \cup {Owner}
      /\ ptr_ \in [Pointers -> Flags \cup {NULL}] /\ ref_count_ \in [Flags -> Nat]
  BY <1>0, WeakPtrAssumption DEF IInv, TypeOK, StepsMatch, Release, Pointers
<1>2. /\ t \in R /\ IsFiniteSet(R) /\ Cardinality(R) \in Nat /\ ref_count_[f] = Cardinality(R)
      /\ f \in live /\ \A u \in Threads : doomed[u] # f
  <2>1. t \in R  BY <1>1 DEF References
  <2>2. IsFiniteSet(R) /\ Cardinality(R) \in Nat  BY ReferencesFinite
  <2>3. ref_count_[f] = Cardinality(R)  BY <1>1 DEF IInv, CountsAreReferences
  <2>4. R # {}  BY <2>1
  <2> HIDE DEF R
  <2>5. f \in live /\ \A u \in Threads : doomed[u] # f
    BY <1>1, <2>4 DEF IInv, CountsAreReferences, R
  <2> QED  BY <2>1, <2>2, <2>3, <2>5
<1>3. IsFiniteSet(R \ {t}) /\ Cardinality(R \ {t}) = Cardinality(R) - 1
  BY <1>2, FS_RemoveElement
<1>4. /\ ptr_' \in [Pointers -> Flags \cup {NULL}]
      /\ \A y \in Pointers : ptr_'[y] = IF y = t THEN NULL ELSE ptr_[y]
  BY <1>1 DEF Release
<1>5. References(f)' = R \ {t}
  BY <1>1, <1>4, WeakPtrAssumption DEF References
<1>6. \A g \in Flags \ {f} : References(g)' = References(g)
  BY <1>1, <1>4, WeakPtrAssumption DEF References
<1>7. Cardinality(R) # 0  BY <1>2, FS_EmptySet
<1>8. /\ ref_count_' \in [Flags -> Nat]
      /\ \A g \in Flags : ref_count_'[g] = Cardinality(References(g)')
  <2>1. \A g \in Flags : ref_count_'[g] = IF g = f THEN ref_count_[g] - 1 ELSE ref_count_[g]
    BY <1>1 DEF Release
  <2>2. ref_count_[f] - 1 \in Nat  BY <1>2, <1>7
  <2>3. ref_count_' \in [Flags -> Nat]  BY <1>1, <2>2 DEF Release
  <2> QED  BY <2>1, <2>3, <1>2, <1>3, <1>5, <1>6, ZenonT(60) DEF IInv, CountsAreReferences
<1>9. ref_count_[f] = 1 <=> References(f)' = {}
  BY <1>2, <1>3, <1>5, FS_EmptySet
<1>10. /\ doomed' \in [Threads -> Flags \cup {NULL}]
       /\ \A u \in Threads : doomed'[u] = IF u = t /\ ref_count_[f] = 1 THEN f ELSE doomed[u]
       /\ pc' \in [Threads -> {"idle", "release", "delete"}]
       /\ \A u \in Threads : pc'[u] = IF u = t
                                      THEN (IF ref_count_[f] = 1 THEN "delete" ELSE "idle")
                                      ELSE pc[u]
  BY <1>1 DEF Release, IInv, TypeOK
<1>11. CountsAreReferences'
  <2>1. ASSUME NEW g \in Flags, g \notin live'
        PROVE  References(g)' = {} /\ \A u \in Threads : doomed'[u] # g
    <3>1. g \notin live /\ g # f  BY <1>2, <2>1 DEF Release
    <3> QED  BY <3>1, <1>6, <1>10 DEF IInv, CountsAreReferences
  <2>2. ASSUME NEW g \in Flags, NEW u \in Threads, doomed'[u] = g
        PROVE  References(g)' = {} /\ \A v \in Threads : doomed'[v] = g => v = u
    <3>1. CASE g = f  BY <2>2, <3>1, <1>2, <1>9, <1>10
    <3>2. CASE g # f
      <4>1. doomed[u] = g  BY <2>2, <3>2, <1>10
      <4> QED  BY <4>1, <3>2, <1>6, <1>10 DEF IInv, CountsAreReferences
    <3> QED  BY <3>1, <3>2
  <2>3. ASSUME NEW g \in Flags, g \in live', References(g)' = {}
        PROVE  \E u \in Threads : doomed'[u] = g
    <3>1. CASE g = f  BY <2>3, <3>1, <1>9, <1>10
    <3>2. CASE g # f
      <4>1. g \in live /\ References(g) = {}  BY <2>3, <3>2, <1>6 DEF Release
      <4>2. PICK u \in Threads : doomed[u] = g  BY <4>1 DEF IInv, CountsAreReferences
      <4>3. u # t  BY <4>2, <1>1, WeakPtrAssumption
      <4> QED  BY <4>2, <4>3, <1>10
    <3> QED  BY <3>1, <3>2
  <2> QED  BY <1>8, <2>1, <2>2, <2>3 DEF CountsAreReferences
<1>12. TypeOK'  BY <1>4, <1>8, <1>10 DEF Release, IInv, TypeOK
<1>13. StepsMatch'
  BY <1>1, <1>4, <1>10, WeakPtrAssumption DEF IInv, StepsMatch, Pointers
<1>14. \A y \in Handles \cup {Owner} : ptr_'[y] = ptr_[y]  BY <1>1, <1>4 DEF Pointers
<1>15. OwnerFlagIsValid' /\ FreshOnesShare'
  BY <1>14 DEF Release, IInv, OwnerFlagIsValid, FreshOnesShare, flag_
<1> QED  BY <1>11, <1>12, <1>13, <1>15 DEF IInv

LEMMA DeleteKeeps ==
  ASSUME IInv, NEW t \in Threads, Delete(t) PROVE IInv'
<1> DEFINE f == doomed[t]
<1>1. f \in Flags /\ ptr_[t] = NULL
  BY DEF IInv, TypeOK, StepsMatch, Delete
<1>2. /\ doomed' \in [Threads -> Flags \cup {NULL}]
      /\ \A u \in Threads : doomed'[u] = IF u = t THEN NULL ELSE doomed[u]
      /\ pc' \in [Threads -> {"idle", "release", "delete"}]
      /\ \A u \in Threads : pc'[u] = IF u = t THEN "idle" ELSE pc[u]
  BY DEF Delete, IInv, TypeOK
<1>3. \A g : References(g)' = References(g)  BY DEF Delete, References
<1>4. CountsAreReferences'
  <2>1. References(f) = {} /\ \A u \in Threads : doomed[u] = f => u = t
    BY <1>1 DEF IInv, CountsAreReferences
  <2>2. ASSUME NEW g \in Flags, g \notin live'
        PROVE  References(g)' = {} /\ \A u \in Threads : doomed'[u] # g
    <3>1. CASE g = f  BY <3>1, <2>1, <1>1, <1>2, <1>3, WeakPtrAssumption
    <3>2. CASE g # f
      <4>1. g \notin live  BY <2>2, <3>2 DEF Delete
      <4> QED  BY <4>1, <1>2, <1>3, WeakPtrAssumption DEF IInv, CountsAreReferences
    <3> QED  BY <3>1, <3>2
  <2>3. ASSUME NEW g \in Flags, NEW u \in Threads, doomed'[u] = g
        PROVE  References(g)' = {} /\ \A v \in Threads : doomed'[v] = g => v = u
    <3>1. u # t /\ doomed[u] = g  BY <2>3, <1>2, WeakPtrAssumption
    <3> QED  BY <3>1, <1>2, <1>3, WeakPtrAssumption DEF IInv, CountsAreReferences
  <2>4. ASSUME NEW g \in Flags, g \in live', References(g)' = {}
        PROVE  \E u \in Threads : doomed'[u] = g
    <3>1. g # f /\ g \in live /\ References(g) = {}  BY <2>4, <1>3 DEF Delete
    <3>2. PICK u \in Threads : doomed[u] = g  BY <3>1 DEF IInv, CountsAreReferences
    <3> QED  BY <3>1, <3>2, <1>2
  <2>5. \A g \in Flags : ref_count_'[g] = Cardinality(References(g)')
    BY <1>3 DEF Delete, IInv, CountsAreReferences
  <2> QED  BY <2>2, <2>3, <2>4, <2>5 DEF CountsAreReferences
<1>5. TypeOK'  BY <1>2 DEF Delete, IInv, TypeOK
<1>6. StepsMatch'  BY <1>1, <1>2 DEF Delete, IInv, StepsMatch
<1>7. OwnerFlagIsValid' /\ FreshOnesShare'
  BY DEF Delete, IInv, OwnerFlagIsValid, FreshOnesShare, flag_
<1> QED  BY <1>4, <1>5, <1>6, <1>7 DEF IInv

(* HasOneRef: the count tells that no pointer shares the owner's flag.     *)
LEMMA NobodyShares ==
  ASSUME IInv, ~HasRefs
  PROVE  \A h \in Handles : ptr_[h] # NULL => ptr_[h] # flag_
<1> SUFFICES ASSUME NEW h \in Handles, ptr_[h] # NULL, ptr_[h] = flag_
             PROVE  FALSE
  OBVIOUS
<1> DEFINE R == References(ptr_[h])
<1>1. h \in R /\ Owner \in R /\ h # Owner /\ ptr_[h] \in Flags
  BY WeakPtrAssumption DEF References, Pointers, flag_, IInv, TypeOK
<1>2. IsFiniteSet(R) /\ Cardinality(R) = 1
  BY <1>1, ReferencesFinite DEF HasRefs, HasOneRef, IInv, CountsAreReferences
<1> HIDE DEF R
<1>3. \E x : R = {x}  BY <1>2, FS_Singleton
<1> QED  BY <1>1, <1>3

(* A flag that replaces the owner's was shared by no pointer. *)
LEMMA NewFlagKeeps ==
  ASSUME IInv, Ready(Home), ~HasRefs, NewFlag, UNCHANGED <<alive, holder, doomed, fresh>>
  PROVE  IInv'
<1>1. PICK f \in Flags \ live : /\ live' = live \cup {f}
                                /\ is_valid_' = [is_valid_ EXCEPT ![f] = TRUE]
                                /\ Store(Home, Owner, f)
  BY DEF NewFlag
<1>2. Home \in Threads /\ pc[Home] = "idle" /\ Owner \notin Handles
  BY WeakPtrAssumption DEF Ready
<1>3. live' \subseteq Flags  BY <1>1 DEF IInv, TypeOK
<1>4. /\ ptr_' \in [Pointers -> Flags \cup {NULL}] /\ ref_count_' \in [Flags -> Nat]
      /\ pc' \in [Threads -> {"idle", "release", "delete"}]
      /\ CountsAreReferences' /\ StepsMatch'
      /\ \A y \in Handles \cup {Owner} : ptr_'[y] = IF y = Owner THEN f ELSE ptr_[y]
  BY <1>1, <1>2, <1>3, StoreKeeps DEF IInv
<1>5. is_valid_' \in [Flags -> BOOLEAN]
      /\ \A g \in Flags : is_valid_'[g] = (g = f \/ is_valid_[g])
  BY <1>1 DEF IInv, TypeOK
<1>6. TypeOK'  BY <1>3, <1>4, <1>5 DEF IInv, TypeOK, NewFlag
<1>7. \A h \in Handles : ptr_[h] # f
  <2>1. References(f) = {}  BY <1>1 DEF IInv, CountsAreReferences
  <2> QED  BY <2>1 DEF References, Pointers
<1>8. OwnerFlagIsValid'
  BY <1>4, <1>5, WeakPtrAssumption DEF OwnerFlagIsValid, flag_
<1>9. \A h \in Handles : ptr_'[h] = ptr_[h] /\ ptr_[h] \in Flags \cup {NULL}
  BY <1>2, <1>4 DEF IInv, TypeOK, Pointers
<1>10. FreshOnesShare'
  <2> SUFFICES ASSUME NEW h \in Handles
               PROVE  /\ fresh'[h] <=> ptr_'[h] # NULL /\ ptr_'[h] = flag_'
                      /\ ptr_'[h] # NULL => (is_valid_'[ptr_'[h]] <=> ptr_'[h] = flag_')
    BY DEF FreshOnesShare
  <2>1. flag_' = f  BY <1>4 DEF flag_
  <2>2. ~fresh[h] /\ (ptr_[h] # NULL => ~is_valid_[ptr_[h]])
    BY NobodyShares DEF IInv, FreshOnesShare
  <2> QED  BY <2>1, <2>2, <1>5, <1>7, <1>9
<1> QED  BY <1>4, <1>6, <1>8, <1>10 DEF IInv

LEMMA GetRefKeeps ==
  ASSUME IInv, GetRef PROVE IInv'
<1>1. CASE HasRefs
  <2>1. UNCHANGED <<ptr_, ref_count_, is_valid_, live, alive, holder, pc, doomed, fresh>>
        /\ getting' = TRUE /\ flag_ # NULL
    BY <1>1 DEF GetRef, HasRefs
  <2>2. TypeOK' /\ StepsMatch'  BY <2>1 DEF IInv, TypeOK, StepsMatch
  <2>3. \A f : References(f)' = References(f)  BY <2>1 DEF References
  <2>4. CountsAreReferences'  BY <2>1, <2>3 DEF IInv, CountsAreReferences
  <2>5. OwnerFlagIsValid' /\ FreshOnesShare'
    BY <2>1 DEF IInv, OwnerFlagIsValid, FreshOnesShare, flag_
  <2> QED  BY <2>2, <2>4, <2>5 DEF IInv
<1>2. CASE ~HasRefs  BY <1>2, NewFlagKeeps DEF GetRef, NewFlag
<1> QED  BY <1>1, <1>2

(* A live pointer, or the owner's flag, has a reference: its own. *)
LEMMA ReferencedIsShared ==
  ASSUME NEW x \in Pointers, ptr_[x] # NULL PROVE References(ptr_[x]) # {}
BY DEF References

LEMMA WeakReferenceKeeps ==
  ASSUME IInv, NEW h \in Handles, WeakReference(h) PROVE IInv'
<1>1. /\ Home \in Threads /\ pc[Home] = "idle" /\ flag_ \in Flags /\ flag_ # NULL
      /\ Store(Home, h, flag_) /\ h # Owner /\ is_valid_[flag_]
  BY WeakPtrAssumption
  DEF WeakReference, IInv, OwnerFlagIsValid, flag_, TypeOK, Pointers
<1>2. References(flag_) # {}  BY <1>1, ReferencedIsShared DEF flag_, Pointers
<1>3. /\ ptr_' \in [Pointers -> Flags \cup {NULL}] /\ ref_count_' \in [Flags -> Nat]
      /\ pc' \in [Threads -> {"idle", "release", "delete"}]
      /\ CountsAreReferences' /\ StepsMatch'
      /\ \A y \in Handles \cup {Owner} : ptr_'[y] = IF y = h THEN flag_ ELSE ptr_[y]
  BY <1>1, <1>2, StoreKeeps DEF IInv, TypeOK, WeakReference
<1>4. flag_' = flag_  BY <1>1, <1>3 DEF flag_
<1>5. TypeOK'  BY <1>3 DEF WeakReference, IInv, TypeOK
<1>6. OwnerFlagIsValid'  BY <1>1, <1>4 DEF WeakReference, OwnerFlagIsValid
<1>7. FreshOnesShare'
  <2> SUFFICES ASSUME NEW g \in Handles
               PROVE  /\ fresh'[g] <=> ptr_'[g] # NULL /\ ptr_'[g] = flag_'
                      /\ ptr_'[g] # NULL => (is_valid_'[ptr_'[g]] <=> ptr_'[g] = flag_')
    BY DEF FreshOnesShare
  <2>1. CASE g = h  BY <2>1, <1>1, <1>3, <1>4 DEF WeakReference, IInv, TypeOK
  <2>2. CASE g # h  BY <2>2, <1>3, <1>4 DEF WeakReference, IInv, TypeOK, FreshOnesShare
  <2> QED  BY <2>1, <2>2
<1> QED  BY <1>3, <1>5, <1>6, <1>7 DEF IInv

(* Invalidating leaves no fresh pointer, and none whose flag is valid.     *)
LEMMA InvalidateKeeps ==
  ASSUME IInv, NEW lives \in BOOLEAN, Invalidate(lives) PROVE IInv'
<1>1. \A h \in Handles : ~fresh'[h]  BY DEF Invalidate
<1>2. CASE flag_ = NULL
  <2>1. UNCHANGED <<is_valid_, ptr_, ref_count_, pc, live, holder, doomed, getting>>
        /\ flag_' = flag_
    BY <1>2 DEF Invalidate, flag_
  <2>2. TypeOK' /\ StepsMatch' /\ OwnerFlagIsValid'
    BY <2>1 DEF IInv, TypeOK, StepsMatch, OwnerFlagIsValid, Invalidate
  <2>3. \A f : References(f)' = References(f)  BY <2>1 DEF References
  <2>4. CountsAreReferences'  BY <2>1, <2>3 DEF IInv, CountsAreReferences
  <2>5. FreshOnesShare'  BY <1>1, <1>2, <2>1 DEF IInv, FreshOnesShare
  <2> QED  BY <2>2, <2>4, <2>5 DEF IInv
<1>3. CASE flag_ # NULL
  <2>1. /\ Home \in Threads /\ pc[Home] = "idle" /\ ~getting /\ flag_ \in Flags
        /\ Store(Home, Owner, NULL) /\ Owner \notin Handles
    BY <1>3, WeakPtrAssumption DEF Invalidate, Ready, IInv, TypeOK, Pointers, flag_
  <2>2. /\ ptr_' \in [Pointers -> Flags \cup {NULL}] /\ ref_count_' \in [Flags -> Nat]
        /\ pc' \in [Threads -> {"idle", "release", "delete"}]
        /\ CountsAreReferences' /\ StepsMatch'
        /\ \A y \in Handles \cup {Owner} : ptr_'[y] = IF y = Owner THEN NULL ELSE ptr_[y]
    BY <2>1, StoreKeeps DEF Invalidate, IInv, TypeOK
  <2>3. /\ is_valid_' \in [Flags -> BOOLEAN]
        /\ \A g \in Flags : is_valid_'[g] = (g # flag_ /\ is_valid_[g])
    BY <1>3, <2>1 DEF Invalidate, IInv, TypeOK
  <2>4. TypeOK'  BY <2>2, <2>3 DEF Invalidate, IInv, TypeOK
  <2>5. OwnerFlagIsValid'  BY <2>1, <2>2 DEF Invalidate, OwnerFlagIsValid, flag_
  <2>6. FreshOnesShare'
    <3> SUFFICES ASSUME NEW h \in Handles
                 PROVE  /\ fresh'[h] <=> ptr_'[h] # NULL /\ ptr_'[h] = flag_'
                        /\ ptr_'[h] # NULL => (is_valid_'[ptr_'[h]] <=> ptr_'[h] = flag_')
      BY DEF FreshOnesShare
    <3>1. flag_' = NULL /\ ptr_'[h] = ptr_[h] /\ ptr_[h] \in Flags \cup {NULL}
      BY <2>1, <2>2 DEF flag_, IInv, TypeOK, Pointers
    <3>2. ptr_[h] # NULL => ~is_valid_'[ptr_[h]]
      BY <2>3, <3>1 DEF IInv, FreshOnesShare
    <3> QED  BY <1>1, <3>1, <3>2
  <2> QED  BY <2>2, <2>4, <2>5, <2>6 DEF IInv
<1> QED  BY <1>2, <1>3

(* A WeakPtr takes the value, and the freshness, of another one or of none.*)
LEMMA HandleKeeps ==
  ASSUME IInv, NEW t \in Threads, Ready(t), NEW h \in Handles,
         NEW f \in Flags \cup {NULL}, Store(t, h, f),
         \/ f = NULL /\ fresh' = [fresh EXCEPT ![h] = FALSE]
         \/ \E g \in Handles : f = ptr_[g] /\ fresh' = [fresh EXCEPT ![h] = fresh[g]],
         UNCHANGED <<is_valid_, live, alive, holder, doomed, getting>>
  PROVE  IInv'
<1>1. pc[t] = "idle" /\ h # Owner  BY WeakPtrAssumption DEF Ready
<1>2. f # NULL => References(f) # {}  BY ReferencedIsShared DEF Pointers
<1>3. /\ ptr_' \in [Pointers -> Flags \cup {NULL}] /\ ref_count_' \in [Flags -> Nat]
      /\ pc' \in [Threads -> {"idle", "release", "delete"}]
      /\ CountsAreReferences' /\ StepsMatch'
      /\ \A y \in Handles \cup {Owner} : ptr_'[y] = IF y = h THEN f ELSE ptr_[y]
  BY <1>1, <1>2, StoreKeeps DEF IInv, TypeOK
<1>4. flag_' = flag_  BY <1>1, <1>3 DEF flag_
<1>5. fresh' \in [Handles -> BOOLEAN]  BY DEF IInv, TypeOK
<1>6. TypeOK'  BY <1>3, <1>5 DEF IInv, TypeOK
<1>7. OwnerFlagIsValid'  BY <1>4 DEF IInv, OwnerFlagIsValid
<1>8. FreshOnesShare'
  <2> SUFFICES ASSUME NEW k \in Handles
               PROVE  /\ fresh'[k] <=> ptr_'[k] # NULL /\ ptr_'[k] = flag_'
                      /\ ptr_'[k] # NULL => (is_valid_'[ptr_'[k]] <=> ptr_'[k] = flag_')
    BY DEF FreshOnesShare
  <2>1. CASE k # h  BY <2>1, <1>3, <1>4 DEF IInv, TypeOK, FreshOnesShare
  <2>2. CASE k = h /\ f = NULL
    <3>1. ~fresh'[k]  BY <2>2 DEF IInv, TypeOK, FreshOnesShare
    <3> QED  BY <2>2, <3>1, <1>3
  <2>3. CASE k = h /\ f # NULL
    <3>1. PICK g \in Handles : f = ptr_[g] /\ fresh' = [fresh EXCEPT ![h] = fresh[g]]
      BY <2>3
    <3>2. fresh'[k] = fresh[g]  BY <2>3, <3>1 DEF IInv, TypeOK
    <3> QED  BY <2>3, <3>1, <3>2, <1>3, <1>4 DEF IInv, FreshOnesShare
  <2> QED  BY <2>1, <2>2, <2>3
<1> QED  BY <1>3, <1>6, <1>7, <1>8 DEF IInv

LEMMA AssignKeeps ==
  ASSUME IInv, NEW t \in Threads, NEW h \in Handles, NEW g \in Handles, Assign(t, h, g)
  PROVE  IInv'
<1>1. ptr_[g] \in Flags \cup {NULL}  BY DEF IInv, TypeOK, Pointers
<1>2. fresh' = [fresh EXCEPT ![h] = fresh[g]]  BY DEF Assign
<1> QED  BY <1>1, <1>2, HandleKeeps DEF Assign

LEMMA ResetKeeps ==
  ASSUME IInv, NEW t \in Threads, NEW h \in Handles, Reset(t, h)
  PROVE  IInv'
BY HandleKeeps DEF Reset

LEMMA PassKeeps ==
  ASSUME IInv, NEW t \in Threads, NEW h \in Handles, NEW u \in Threads, Pass(t, h, u)
  PROVE  IInv'
<1>1. TypeOK' /\ StepsMatch'  BY DEF Pass, IInv, TypeOK, StepsMatch
<1>2. \A f : References(f)' = References(f)  BY DEF Pass, References
<1>3. CountsAreReferences'  BY <1>2 DEF Pass, IInv, CountsAreReferences
<1>4. OwnerFlagIsValid' /\ FreshOnesShare'
  BY DEF Pass, IInv, OwnerFlagIsValid, FreshOnesShare, flag_
<1> QED  BY <1>1, <1>3, <1>4 DEF IInv

LEMMA StutterKeeps ==
  ASSUME IInv, UNCHANGED vars PROVE IInv'
<1>1. TypeOK' /\ StepsMatch'  BY DEF vars, IInv, TypeOK, StepsMatch
<1>2. \A f : References(f)' = References(f)  BY DEF vars, References
<1>3. CountsAreReferences'  BY <1>2 DEF vars, IInv, CountsAreReferences
<1>4. OwnerFlagIsValid' /\ FreshOnesShare'
  BY DEF vars, IInv, OwnerFlagIsValid, FreshOnesShare, flag_
<1> QED  BY <1>1, <1>3, <1>4 DEF IInv
-----------------------------------------------------------------------------
(* The inductive invariant holds throughout, whatever the threads do with  *)
(* their pointers.                                                         *)
THEOREM Invariance == Spec => []IInv
<1>1. Init => IInv  BY InitSatisfies
<1>2. IInv /\ [Next]_vars => IInv'
  <2> SUFFICES ASSUME IInv, [Next]_vars PROVE IInv'
    OBVIOUS
  <2>1. ASSUME NEW t \in Threads, NEW h \in Handles,
               \/ Reset(t, h)
               \/ \E g \in Handles : Assign(t, h, g)
               \/ \E u \in Threads : Pass(t, h, u)
        PROVE  IInv'
    BY <2>1, ResetKeeps, AssignKeeps, PassKeeps
  <2>2. ASSUME NEW t \in Threads, Release(t) \/ Delete(t) PROVE IInv'
    BY <2>2, ReleaseKeeps, DeleteKeeps
  <2>3. ASSUME NEW h \in Handles, WeakReference(h) PROVE IInv'
    BY <2>3, WeakReferenceKeeps
  <2>4. ASSUME NEW lives \in BOOLEAN, Invalidate(lives) PROVE IInv'
    BY <2>4, InvalidateKeeps
  <2> QED  BY <2>1, <2>2, <2>3, <2>4, GetRefKeeps, StutterKeeps DEF Next
<1> QED  BY <1>1, <1>2, PTL DEF Spec

(* RefCountedThreadSafe::Release: however the threads interleave, the      *)
(* count of a flag is the number of its references, no reference outlives  *)
(* it, and exactly one thread deletes it once the last one is dropped.     *)
THEOREM CountsAreRight == Spec => []CountsAreReferences
<1>1. IInv => CountsAreReferences  BY DEF IInv
<1> QED  BY <1>1, Invariance, PTL

(* WeakPtr::get: for any number of threads, pointers and flags, a pointer  *)
(* is valid until its owner invalidates or dies, and from then on never.   *)
THEOREM PointersAreValidWhileFresh == Spec => []ValidMeansFresh
<1>1. IInv => ValidMeansFresh
  BY DEF IInv, FreshOnesShare, ValidMeansFresh
<1> QED  BY <1>1, Invariance, PTL
-----------------------------------------------------------------------------

(* A set of naturals that is not empty has a least element.                *)
LEMMA LeastElement ==
  ASSUME NEW S \in SUBSET Nat, S # {}
  PROVE  \E n \in S : \A m \in S : n <= m
<1> DEFINE U == {0 .. n : n \in S}
<1>1. IsWellFoundedOn(StrictSubsetOrdering(Nat), FiniteSubsetsOf(Nat))
  BY FS_StrictSubsetOrderingWellFounded
<1>2. U \subseteq FiniteSubsetsOf(Nat) /\ U # {}
  <2>1. ASSUME NEW n \in S PROVE 0 .. n \in SUBSET Nat /\ IsFiniteSet(0 .. n)
    BY FS_Interval
  <2> QED  BY <2>1 DEF FiniteSubsetsOf
<1>3. PICK x \in U : \A y \in U : ~(<<y, x>> \in StrictSubsetOrdering(Nat))
  <2> HIDE DEF U
  <2> QED  BY <1>1, <1>2, WFMin
<1>4. PICK n \in S : x = 0 .. n  BY <1>3
<1>5. ASSUME NEW m \in S, m < n PROVE FALSE
  <2>1. 0 .. m \in U  BY <1>5
  <2>2. n \in 0 .. n /\ n \notin 0 .. m  BY <1>5
  <2>3. <<0 .. m, x>> \in StrictSubsetOrdering(Nat)
    BY <2>2, <1>4, <1>5 DEF StrictSubsetOrdering
  <2> QED  BY <2>1, <2>3, <1>3
<1>6. S \in SUBSET Nat /\ n \in S  BY <1>4
<1> QED  BY ONLY <1>5, <1>6

(* A set that has the empty sequence and grows with every sequence in it   *)
(* has all sequences.                                                      *)
LEMMA ByAppending ==
  ASSUME NEW T, NEW P \in SUBSET Seq(T), <<>> \in P,
         \A s \in P, x \in T : Append(s, x) \in P
  PROVE  P = Seq(T)
<1> SUFFICES ASSUME P # Seq(T) PROVE FALSE  OBVIOUS
<1> DEFINE L == {Len(s) : s \in Seq(T) \ P}
<1>1. L \in SUBSET Nat /\ L # {}
  <2>1. PICK s \in Seq(T) : s \notin P  OBVIOUS
  <2>2. \A t \in Seq(T) : Len(t) \in Nat  OBVIOUS
  <2> QED  BY <2>1, <2>2
<1>2. PICK n \in L : \A m \in L : n <= m
  <2> HIDE DEF L
  <2> QED  BY <1>1, LeastElement
<1>3. PICK s \in Seq(T) : s \notin P /\ n = Len(s)  BY <1>2
<1>4. PICK f \in Seq(T), x \in T : s = Append(f, x)
  <2>1. s # <<>>  BY <1>3
  <2> QED  BY <2>1, SequenceEmptyOrAppend
<1>5. f \in P
  <2> SUFFICES ASSUME f \notin P PROVE FALSE  OBVIOUS
  <2>1. Len(f) \in L  OBVIOUS
  <2> HIDE DEF L
  <2>2. n <= Len(f)  BY <2>1, <1>2
  <2>3. n = Len(f) + 1 /\ Len(f) \in Nat  BY <1>3, <1>4, AppendProperties
  <2> QED  BY <2>2, <2>3
<1> QED  BY <1>3, <1>4, <1>5

(* The equation of the function by which Filter is defined.                *)
Firsts(s, S, f) ==
  f = [i \in 0 .. Len(s) |-> IF i = 0 THEN <<>>
                             ELSE IF s[i] \in S THEN Append(f[i - 1], s[i]) ELSE f[i - 1]]

(* Filter(s, S) is what a function Firsts of Filter's equation has kept at *)
(* the end of s.                                                           *)
LEMMA FilterIs ==
  ASSUME NEW s, NEW S
  PROVE  Filter(s, S) = (CHOOSE f : Firsts(s, S, f))[Len(s)]
BY DEF Filter, Firsts

(* The equation of Firsts, at one position.                                *)
LEMMA FirstsAt ==
  ASSUME NEW T, NEW s \in Seq(T), NEW S, NEW f, Firsts(s, S, f)
  PROVE  /\ f[0] = <<>>
         /\ \A i \in 1 .. Len(s) :
              f[i] = IF s[i] \in S THEN Append(f[i - 1], s[i]) ELSE f[i - 1]
<1>1. Len(s) \in Nat  OBVIOUS
<1>2. f[0] = <<>>  BY <1>1 DEF Firsts
<1>3. ASSUME NEW i \in 1 .. Len(s)
      PROVE  f[i] = IF s[i] \in S THEN Append(f[i - 1], s[i]) ELSE f[i - 1]
  <2>1. i \in 0 .. Len(s) /\ i # 0  BY <1>1
  <2> QED  BY <2>1 DEF Firsts
<1> QED  BY <1>2, <1>3

(* Only one function satisfies the equation, ...                           *)
LEMMA FirstsUnique ==
  ASSUME NEW T, NEW s \in Seq(T), NEW S, NEW f, NEW g, Firsts(s, S, f), Firsts(s, S, g)
  PROVE  f = g
<1> DEFINE D == {i \in 0 .. Len(s) : f[i] # g[i]}
<1>1. Len(s) \in Nat  OBVIOUS
<1>2. D = {}
  <2> SUFFICES ASSUME D # {} PROVE FALSE  OBVIOUS
  <2>1. D \in SUBSET Nat  BY <1>1
  <2>2. PICK n \in D : \A m \in D : n <= m
    <3> HIDE DEF D
    <3> QED  BY <2>1, LeastElement
  <2>3. n # 0  BY <2>2, FirstsAt
  <2>4. n \in 1 .. Len(s) /\ n - 1 \in 0 .. Len(s) /\ ~(n <= n - 1)  BY <1>1, <2>2, <2>3
  <2>5. f[n - 1] = g[n - 1]  BY <2>4, <2>2
  <2>6. f[n] = g[n]  BY <2>4, <2>5, FirstsAt
  <2> QED  BY <2>2, <2>6
<1> DEFINE F(h) == [i \in 0 .. Len(s) |-> IF i = 0 THEN <<>>
                      ELSE IF s[i] \in S THEN Append(h[i - 1], s[i]) ELSE h[i - 1]]
<1>3. f = F(f) /\ g = F(g)  BY DEF Firsts
<1>4. f = [i \in 0 .. Len(s) |-> f[i]] /\ g = [i \in 0 .. Len(s) |-> g[i]]
  <2> HIDE DEF D
  <2>1. \A h : F(h) = [i \in 0 .. Len(s) |-> F(h)[i]]  OBVIOUS
  <2> HIDE DEF F
  <2> QED  BY <1>3, <2>1
<1> QED  BY <1>2, <1>4

(* ... and one does.                                                       *)
LEMMA FirstsExists ==
  ASSUME NEW T, NEW S
  PROVE  \A s \in Seq(T) : \E f : Firsts(s, S, f)
<1> DEFINE P == {s \in Seq(T) : \E f : Firsts(s, S, f)}
<1>1. <<>> \in P
  <2> DEFINE f == [i \in 0 .. Len(<<>>) |-> <<>>]
  <2>1. Firsts(<<>>, S, f)  BY DEF Firsts
  <2> QED  BY <2>1
<1>2. ASSUME NEW s \in P, NEW x \in T PROVE Append(s, x) \in P
  <2> DEFINE r == Append(s, x)
  <2>1. s \in Seq(T) /\ Len(s) \in Nat  OBVIOUS
  <2>2. PICK f : Firsts(s, S, f)  OBVIOUS
  <2>3. /\ r \in Seq(T) /\ Len(r) = Len(s) + 1
        /\ \A i \in 1 .. Len(s) : r[i] = s[i]
    BY <2>1, AppendProperties
  <2> DEFINE Step(h, i) == IF i = 0 THEN <<>>
                           ELSE IF r[i] \in S THEN Append(h[i - 1], r[i]) ELSE h[i - 1]
             g == [i \in 0 .. Len(r) |-> IF i <= Len(s) THEN f[i] ELSE Step(f, i)]
  <2>4. ASSUME NEW i \in 0 .. Len(r) PROVE g[i] = Step(g, i)
    <3>1. CASE i = 0
      <4>1. g[i] = f[0]  BY <3>1, <2>1, <2>3
      <4>2. f[0] = <<>>  BY <2>1, <2>2, FirstsAt
      <4> QED  BY <4>1, <4>2, <3>1
    <3>2. CASE i # 0 /\ i <= Len(s)
      <4>1. i - 1 \in 0 .. Len(r) /\ i - 1 <= Len(s)  BY <3>2, <2>1, <2>3
      <4>2. g[i - 1] = f[i - 1] /\ g[i] = f[i]  BY <4>1, <3>2
      <4>3. i \in 1 .. Len(s)  BY <3>2, <2>1, <2>3
      <4>4. f[i] = IF s[i] \in S THEN Append(f[i - 1], s[i]) ELSE f[i - 1]
        BY <2>1, <2>2, <4>3, FirstsAt
      <4>5. r[i] = s[i]  BY <4>3, <2>3
      <4> HIDE DEF g, r
      <4> QED  BY <4>2, <4>4, <4>5, <3>2
    <3>3. CASE i # 0 /\ ~(i <= Len(s))
      <4>1. i - 1 \in 0 .. Len(r) /\ i - 1 <= Len(s)  BY <3>3, <2>1, <2>3
      <4>2. g[i - 1] = f[i - 1]  BY <4>1
      <4>3. g[i] = Step(f, i)  BY <3>3
      <4> HIDE DEF g, r
      <4> QED  BY <4>2, <4>3
    <3> QED  BY <3>1, <3>2, <3>3
  <2>5. g = [i \in 0 .. Len(r) |-> g[i]]  OBVIOUS
  <2>6. Firsts(r, S, g)
    <3> HIDE DEF g
    <3> QED  BY <2>4, <2>5 DEF Firsts
  <2> QED  BY <2>3, <2>6
<1>3. P = Seq(T)
  <2> HIDE DEF P
  <2>1. P \in SUBSET Seq(T)  BY DEF P
  <2> QED  BY <1>1, <1>2, <2>1, ByAppending
<1> QED  BY <1>3

(* What Filter does, element by element.                                   *)
LEMMA FilterEquations ==
  ASSUME NEW T
  PROVE  \A S :
           /\ Filter(<<>>, S) = <<>>
           /\ \A s \in Seq(T), x \in T :
                Filter(Append(s, x), S) = IF x \in S THEN Append(Filter(s, S), x) ELSE Filter(s, S)
<1> SUFFICES ASSUME NEW S
    PROVE  /\ Filter(<<>>, S) = <<>>
           /\ \A s \in Seq(T), x \in T :
                Filter(Append(s, x), S) = IF x \in S THEN Append(Filter(s, S), x) ELSE Filter(s, S)
  OBVIOUS
<1>1. \A s \in Seq(T) : \E f : Firsts(s, S, f) /\ Filter(s, S) = f[Len(s)]
  <2> SUFFICES ASSUME NEW s \in Seq(T) PROVE \E f : Firsts(s, S, f) /\ Filter(s, S) = f[Len(s)]
    OBVIOUS
  <2> DEFINE f == CHOOSE h : Firsts(s, S, h)
  <2>1. \E h : Firsts(s, S, h)  BY FirstsExists
  <2>2. Firsts(s, S, f)  BY <2>1
  <2>3. Filter(s, S) = f[Len(s)]  BY FilterIs
  <2> QED  BY <2>2, <2>3
<1>2. Filter(<<>>, S) = <<>>
  <2>1. <<>> \in Seq(T) /\ Len(<<>>) = 0  OBVIOUS
  <2>2. PICK f : Firsts(<<>>, S, f) /\ Filter(<<>>, S) = f[0]  BY <1>1, <2>1
  <2>3. f = [i \in 0 .. 0 |-> IF i = 0 THEN <<>>
                              ELSE IF <<>>[i] \in S THEN Append(f[i - 1], <<>>[i]) ELSE f[i - 1]]
    BY <2>1, <2>2 DEF Firsts
  <2>4. f[0] = <<>>  BY <2>3
  <2> QED  BY <2>2, <2>4
<1>3. ASSUME NEW s \in Seq(T), NEW x \in T
      PROVE  Filter(Append(s, x), S) = IF x \in S THEN Append(Filter(s, S), x) ELSE Filter(s, S)
  <2> DEFINE r == Append(s, x)
  <2>1. Len(s) \in Nat  OBVIOUS
  <2>2. /\ r \in Seq(T) /\ Len(r) = Len(s) + 1 /\ r[Len(s) + 1] = x
        /\ \A i \in 1 .. Len(s) : r[i] = s[i]
    BY AppendProperties
  <2>3. PICK f : Firsts(s, S, f) /\ Filter(s, S) = f[Len(s)]  BY <1>1
  <2>4. PICK g : Firsts(r, S, g) /\ Filter(r, S) = g[Len(r)]  BY <1>1, <2>2
  <2> HIDE DEF r
  <2> DEFINE h == [i \in 0 .. Len(s) |-> g[i]]
  <2>5. Firsts(s, S, h)
    <3>1. ASSUME NEW i \in 0 .. Len(s)
          PROVE  h[i] = IF i = 0 THEN <<>>
                        ELSE IF s[i] \in S THEN Append(h[i - 1], s[i]) ELSE h[i - 1]
      <4>1. CASE i = 0  BY <4>1, <2>1, <2>2, <2>4, FirstsAt
      <4>2. CASE i # 0
        <5>1. i \in 1 .. Len(r) /\ i \in 1 .. Len(s) /\ i - 1 \in 0 .. Len(s)
          BY <4>2, <2>1, <2>2
        <5>2. g[i] = IF r[i] \in S THEN Append(g[i - 1], r[i]) ELSE g[i - 1]
          BY <5>1, <2>2, <2>4, FirstsAt
        <5>3. h[i] = g[i] /\ h[i - 1] = g[i - 1] /\ r[i] = s[i]  BY <5>1, <2>2
        <5> HIDE DEF h
        <5> QED  BY <5>2, <5>3, <4>2
      <4> QED  BY <4>1, <4>2
    <3>2. h = [i \in 0 .. Len(s) |-> h[i]]  OBVIOUS
    <3> HIDE DEF h
    <3> QED  BY <3>1, <3>2 DEF Firsts
  <2>6. h = f
    <3> HIDE DEF h
    <3> QED  BY <2>3, <2>5, FirstsUnique
  <2>7. g[Len(s)] = f[Len(s)]  BY <2>6, <2>1
  <2>8. Len(s) + 1 \in 1 .. Len(r) /\ (Len(s) + 1) - 1 = Len(s)  BY <2>1, <2>2
  <2>9. g[Len(s) + 1] = IF x \in S THEN Append(g[Len(s)], x) ELSE g[Len(s)]
    BY <2>8, <2>2, <2>4, FirstsAt
  <2>10. Filter(r, S) = IF x \in S THEN Append(Filter(s, S), x) ELSE Filter(s, S)
    BY <2>9, <2>7, <2>3, <2>4, <2>2
  <2> QED  BY <2>10 DEF r
<1> QED  BY <1>2, <1>3

(* The elements of what Filter keeps.                                      *)
LEMMA FilterType ==
  ASSUME NEW T, NEW S, NEW s \in Seq(T)
  PROVE  Filter(s, S) \in Seq(T \cap S)
<1>e. \A Z : /\ Filter(<<>>, Z) = <<>>
             /\ \A q \in Seq(T), x \in T :
                  Filter(Append(q, x), Z) = IF x \in Z THEN Append(Filter(q, Z), x)
                      ELSE Filter(q, Z)
  BY FilterEquations
<1>n. <<>> \in Seq(T)  OBVIOUS
<1> DEFINE P == {q \in Seq(T) : Filter(q, S) \in Seq(T \cap S)}
<1>1. <<>> \in P
  <2>1. Filter(<<>>, S) = <<>> /\ <<>> \in Seq(T \cap S)  BY <1>e
  <2> QED  BY <2>1, <1>n
<1>2. ASSUME NEW q \in P, NEW x \in T PROVE Append(q, x) \in P
  <2>1. Append(q, x) \in Seq(T)  OBVIOUS
  <2>2. Filter(Append(q, x), S) = IF x \in S THEN Append(Filter(q, S), x) ELSE Filter(q, S)
    BY <1>e, <1>n
  <2>3. Append(Filter(q, S), x) \in Seq(T \cap S) \/ x \notin S
    <3>1. Filter(q, S) \in Seq(T \cap S) /\ (x \in T \cap S \/ x \notin S)  OBVIOUS
    <3>2. PICK r : r = Filter(q, S)  OBVIOUS
    <3>3. r \in Seq(T \cap S) /\ (x \in T \cap S \/ x \notin S)  BY ONLY <3>1, <3>2
    <3>4. Append(r, x) \in Seq(T \cap S) \/ x \notin S  BY ONLY <3>3
    <3> QED  BY ONLY <3>4, <3>2
  <2>4. Filter(q, S) \in Seq(T \cap S)  OBVIOUS
  <2>5. Filter(Append(q, x), S) \in Seq(T \cap S)  BY ONLY <2>2, <2>3, <2>4
  <2> QED  BY <2>1, <2>5
<1>3. P \in SUBSET Seq(T)  OBVIOUS
<1>4. P = Seq(T)
  <2> HIDE DEF P
  <2> QED  BY <1>1, <1>2, <1>3, ByAppending
<1> QED  BY <1>4

(* Filtering keeps the elements that are in the set, ...                   *)
LEMMA FilterElements ==
  ASSUME NEW T, NEW S, NEW s \in Seq(T), NEW e
  PROVE  (\E i \in 1 .. Len(Filter(s, S)) : Filter(s, S)[i] = e)
           <=> (e \in S /\ \E i \in 1 .. Len(s) : s[i] = e)
<1>e. \A Z : /\ Filter(<<>>, Z) = <<>>
             /\ \A q \in Seq(T), x \in T :
                  Filter(Append(q, x), Z) = IF x \in Z THEN Append(Filter(q, Z), x)
                      ELSE Filter(q, Z)
  BY FilterEquations
<1>n. <<>> \in Seq(T)  OBVIOUS
<1>t. \A q \in Seq(T) : Filter(q, S) \in Seq(T \cap S) /\ Filter(q, S) \in Seq(T)
  BY FilterType
<1> DEFINE In(q) == \E i \in 1 .. Len(q) : q[i] = e
           P == {q \in Seq(T) : In(Filter(q, S)) <=> (e \in S /\ In(q))}
<1>1. <<>> \in P
  <2>1. Filter(<<>>, S) = <<>> /\ <<>> \in Seq(T)  BY <1>e, <1>n
  <2>2. ~In(<<>>)  OBVIOUS
  <2> QED  BY <2>1, <2>2
<1>2. ASSUME NEW q \in Seq(T), NEW x \in T PROVE In(Append(q, x)) <=> (In(q) \/ e = x)
  <2>1. /\ Len(q) \in Nat /\ Len(Append(q, x)) = Len(q) + 1
        /\ \A i \in 1 .. Len(q) : Append(q, x)[i] = q[i]
        /\ Append(q, x)[Len(q) + 1] = x
    BY AppendProperties
  <2>2. \A i \in 1 .. Len(q) + 1 : i \in 1 .. Len(q) \/ i = Len(q) + 1  BY <2>1
  <2>3. \A i \in 1 .. Len(q) : i \in 1 .. Len(q) + 1  BY <2>1
  <2>4. Len(q) + 1 \in 1 .. Len(q) + 1  BY <2>1
  <2> QED  BY <2>1, <2>2, <2>3, <2>4
<1>3. ASSUME NEW q \in P, NEW x \in T PROVE Append(q, x) \in P
  <2>1. q \in Seq(T) /\ Append(q, x) \in Seq(T)  OBVIOUS
  <2>2. Filter(Append(q, x), S) = IF x \in S THEN Append(Filter(q, S), x) ELSE Filter(q, S)
    BY <2>1, <1>e, <1>n
  <2>3. Filter(q, S) \in Seq(T)  BY <2>1, <1>t
  <2>4. In(Append(q, x)) <=> (In(q) \/ e = x)  BY <1>2, <2>1
  <2>5. In(Append(Filter(q, S), x)) <=> (In(Filter(q, S)) \/ e = x)  BY <1>2, <2>3
  <2>6. In(Filter(q, S)) <=> (e \in S /\ In(q))  OBVIOUS
  <2> HIDE DEF In
  <2> QED  BY <2>1, <2>2, <2>4, <2>5, <2>6
<1>4. P \in SUBSET Seq(T)  OBVIOUS
<1>5. P = Seq(T)
  <2> HIDE DEF P
  <2> QED  BY <1>1, <1>3, <1>4, ByAppending
<1> QED  BY <1>5

(* ... at most once if they were in it once, ...                           *)
Once(s, S) == \A i, j \in 1 .. Len(s) : (s[i] = s[j] /\ s[i] \in S) => i = j

(* Filter keeps once what a sequence has once, and makes no sequence       *)
(* longer.                                                                 *)
LEMMA FilterOnce ==
  ASSUME NEW T, NEW S, NEW s \in Seq(T)
  PROVE  /\ Len(Filter(s, S)) <= Len(s)
         /\ Once(s, S) => Once(Filter(s, S), S)
<1>e. \A Z : /\ Filter(<<>>, Z) = <<>>
             /\ \A q \in Seq(T), x \in T :
                  Filter(Append(q, x), Z) = IF x \in Z THEN Append(Filter(q, Z), x)
                      ELSE Filter(q, Z)
  BY FilterEquations
<1>n. <<>> \in Seq(T)  OBVIOUS
<1>t. \A q \in Seq(T) : Filter(q, S) \in Seq(T \cap S) /\ Filter(q, S) \in Seq(T)
  BY FilterType
<1> DEFINE P == {q \in Seq(T) : /\ Len(Filter(q, S)) <= Len(q)
                                /\ Once(q, S) => Once(Filter(q, S), S)}
<1>1. <<>> \in P
  <2>1. Filter(<<>>, S) = <<>> /\ Len(<<>>) = 0  BY <1>e
  <2> QED  BY <2>1, <1>n
<1>2. ASSUME NEW q \in P, NEW x \in T PROVE Append(q, x) \in P
  <2>1. /\ q \in Seq(T) /\ Append(q, x) \in Seq(T) /\ Len(q) \in Nat
        /\ Len(Append(q, x)) = Len(q) + 1 /\ Append(q, x)[Len(q) + 1] = x
        /\ \A i \in 1 .. Len(q) : Append(q, x)[i] = q[i]
    BY AppendProperties
  <2> DEFINE f == Filter(q, S)
  <2>2. f \in Seq(T) /\ f \in Seq(T \cap S) /\ Len(f) \in Nat  BY <2>1, <1>t
  <2>3. /\ Append(f, x) \in Seq(T)
        /\ Len(Append(f, x)) = Len(f) + 1 /\ Append(f, x)[Len(f) + 1] = x
        /\ \A i \in 1 .. Len(f) : Append(f, x)[i] = f[i]
    BY <2>2, AppendProperties
  <2>4. Filter(Append(q, x), S) = IF x \in S THEN Append(f, x) ELSE f  BY <2>1, <1>e
  <2>5. Len(f) <= Len(q) /\ (Once(q, S) => Once(f, S))  OBVIOUS
  <2>6. \A e : (\E i \in 1 .. Len(f) : f[i] = e) <=> (e \in S /\ \E i \in 1 .. Len(q) : q[i] = e)
    <3> TAKE e
    <3> QED  BY <2>1, FilterElements
  <2> HIDE DEF f
  <2>7. Len(Filter(Append(q, x), S)) <= Len(Append(q, x))
    BY <2>1, <2>2, <2>3, <2>4, <2>5
  <2>8. ASSUME Once(Append(q, x), S) PROVE Once(Filter(Append(q, x), S), S)
    <3>1. Once(q, S)
      <4>1. \A i \in 1 .. Len(q) : i \in 1 .. Len(Append(q, x))  BY <2>1
      <4> QED  BY <4>1, <2>1, <2>8 DEF Once
    <3>2. CASE x \in S
      <4>1. \A i \in 1 .. Len(q) : q[i] # x
        <5>1. \A i \in 1 .. Len(q) : /\ i \in 1 .. Len(Append(q, x)) /\ i # Len(q) + 1
                                     /\ Len(q) + 1 \in 1 .. Len(Append(q, x))
          BY <2>1
        <5> QED  BY <5>1, <2>1, <2>8, <3>2 DEF Once
      <4>2. \A i \in 1 .. Len(f) : f[i] # x  BY <4>1, <2>6
      <4>3. \A i \in 1 .. Len(Append(f, x)) : i \in 1 .. Len(f) \/ i = Len(f) + 1  BY <2>2, <2>3
      <4>4. Once(Append(f, x), S)  BY <3>1, <2>5, <4>2, <4>3, <2>3 DEF Once
      <4> QED  BY <4>4, <2>4, <3>2
    <3>3. CASE x \notin S  BY <3>1, <3>3, <2>4, <2>5
    <3> QED  BY <3>2, <3>3
  <2> QED  BY <2>1, <2>7, <2>8
<1>3. P \in SUBSET Seq(T)  OBVIOUS
<1>4. P = Seq(T)
  <2> HIDE DEF P
  <2> QED  BY <1>1, <1>2, <1>3, ByAppending
<1> QED  BY <1>4

(* ... is the same for sequences that keep the same elements at the same   *)
(* places, ...                                                             *)
LEMMA FilterAgrees ==
  ASSUME NEW T, NEW S, NEW R, NEW s \in Seq(T), NEW t \in Seq(T), Len(s) = Len(t),
         \A i \in 1 .. Len(s) : /\ s[i] \in S <=> t[i] \in R
                                /\ s[i] \in S => s[i] = t[i]
  PROVE  Filter(s, S) = Filter(t, R)
<1>e. \A Z : /\ Filter(<<>>, Z) = <<>>
             /\ \A q \in Seq(T), x \in T :
                  Filter(Append(q, x), Z) = IF x \in Z THEN Append(Filter(q, Z), x)
                      ELSE Filter(q, Z)
  BY FilterEquations
<1>n. <<>> \in Seq(T)  OBVIOUS
<1> DEFINE Agree(q, r) == \A i \in 1 .. Len(q) : /\ q[i] \in S <=> r[i] \in R
                                                 /\ q[i] \in S => q[i] = r[i]
           P == {q \in Seq(T) : \A r \in Seq(T) :
                    (Len(q) = Len(r) /\ Agree(q, r)) => Filter(q, S) = Filter(r, R)}
<1>1. <<>> \in P
  <2>1. ASSUME NEW r \in Seq(T), Len(<<>>) = Len(r) PROVE Filter(<<>>, S) = Filter(r, R)
    <3>1. r = <<>>  BY <2>1
    <3> QED  BY <3>1, <1>e
  <2> QED  BY <2>1, <1>n
<1>2. ASSUME NEW q \in P, NEW x \in T PROVE Append(q, x) \in P
  <2> SUFFICES ASSUME NEW r \in Seq(T), Len(Append(q, x)) = Len(r), Agree(Append(q, x), r)
               PROVE  Filter(Append(q, x), S) = Filter(r, R)
    <3>1. Append(q, x) \in Seq(T)  OBVIOUS
    <3> QED  BY <3>1
  <2>1. /\ q \in Seq(T) /\ Len(q) \in Nat /\ Len(r) = Len(q) + 1 /\ Len(Append(q, x)) = Len(q) + 1
        /\ \A i \in 1 .. Len(q) : Append(q, x)[i] = q[i]
        /\ Append(q, x)[Len(q) + 1] = x
    BY AppendProperties
  <2>2. PICK p \in Seq(T), y \in T : r = Append(p, y)
    <3>1. r # <<>>  BY <2>1
    <3> QED  BY <3>1, SequenceEmptyOrAppend
  <2>3. /\ Len(p) = Len(q) /\ r[Len(q) + 1] = y
        /\ \A i \in 1 .. Len(q) : r[i] = p[i]
    <3>1. /\ Len(p) \in Nat /\ Len(r) = Len(p) + 1 /\ r[Len(p) + 1] = y
          /\ \A i \in 1 .. Len(p) : r[i] = p[i]
      BY <2>2, AppendProperties
    <3>2. Len(p) = Len(q)  BY <3>1, <2>1
    <3> QED  BY <3>1, <3>2
  <2>4. /\ x \in S <=> y \in R
        /\ x \in S => x = y
    <3>1. Len(q) + 1 \in 1 .. Len(Append(q, x))  BY <2>1
    <3> QED  BY <3>1, <2>1, <2>3
  <2>5. Agree(q, p)
    <3>1. \A i \in 1 .. Len(q) : i \in 1 .. Len(Append(q, x))  BY <2>1
    <3> QED  BY <3>1, <2>1, <2>3
  <2>6. Filter(q, S) = Filter(p, R)
    <3> HIDE DEF Agree
    <3> QED  BY <2>3, <2>5
  <2>7. /\ Filter(Append(q, x), S) = IF x \in S THEN Append(Filter(q, S), x) ELSE Filter(q, S)
        /\ Filter(r, R) = IF y \in R THEN Append(Filter(p, R), y) ELSE Filter(p, R)
    BY <2>1, <2>2, <1>e, <1>n
  <2> QED  BY <2>4, <2>6, <2>7
<1>3. P \in SUBSET Seq(T)  OBVIOUS
<1>4. P = Seq(T)
  <2> HIDE DEF P
  <2> QED  BY <1>1, <1>2, <1>3, ByAppending
<1> QED  BY <1>4

(* Filter keeps nothing of a sequence that has nothing to keep, ...        *)
LEMMA FilterNone ==
  ASSUME NEW T, NEW S, NEW s \in Seq(T), \A i \in 1 .. Len(s) : s[i] \notin S
  PROVE  Filter(s, S) = <<>>
<1>t. \A q \in Seq(T) : Filter(q, S) \in Seq(T \cap S) /\ Filter(q, S) \in Seq(T)
  BY FilterType
<1>1. Filter(s, S) \in Seq(T \cap S)  BY <1>t
<1>2. SUFFICES ASSUME Filter(s, S) # <<>> PROVE FALSE  OBVIOUS
<1>3. 1 \in 1 .. Len(Filter(s, S))  BY <1>1, <1>2
<1>4. \A e : (\E i \in 1 .. Len(Filter(s, S)) : Filter(s, S)[i] = e)
               <=> (e \in S /\ \E i \in 1 .. Len(s) : s[i] = e)
  BY FilterElements
<1> QED  BY <1>3, <1>4

(* ... and everything of one that has nothing else.                        *)
LEMMA FilterAll ==
  ASSUME NEW T, NEW S, NEW s \in Seq(T), \A i \in 1 .. Len(s) : s[i] \in S
  PROVE  Filter(s, S) = s
<1>e. \A Z : /\ Filter(<<>>, Z) = <<>>
             /\ \A q \in Seq(T), x \in T :
                  Filter(Append(q, x), Z) = IF x \in Z THEN Append(Filter(q, Z), x)
                      ELSE Filter(q, Z)
  BY FilterEquations
<1>n. <<>> \in Seq(T)  OBVIOUS
<1> DEFINE P == {q \in Seq(T \cap S) : Filter(q, S) = q}
<1>1. <<>> \in P  BY <1>e, <1>n
<1>2. ASSUME NEW q \in P, NEW x \in T \cap S PROVE Append(q, x) \in P
  <2>1. q \in Seq(T) /\ Append(q, x) \in Seq(T \cap S) /\ Filter(q, S) = q
    <3>1. q \in Seq(T \cap S)  OBVIOUS
    <3> QED  BY <3>1
  <2>2. Filter(Append(q, x), S) = Append(Filter(q, S), x)  BY <2>1, <1>e
  <2> QED  BY <2>1, <2>2
<1>3. P \in SUBSET Seq(T \cap S)  OBVIOUS
<1>4. P = Seq(T \cap S)
  <2> HIDE DEF P
  <2> QED  BY <1>1, <1>2, <1>3, ByAppending
<1>5. s \in Seq(T \cap S)
  <2>1. \A i \in 1 .. Len(s) : s[i] \in T \cap S  OBVIOUS
  <2> QED  BY <2>1
<1> QED  BY <1>4, <1>5

(* Appending to a concatenation is appending to its second part.           *)
AppendsToSecond(e, f, x) == Append(e \o f, x) = e \o Append(f, x)

LEMMA AppendToConcat ==
  \A T : \A e, f \in Seq(T), x \in T : AppendsToSecond(e, f, x)
<1> SUFFICES ASSUME NEW T, NEW e \in Seq(T), NEW f \in Seq(T), NEW x \in T
             PROVE  AppendsToSecond(e, f, x)
  OBVIOUS
<1>1. <<x>> \in Seq(T) /\ e \o f \in Seq(T)  OBVIOUS
<1>2. Append(f, x) = f \o <<x>> /\ Append(e \o f, x) = (e \o f) \o <<x>>
  BY <1>1, AppendIsConcat
<1>3. (e \o f) \o <<x>> = e \o (f \o <<x>>)  BY <1>1, ConcatAssociative
<1> QED  BY <1>2, <1>3 DEF AppendsToSecond

(* ... goes through a concatenation, ...                                   *)
LEMMA FilterConcat ==
  ASSUME NEW T, NEW S, NEW s \in Seq(T), NEW t \in Seq(T)
  PROVE  Filter(s \o t, S) = Filter(s, S) \o Filter(t, S)
<1>e. \A Z : /\ Filter(<<>>, Z) = <<>>
             /\ \A q \in Seq(T), x \in T :
                  Filter(Append(q, x), Z) = IF x \in Z THEN Append(Filter(q, Z), x)
                      ELSE Filter(q, Z)
  BY FilterEquations
<1>n. <<>> \in Seq(T)  OBVIOUS
<1>t. \A q \in Seq(T) : Filter(q, S) \in Seq(T \cap S) /\ Filter(q, S) \in Seq(T)
  BY FilterType
<1> DEFINE P == {q \in Seq(T) : Filter(s \o q, S) = Filter(s, S) \o Filter(q, S)}
<1>1. <<>> \in P
  <2>1. s \o <<>> = s  BY ConcatEmptySeq
  <2>2. Filter(s, S) \in Seq(T \cap S)  BY <1>t
  <2>3. Filter(s, S) \o <<>> = Filter(s, S)  BY <2>2, ConcatEmptySeq
  <2> QED  BY <2>1, <2>3, <1>e, <1>n
<1>2. ASSUME NEW q \in P, NEW x \in T PROVE Append(q, x) \in P
  <2>1. q \in Seq(T) /\ Append(q, x) \in Seq(T) /\ s \o q \in Seq(T)  OBVIOUS
  <2>2. s \o Append(q, x) = Append(s \o q, x)
    <3>1. Append(q, x) = q \o <<x>> /\ Append(s \o q, x) = (s \o q) \o <<x>>
      BY <2>1, AppendIsConcat
    <3>2. <<x>> \in Seq(T)  OBVIOUS
    <3> QED  BY <3>1, <3>2, <2>1, ConcatAssociative
  <2>3. /\ Filter(Append(s \o q, x), S)
             = IF x \in S THEN Append(Filter(s \o q, S), x) ELSE Filter(s \o q, S)
        /\ Filter(Append(q, x), S)
             = IF x \in S THEN Append(Filter(q, S), x) ELSE Filter(q, S)
    BY <2>1, <1>e, <1>n
  <2>4. Filter(s \o q, S) = Filter(s, S) \o Filter(q, S)  OBVIOUS
  <2>5. CASE x \in S
    <3> DEFINE a == Filter(s, S)  b == Filter(q, S)
    <3>1. a \in Seq(T \cap S) /\ b \in Seq(T \cap S)  BY <2>1, <1>t
    <3>2. x \in T \cap S  BY <2>5
    <3> HIDE DEF a, b
    <3>3. Append(a \o b, x) = a \o Append(b, x)
      <4>1. PICK U : U = T \cap S  OBVIOUS
      <4>2. a \in Seq(U) /\ b \in Seq(U) /\ x \in U  BY ONLY <3>1, <3>2, <4>1
      <4>3. AppendsToSecond(a, b, x)  BY ONLY <4>2, AppendToConcat
      <4> QED  BY ONLY <4>3 DEF AppendsToSecond
    <3> QED  BY <2>1, <2>2, <2>3, <2>4, <2>5, <3>3 DEF a, b
  <2>6. CASE x \notin S  BY <2>1, <2>2, <2>3, <2>4, <2>6
  <2> QED  BY <2>5, <2>6
<1>3. P \in SUBSET Seq(T)  OBVIOUS
<1>4. P = Seq(T)
  <2> HIDE DEF P
  <2> QED  BY <1>1, <1>2, <1>3, ByAppending
<1> QED  BY <1>4

(* ... and twice is once.                                                  *)
LEMMA FilterTwice ==
  ASSUME NEW T, NEW S, NEW R, NEW s \in Seq(T)
  PROVE  Filter(Filter(s, S), R) = Filter(s, S \cap R)
<1>e. \A Z : /\ Filter(<<>>, Z) = <<>>
             /\ \A q \in Seq(T), x \in T :
                  Filter(Append(q, x), Z) = IF x \in Z THEN Append(Filter(q, Z), x)
                      ELSE Filter(q, Z)
  BY FilterEquations
<1>n. <<>> \in Seq(T)  OBVIOUS
<1>t. \A q \in Seq(T) : Filter(q, S) \in Seq(T \cap S) /\ Filter(q, S) \in Seq(T)
  BY FilterType
<1> DEFINE P == {q \in Seq(T) : Filter(Filter(q, S), R) = Filter(q, S \cap R)}
<1>1. <<>> \in P  BY <1>e, <1>n
<1>2. ASSUME NEW q \in P, NEW x \in T PROVE Append(q, x) \in P
  <2>1. q \in Seq(T) /\ Append(q, x) \in Seq(T)  OBVIOUS
  <2>2. Filter(q, S) \in Seq(T)  BY <2>1, <1>t
  <2>3. /\ Filter(Append(q, x), S) = IF x \in S THEN Append(Filter(q, S), x) ELSE Filter(q, S)
        /\ Filter(Append(q, x), S \cap R)
             = IF x \in S \cap R THEN Append(Filter(q, S \cap R), x) ELSE Filter(q, S \cap R)
    BY <2>1, <1>e
  <2>4. Filter(Append(Filter(q, S), x), R)
          = IF x \in R THEN Append(Filter(Filter(q, S), R), x) ELSE Filter(Filter(q, S), R)
    BY <2>2, <1>e
  <2>5. Filter(Filter(q, S), R) = Filter(q, S \cap R)  OBVIOUS
  <2>6. Filter(Filter(Append(q, x), S), R) = Filter(Append(q, x), S \cap R)
    <3>1. CASE x \in S /\ x \in R  BY <2>3, <2>4, <2>5, <3>1
    <3>2. CASE x \in S /\ x \notin R  BY <2>3, <2>4, <2>5, <3>2
    <3>3. CASE x \notin S  BY <2>3, <2>5, <3>3
    <3> QED  BY <3>1, <3>2, <3>3
  <2> QED  BY <2>1, <2>6
<1>3. P \in SUBSET Seq(T)  OBVIOUS
<1>4. P = Seq(T)
  <2> HIDE DEF P
  <2> QED  BY <1>1, <1>2, <1>3, ByAppending
<1> QED  BY <1>4

(* A sequence is what is before an element, the element and what follows.  *)
Splits(T, s, j) ==
  \E a \in Seq(T), b \in Seq(T) :
     /\ a = SubSeq(s, 1, j - 1) /\ b = SubSeq(s, j + 1, Len(s))
     /\ Len(a) = j - 1 /\ Len(b) = Len(s) - j
     /\ \A i \in 1 .. j - 1 : a[i] = s[i]
     /\ \A i \in 1 .. Len(s) - j : b[i] = s[j + i]
     /\ s = Append(a, s[j]) \o b

(* A sequence is what precedes a position, what is there, and what         *)
(* follows.                                                                *)
LEMMA SplitAt == \A T : \A s \in Seq(T) : \A j \in 1 .. Len(s) : Splits(T, s, j)
<1> SUFFICES ASSUME NEW T, NEW s \in Seq(T), NEW j \in 1 .. Len(s) PROVE Splits(T, s, j)
  OBVIOUS
<1> DEFINE x == s[j]
           a == SubSeq(s, 1, j - 1)
           b == SubSeq(s, j + 1, Len(s))
<1>1. Len(s) \in Nat /\ j \in Nat /\ 1 <= j /\ j <= Len(s) /\ x \in T  OBVIOUS
<1>2. /\ a \in Seq(T) /\ Len(a) = j - 1 /\ b \in Seq(T) /\ Len(b) = Len(s) - j
      /\ \A i \in 1 .. j - 1 : a[i] = s[i]
      /\ \A i \in 1 .. Len(s) - j : b[i] = s[j + i]
  <2>1. \A i \in 1 .. j - 1 : s[i] \in T  BY <1>1
  <2>2. \A i \in j + 1 .. Len(s) : s[i] \in T  BY <1>1
  <2>3. /\ a \in Seq(T) /\ Len(a) = IF 1 <= j - 1 THEN (j - 1) - 1 + 1 ELSE 0
        /\ \A i \in 1 .. (j - 1) - 1 + 1 : a[i] = s[1 + i - 1]
    BY <1>1, <2>1, SubSeqProperties
  <2>4. /\ b \in Seq(T) /\ Len(b) = IF j + 1 <= Len(s) THEN Len(s) - (j + 1) + 1 ELSE 0
        /\ \A i \in 1 .. Len(s) - (j + 1) + 1 : b[i] = s[(j + 1) + i - 1]
    BY <1>1, <2>2, SubSeqProperties
  <2> HIDE DEF a, b
  <2>5. Len(a) = j - 1 /\ Len(b) = Len(s) - j  BY <1>1, <2>3, <2>4
  <2>6. \A i \in 1 .. j - 1 : a[i] = s[i]
    <3>1. \A i \in 1 .. j - 1 : i \in 1 .. (j - 1) - 1 + 1 /\ 1 + i - 1 = i  BY <1>1
    <3> QED  BY <3>1, <2>3
  <2>7. \A i \in 1 .. Len(s) - j : b[i] = s[j + i]
    <3>1. \A i \in 1 .. Len(s) - j : i \in 1 .. Len(s) - (j + 1) + 1 /\ (j + 1) + i - 1 = j + i
      BY <1>1
    <3> QED  BY <3>1, <2>4
  <2> QED  BY <2>3, <2>4, <2>5, <2>6, <2>7
<1> HIDE DEF a, b
<1>3. s = Append(a, x) \o b
  <2>1. Append(a, x) \in Seq(T) /\ Len(Append(a, x)) = j  BY <1>1, <1>2
  <2>2. Append(a, x) \o b \in Seq(T) /\ Len(Append(a, x) \o b) = Len(s)
    BY <1>1, <1>2, <2>1, ConcatProperties
  <2>3. ASSUME NEW i \in 1 .. Len(s) PROVE (Append(a, x) \o b)[i] = s[i]
    <3>1. CASE i <= j
      <4>1. (Append(a, x) \o b)[i] = Append(a, x)[i]  BY <3>1, <1>1, <1>2, <2>1
      <4>2. Append(a, x)[i] = s[i]  BY <3>1, <1>1, <1>2
      <4> QED  BY <4>1, <4>2
    <3>2. CASE ~(i <= j)
      <4>1. (Append(a, x) \o b)[i] = b[i - j]  BY <3>2, <1>1, <1>2, <2>1
      <4>2. i - j \in 1 .. Len(s) - j /\ j + (i - j) = i  BY <3>2, <1>1
      <4> QED  BY <4>1, <4>2, <1>2
    <3> QED  BY <3>1, <3>2
  <2> QED  BY <2>2, <2>3, SeqEqual
<1>4. a = SubSeq(s, 1, j - 1) /\ b = SubSeq(s, j + 1, Len(s))  BY DEF a, b
<1> QED  BY ONLY <1>2, <1>3, <1>4 DEF Splits

FilterSplits(s, S, a, x, b) ==
  Filter(s, S) = IF x \in S THEN Append(Filter(a, S), x) \o Filter(b, S)
                            ELSE Filter(a, S) \o Filter(b, S)

(* Filter of a sequence with its element at a position kept, and dropped.  *)
LEMMA FilterSplit ==
  \A T, S : \A s, a, b \in Seq(T), x \in T :
     s = Append(a, x) \o b => FilterSplits(s, S, a, x, b)
<1> SUFFICES ASSUME NEW T, NEW S, NEW s \in Seq(T), NEW a \in Seq(T), NEW b \in Seq(T),
                    NEW x \in T, s = Append(a, x) \o b
             PROVE  FilterSplits(s, S, a, x, b)
  OBVIOUS
<1>e. \A q \in Seq(T), y \in T :
        Filter(Append(q, y), S) = IF y \in S THEN Append(Filter(q, S), y) ELSE Filter(q, S)
  BY FilterEquations
<1>1. Append(a, x) \in Seq(T)  BY AppendProperties
<1>2. Filter(Append(a, x) \o b, S) = Filter(Append(a, x), S) \o Filter(b, S)
  BY <1>1, FilterConcat
<1> QED  BY <1>2, <1>e DEF FilterSplits

(* A sequence with one element more, as a function.                       *)
LEMMA AppendedIs ==
  \A R : \A r \in Seq(R), last \in R, d \in Nat : Len(r) = d =>
     Append(r, last) = [n \in 1 .. d + 1 |-> IF n = d + 1 THEN last ELSE r[n]]
<1> SUFFICES ASSUME NEW R, NEW r \in Seq(R), NEW last \in R, NEW d \in Nat, Len(r) = d
    PROVE  Append(r, last) = [n \in 1 .. d + 1 |-> IF n = d + 1 THEN last ELSE r[n]]
  OBVIOUS
<1>2. /\ Append(r, last) \in Seq(R) /\ Len(Append(r, last)) = d + 1
      /\ \A n \in 1 .. d : Append(r, last)[n] = r[n]
      /\ Append(r, last)[d + 1] = last
  BY AppendProperties
<1> DEFINE g == [n \in 1 .. d + 1 |-> IF n = d + 1 THEN last ELSE r[n]]
<1>3. g \in Seq(R) /\ Len(g) = d + 1
  <2>1. \A n \in 1 .. d + 1 : (IF n = d + 1 THEN last ELSE r[n]) \in R
    <3>1. \A n \in 1 .. d + 1 : n # d + 1 => n \in 1 .. d  OBVIOUS
    <3> QED  BY <3>1
  <2> QED  BY ONLY <2>1, d \in Nat
<1>4. \A n \in 1 .. d + 1 : Append(r, last)[n] = g[n]
  <2>1. \A n \in 1 .. d + 1 : n # d + 1 => n \in 1 .. d  OBVIOUS
  <2> QED  BY <2>1, <1>2
<1> HIDE DEF g
<1>5. Append(r, last) = g  BY ONLY <1>2, <1>3, <1>4, SeqEqual
<1> QED  BY <1>5 DEF g

(* The end of a sequence grows with the sequence.                          *)
LEMMA TailGrows ==
  ASSUME NEW T, NEW s \in Seq(T), NEW x \in T, NEW p \in 1 .. Len(s)
  PROVE  SubSeq(Append(s, x), p, Len(s) + 1) = Append(SubSeq(s, p, Len(s)), x)
<1>0. PICK l \in Nat, t \in Seq(T) : l = Len(s) /\ t = Append(s, x) /\ Len(t) = l + 1
        /\ t[l + 1] = x /\ \A i \in 1 .. l : t[i] = s[i]
  <2>1. /\ Append(s, x) \in Seq(T) /\ Len(Append(s, x)) = Len(s) + 1
        /\ Append(s, x)[Len(s) + 1] = x /\ \A i \in 1 .. Len(s) : Append(s, x)[i] = s[i]
    BY AppendProperties
  <2>2. Len(s) \in Nat  OBVIOUS
  <2> QED  BY ONLY <2>1, <2>2
<1> DEFINE a == SubSeq(s, p, l)
           b == SubSeq(t, p, l + 1)
<1>1. p \in 1 .. l /\ p \in Int /\ l \in Int /\ l + 1 \in Int /\ l \in Nat  BY <1>0
<1>2. /\ a \in Seq(T) /\ Len(a) = l - p + 1
      /\ \A i \in 1 .. l - p + 1 : a[i] = s[p + i - 1]
  <2>1. \A i \in p .. l : s[i] \in T  BY <1>0, <1>1
  <2>2. /\ a \in Seq(T) /\ Len(a) = IF p <= l THEN l - p + 1 ELSE 0
        /\ \A i \in 1 .. l - p + 1 : a[i] = s[p + i - 1]
    BY ONLY <2>1, <1>1, SubSeqProperties
  <2> QED  BY <2>2, <1>1
<1>3. /\ b \in Seq(T) /\ Len(b) = l - p + 2
      /\ \A i \in 1 .. l - p + 2 : b[i] = t[p + i - 1]
  <2>1. \A i \in p .. l + 1 : t[i] \in T  BY <1>0, <1>1
  <2>2. /\ b \in Seq(T) /\ Len(b) = IF p <= l + 1 THEN (l + 1) - p + 1 ELSE 0
        /\ \A i \in 1 .. (l + 1) - p + 1 : b[i] = t[p + i - 1]
    BY ONLY <2>1, <1>1, SubSeqProperties
  <2>3. (l + 1) - p + 1 = l - p + 2 /\ p <= l + 1  BY <1>1
  <2> QED  BY <2>2, <2>3
<1> HIDE DEF a, b
<1>4. /\ Append(a, x) \in Seq(T) /\ Len(Append(a, x)) = Len(a) + 1
      /\ \A i \in 1 .. Len(a) : Append(a, x)[i] = a[i]
      /\ Append(a, x)[Len(a) + 1] = x
  <2>1. a \in Seq(T) /\ x \in T  BY <1>2
  <2> QED  BY ONLY <2>1, AppendProperties
<1>5. ASSUME NEW i \in 1 .. Len(b) PROVE b[i] = Append(a, x)[i]
  <2>0. i \in 1 .. l - p + 2 /\ b[i] = t[p + i - 1]  BY <1>3
  <2>1. CASE i = l - p + 2
    <3>1. p + i - 1 = l + 1 /\ i = Len(a) + 1  BY <2>1, <1>1, <1>2
    <3> QED  BY <3>1, <2>0, <1>0, <1>4
  <2>2. CASE i # l - p + 2
    <3>1. p + i - 1 \in 1 .. l /\ i \in 1 .. l - p + 1  BY <2>0, <2>2, <1>1
    <3> QED  BY <3>1, <2>0, <1>0, <1>2, <1>4
  <2> QED  BY <2>1, <2>2
<1>6. Len(b) = Len(Append(a, x))  BY <1>1, <1>2, <1>3, <1>4
<1>7. b = Append(a, x)  BY <1>3, <1>4, <1>5, <1>6, SeqEqual
<1> QED  BY <1>0, <1>7 DEF a, b

(* The end of an end is an end.                                            *)
LEMMA TailOfTail ==
  ASSUME NEW T, NEW s \in Seq(T), NEW p \in 1 .. Len(s), NEW j \in 1 .. Len(s) - p + 1
  PROVE  SubSeq(SubSeq(s, p, Len(s)), j + 1, Len(SubSeq(s, p, Len(s))))
           = SubSeq(s, p + j, Len(s))
<1>0. PICK l \in Nat : l = Len(s)  OBVIOUS
<1> DEFINE a == SubSeq(s, p, l)
           b == SubSeq(s, p + j, l)
           c == SubSeq(a, j + 1, l - p + 1)
<1>1. /\ p \in 1 .. l /\ j \in 1 .. l - p + 1 /\ p \in Int /\ l \in Int /\ p + j \in Int
      /\ j + 1 \in Int /\ l - p + 1 \in Int /\ l \in Nat /\ j \in Int
  BY <1>0
<1>2. /\ a \in Seq(T) /\ Len(a) = l - p + 1
      /\ \A i \in 1 .. l - p + 1 : a[i] = s[p + i - 1]
  <2>1. \A i \in p .. l : s[i] \in T  BY <1>0, <1>1
  <2>2. /\ a \in Seq(T) /\ Len(a) = IF p <= l THEN l - p + 1 ELSE 0
        /\ \A i \in 1 .. l - p + 1 : a[i] = s[p + i - 1]
    BY ONLY <2>1, <1>1, SubSeqProperties
  <2> QED  BY <2>2, <1>1
<1>3. /\ b \in Seq(T) /\ Len(b) = l - p - j + 1
      /\ \A i \in 1 .. l - p - j + 1 : b[i] = s[p + j + i - 1]
  <2>1. \A i \in p + j .. l : s[i] \in T  BY <1>0, <1>1
  <2>2. /\ b \in Seq(T) /\ Len(b) = IF p + j <= l THEN l - (p + j) + 1 ELSE 0
        /\ \A i \in 1 .. l - (p + j) + 1 : b[i] = s[(p + j) + i - 1]
    BY ONLY <2>1, <1>1, SubSeqProperties
  <2>3. l - (p + j) + 1 = l - p - j + 1
          /\ (IF p + j <= l THEN l - (p + j) + 1 ELSE 0) = l - p - j + 1
    BY ONLY <1>1
  <2> QED  BY <2>2, <2>3
<1> HIDE DEF a, b
<1>4. /\ c \in Seq(T) /\ Len(c) = l - p - j + 1
      /\ \A i \in 1 .. l - p - j + 1 : c[i] = a[j + i]
  <2>1. \A i \in j + 1 .. l - p + 1 : a[i] \in T  BY <1>1, <1>2
  <2>2. /\ c \in Seq(T) /\ Len(c) = IF j + 1 <= l - p + 1 THEN (l - p + 1) - (j + 1) + 1 ELSE 0
        /\ \A i \in 1 .. (l - p + 1) - (j + 1) + 1 : c[i] = a[(j + 1) + i - 1]
    BY ONLY <2>1, <1>1, SubSeqProperties
  <2>3. /\ (l - p + 1) - (j + 1) + 1 = l - p - j + 1
        /\ (IF j + 1 <= l - p + 1 THEN (l - p + 1) - (j + 1) + 1 ELSE 0) = l - p - j + 1
        /\ \A i \in 1 .. l - p - j + 1 : (j + 1) + i - 1 = j + i
    BY ONLY <1>1
  <2> QED  BY <2>2, <2>3
<1> HIDE DEF c
<1>5. ASSUME NEW i \in 1 .. l - p - j + 1 PROVE b[i] = c[i]
  <2>1. j + i \in 1 .. l - p + 1 /\ p + (j + i) - 1 = p + j + i - 1  BY <1>1
  <2> QED  BY <2>1, <1>2, <1>3, <1>4
<1>6. c = b
  <2>1. Len(c) = Len(b) /\ \A i \in 1 .. Len(c) : c[i] = b[i]  BY ONLY <1>3, <1>4, <1>5
  <2> QED  BY <2>1, <1>3, <1>4, SeqEqual
<1> QED  BY ONLY <1>0, <1>2, <1>6 DEF a, b, c

(* The first element that is kept.                                         *)
LEMMA FilterFirst ==
  ASSUME NEW T, NEW S, NEW s \in Seq(T), NEW j \in 1 .. Len(s), s[j] \in S,
         \A i \in 1 .. j - 1 : s[i] \notin S
  PROVE  /\ Filter(s, S) # <<>>
         /\ Head(Filter(s, S)) = s[j]
         /\ Tail(Filter(s, S)) = Filter(SubSeq(s, j + 1, Len(s)), S)
<1> DEFINE x == s[j]
<1>1. PICK a \in Seq(T), b \in Seq(T) :
        /\ b = SubSeq(s, j + 1, Len(s)) /\ Len(a) = j - 1
        /\ \A i \in 1 .. j - 1 : a[i] = s[i]
        /\ s = Append(a, x) \o b
  <2>1. Splits(T, s, j)  BY SplitAt
  <2> QED  BY ONLY <2>1 DEF Splits
<1>2. x \in T  OBVIOUS
<1> HIDE DEF x
<1>3. Filter(s, S) = Append(Filter(a, S), x) \o Filter(b, S)
  <2>1. FilterSplits(s, S, a, x, b)  BY <1>1, <1>2, FilterSplit
  <2>2. x \in S  BY DEF x
  <2> QED  BY ONLY <2>1, <2>2 DEF FilterSplits
<1>4. Filter(a, S) = <<>>
  <2>1. \A i \in 1 .. Len(a) : a[i] \notin S  BY <1>1
  <2> QED  BY <2>1, FilterNone
<1>5. Filter(s, S) = <<x>> \o Filter(b, S)
  <2>1. Append(<<>>, x) = <<x>>  OBVIOUS
  <2> QED  BY <1>3, <1>4, <2>1
<1>6. Filter(b, S) \in Seq(T)
  <2>1. Filter(b, S) \in Seq(T \cap S)  BY <1>1, FilterType
  <2> QED  BY <2>1, SeqMonotonic
<1>7. /\ <<x>> \o Filter(b, S) # <<>> /\ Head(<<x>> \o Filter(b, S)) = x
      /\ Tail(<<x>> \o Filter(b, S)) = Filter(b, S)
  BY <1>2, <1>6
<1> QED  BY ONLY <1>5, <1>7, <1>1 DEF x
-----------------------------------------------------------------------------
Entries == Observers \cup {NULL}

(* The lists and what they promise filter in the same way.                 *)
LEMMA FilterIsOne ==
  \A s, S : /\ Observing!Filter(s, S) = Filter(s, S)
            /\ Observing!List!Filter(s, S) = Filter(s, S)
            /\ Subscribing!Filter(s, S) = Filter(s, S)
            /\ Subscribing!List!Filter(s, S) = Filter(s, S)
BY DEF Filter, Observing!Filter, Observing!List!Filter, Subscribing!Filter, Subscribing!List!Filter

(* NonNull, which skips the holes, of the lists that the operations make.  *)
LEMMA NonNulls ==
  /\ Observing!NonNull(<<>>) = <<>>
  /\ \A s \in Seq(Entries) :
       /\ Observing!NonNull(s) \in Seq(Observers)
       /\ Observing!NonNull(Observing!NonNull(s)) = Observing!NonNull(s)
       /\ (\A i \in 1 .. Len(s) : s[i] = NULL) => Observing!NonNull(s) = <<>>
       /\ \A o \in Observers : Observing!NonNull(Append(s, o)) = Append(Observing!NonNull(s), o)
<1>1. Observing!NonNull(<<>>) = <<>>  BY FilterEquations, FilterIsOne DEF Observing!NonNull
<1>2. ASSUME NEW s \in Seq(Entries)
      PROVE  /\ Observing!NonNull(s) \in Seq(Observers)
             /\ Observing!NonNull(Observing!NonNull(s)) = Observing!NonNull(s)
             /\ (\A i \in 1 .. Len(s) : s[i] = NULL) => Observing!NonNull(s) = <<>>
             /\ \A o \in Observers :
                   Observing!NonNull(Append(s, o)) = Append(Observing!NonNull(s), o)
  <2>1. Observing!NonNull(s) \in Seq(Observers)
    <3>1. Filter(s, Observers) \in Seq(Entries \cap Observers)  BY FilterType
    <3>2. Entries \cap Observers = Observers  BY DEF Entries
    <3> QED  BY <3>1, <3>2, FilterIsOne DEF Observing!NonNull
  <2>2. Observing!NonNull(Observing!NonNull(s)) = Observing!NonNull(s)
    <3> DEFINE t == Observing!NonNull(s)
    <3>1. t \in Seq(Observers)  BY <2>1
    <3> HIDE DEF t
    <3>2. Filter(t, Observers) = t
      <4>1. \A i \in 1 .. Len(t) : t[i] \in Observers  BY <3>1
      <4> QED  BY <3>1, <4>1, FilterAll
    <3> QED  BY <3>2, FilterIsOne DEF t, Observing!NonNull
  <2>3. ASSUME \A i \in 1 .. Len(s) : s[i] = NULL PROVE Observing!NonNull(s) = <<>>
    <3>1. \A i \in 1 .. Len(s) : s[i] \notin Observers
      BY <2>3, ListsAssumption DEF Observing!ObserverListAssumption
    <3> QED  BY <3>1, FilterNone, FilterIsOne DEF Observing!NonNull
  <2>4. ASSUME NEW o \in Observers
        PROVE  Observing!NonNull(Append(s, o)) = Append(Observing!NonNull(s), o)
    <3>1. \A q \in Seq(Entries), x \in Entries :
             Filter(Append(q, x), Observers)
               = IF x \in Observers THEN Append(Filter(q, Observers), x) ELSE Filter(q, Observers)
      BY FilterEquations
    <3>2. o \in Entries  BY DEF Entries
    <3> QED  BY <3>1, <3>2, FilterIsOne DEF Observing!NonNull
  <2> QED  BY <2>1, <2>2, <2>3, <2>4
<1> QED  BY <1>1, <1>2

(* Whom the list has are the members of the abstract one.                  *)
LEMMA MembersAre ==
  ASSUME NEW s \in Seq(Entries), NEW o \in Observers
  PROVE  o \in Observing!List!Range(Observing!NonNull(s)) <=> \E i \in 1 .. Len(s) : s[i] = o
<1>1. (\E i \in 1 .. Len(Filter(s, Observers)) : Filter(s, Observers)[i] = o)
        <=> (o \in Observers /\ \E i \in 1 .. Len(s) : s[i] = o)
  BY FilterElements
<1> DEFINE t == Observing!NonNull(s)
<1>2. t \in Seq(Observers)  BY NonNulls
<1>3. (\E i \in 1 .. Len(t) : t[i] = o) <=> \E i \in 1 .. Len(s) : s[i] = o
  BY <1>1, FilterIsOne DEF Observing!NonNull
<1> HIDE DEF t
<1>4. o \in Observing!List!Range(t) <=> \E i \in 1 .. Len(t) : t[i] = o
  BY <1>2 DEF Observing!List!Range
<1> QED  BY <1>3, <1>4 DEF t

(* Nulling an entry, and erasing it, is removing the observer.             *)
LEMMA NulledIsRemoved ==
  ASSUME NEW s \in Seq(Entries), NEW t \in Seq(Entries), NEW o \in Observers, Len(s) = Len(t),
         \A k \in 1 .. Len(s) : t[k] = IF s[k] = o THEN NULL ELSE s[k]
  PROVE  Observing!NonNull(t) = Observing!List!Without(Observing!NonNull(s), o)
<1> DEFINE R == Observers \cap (Observers \ {o})
<1>1. Filter(Filter(s, Observers), Observers \ {o}) = Filter(s, R)  BY FilterTwice
<1>2. Filter(s, R) = Filter(t, Observers)
  <2>1. \A k \in 1 .. Len(s) : /\ s[k] \in R <=> t[k] \in Observers
                               /\ s[k] \in R => s[k] = t[k]
    BY ListsAssumption DEF Observing!ObserverListAssumption
  <2> HIDE DEF R
  <2> QED  BY <2>1, FilterAgrees
<1> QED  BY <1>1, <1>2, FilterIsOne DEF Observing!NonNull, Observing!List!Without

(* ... and so is erasing its entry.                                        *)
LEMMA ErasedIsRemoved ==
  ASSUME NEW s \in Seq(Entries), NEW o \in Observers, NEW i \in 1 .. Len(s), s[i] = o,
         \A k \in 1 .. Len(s) : s[k] = o => k = i
  PROVE  Observing!NonNull(SubSeq(s, 1, i - 1) \o SubSeq(s, i + 1, Len(s)))
             = Observing!List!Without(Observing!NonNull(s), o)
<1> DEFINE R == Observers \cap (Observers \ {o})
<1>1. Filter(Filter(s, Observers), Observers \ {o}) = Filter(s, R)  BY FilterTwice
<1>2. PICK a \in Seq(Entries), b \in Seq(Entries) :
        /\ a = SubSeq(s, 1, i - 1) /\ b = SubSeq(s, i + 1, Len(s))
        /\ Len(a) = i - 1 /\ Len(b) = Len(s) - i
        /\ \A k \in 1 .. i - 1 : a[k] = s[k]
        /\ \A k \in 1 .. Len(s) - i : b[k] = s[i + k]
        /\ s = Append(a, o) \o b
  <2>1. Splits(Entries, s, i)  BY SplitAt
  <2> QED  BY ONLY <2>1, s[i] = o DEF Splits
<1>f. /\ i \in 1 .. Len(s) /\ Len(s) \in Nat /\ Len(a) = i - 1 /\ Len(b) = Len(s) - i
      /\ \A k \in 1 .. i - 1 : a[k] = s[k]
      /\ \A k \in 1 .. Len(s) - i : b[k] = s[i + k]
      /\ \A k \in 1 .. Len(s) : s[k] = o => k = i
  <2>1. Len(s) \in Nat  OBVIOUS
  <2> QED  BY <2>1, <1>2
<1>3. o \in Entries /\ o \notin R  BY DEF Entries
<1>4. Filter(s, R) = Filter(a, R) \o Filter(b, R)
  <2>1. FilterSplits(s, R, a, o, b)  BY <1>2, <1>3, FilterSplit
  <2> QED  BY ONLY <2>1, <1>3 DEF FilterSplits
<1>5. \A e \in Observers : e # o => e \in R  OBVIOUS
<1>6. R \subseteq Observers  OBVIOUS
<1> HIDE DEF R
<1>7. Filter(a, R) = Filter(a, Observers)
  <2>1. \A k \in 1 .. Len(a) : a[k] # o
    <3>1. \A k \in 1 .. i - 1 : k \in 1 .. Len(s) /\ k # i  BY ONLY <1>f
    <3> QED  BY ONLY <3>1, <1>f
  <2>2. \A k \in 1 .. Len(a) : /\ a[k] \in R <=> a[k] \in Observers
                               /\ a[k] \in R => a[k] = a[k]
    BY <2>1, <1>5, <1>6
  <2> QED  BY <2>2, FilterAgrees
<1>8. Filter(b, R) = Filter(b, Observers)
  <2>1. ASSUME NEW k \in 1 .. Len(b) PROVE b[k] # o
    <3>1. i + k \in 1 .. Len(s) /\ i + k # i /\ k \in 1 .. Len(s) - i
      BY ONLY <1>f, k \in 1 .. Len(b)
    <3> QED  BY ONLY <3>1, <1>f
  <2>2. \A k \in 1 .. Len(b) : /\ b[k] \in R <=> b[k] \in Observers
                               /\ b[k] \in R => b[k] = b[k]
    BY <2>1, <1>5, <1>6
  <2> QED  BY <2>2, FilterAgrees
<1>9. Filter(a \o b, Observers) = Filter(a, Observers) \o Filter(b, Observers)
  BY FilterConcat
<1>10. Filter(a \o b, Observers) = Filter(Filter(s, Observers), Observers \ {o})
  BY <1>1, <1>4, <1>7, <1>8, <1>9
<1> QED  BY <1>10, <1>2, FilterIsOne DEF Observing!NonNull, Observing!List!Without

(* At first the list is empty, as it is in the list it implements.         *)
LEMMA ObserversInit == Observing!Init => Observing!IInv /\ Observing!List!Init
<1> SUFFICES ASSUME Observing!Init PROVE Observing!IInv /\ Observing!List!Init  OBVIOUS
<1>1. Observing!TypeOK
  <2>1. MaxDepth \in Nat /\ MaxSize \in Nat  BY ListsAssumption DEF Observing!ObserverListAssumption
  <2>2. observers_ \in Seq(Observers \union {NULL}) /\ Len(observers_) = 0  BY DEF Observing!Init
  <2>3. iterators \in Seq(Observing!Iterators)  BY DEF Observing!Init
  <2> QED  BY <2>1, <2>2, <2>3 DEF Observing!Init, Observing!TypeOK
<1>2. Observing!HolesOnlyInLoops  BY DEF Observing!Init, Observing!HolesOnlyInLoops, Observing!Depth
<1>3. Observing!NobodyTwice  BY DEF Observing!Init, Observing!NobodyTwice
<1>4. Observing!LoopsInRange
  <2>1. MaxDepth \in Nat  BY ListsAssumption DEF Observing!ObserverListAssumption
  <2> QED  BY <2>1 DEF Observing!Init, Observing!LoopsInRange, Observing!Depth
<1>5. Observing!List!Init
  <2>1. Observing!Depth = 0 /\ 1 .. 0 = {}  BY DEF Observing!Init, Observing!Depth
  <2>2. Observing!Running = <<>>  BY <2>1 DEF Observing!Running
  <2> QED
    BY <2>2, NonNulls
       DEF Observing!Init, Observing!List!Init, Observing!List!Policies, Observing!Types
<1> QED  BY <1>1, <1>2, <1>3, <1>4, <1>5 DEF Observing!IInv

(* The vector and the loops, as sequences.                                 *)
LEMMA ObserversShapes ==
  ASSUME Observing!TypeOK
  PROVE  /\ observers_ \in Seq(Entries) /\ Len(observers_) \in Nat
         /\ DOMAIN observers_ = 1 .. Len(observers_)
         /\ iterators \in Seq(Observing!Iterators) /\ Observing!Depth \in Nat
         /\ DOMAIN iterators = 1 .. Observing!Depth
         /\ \A n \in 1 .. Observing!Depth : iterators[n] \in Observing!Iterators
         /\ MaxSize \in Nat /\ MaxDepth \in Nat /\ NULL \notin Observers
BY ListsAssumption DEF Observing!TypeOK, Entries, Observing!Depth, Observing!ObserverListAssumption

(* What an iterator still looks at.                                        *)
Ahead(it) == SubSeq(observers_, it.index, Observing!Limit(it))

(* What a loop has ahead of it, from its index up to its limit.            *)
LEMMA AheadIs ==
  ASSUME Observing!IInv, listed, NEW n \in 1 .. Observing!Depth
  PROVE  LET it == iterators[n] IN
         /\ it.index \in Nat /\ 1 <= it.index /\ it.index <= Len(observers_) + 1
         /\ it.max_index \in Nat /\ it.obs \in Observers \union {NULL}
         /\ Observing!Limit(it) \in Nat /\ Observing!Limit(it) <= Len(observers_)
         /\ type_ = "all" => it.max_index = MaxSize + 1 /\ Observing!Limit(it) = Len(observers_)
         /\ type_ # "all" => it.max_index <= Len(observers_) /\ Observing!Limit(it) = it.max_index
         /\ Ahead(it) \in Seq(Entries)
         /\ Len(Ahead(it)) = IF it.index <= Observing!Limit(it)
                THEN Observing!Limit(it) - it.index + 1 ELSE 0
         /\ \A k \in 1 .. Len(Ahead(it)) : Ahead(it)[k] = observers_[it.index + k - 1]
<1> DEFINE it == iterators[n]
<1>0. /\ observers_ \in Seq(Entries) /\ Len(observers_) \in Nat /\ MaxSize \in Nat
      /\ Len(observers_) <= MaxSize
      /\ DOMAIN iterators = 1 .. Observing!Depth
      /\ it \in Observing!Iterators
  BY ObserversShapes DEF Observing!IInv, Observing!TypeOK
<1>1. it.index \in Nat /\ it.max_index \in Nat /\ it.obs \in Observers \union {NULL}
  BY <1>0 DEF Observing!Iterators
<1>2. /\ it.index \in 1..(Len(observers_) + 1)
      /\ IF type_ = "all" THEN it.max_index = Observing!NumericLimitsMax
                          ELSE it.max_index <= Len(observers_)
  BY <1>0 DEF Observing!IInv, Observing!LoopsInRange
<1> HIDE DEF it
<1>3. /\ Observing!Limit(it) \in Nat /\ Observing!Limit(it) <= Len(observers_)
      /\ type_ = "all" => it.max_index = MaxSize + 1 /\ Observing!Limit(it) = Len(observers_)
      /\ type_ # "all" => it.max_index <= Len(observers_) /\ Observing!Limit(it) = it.max_index
  BY <1>0, <1>1, <1>2 DEF Observing!Limit, Observing!NumericLimitsMax
<1>4. \A i \in it.index .. Observing!Limit(it) : observers_[i] \in Entries
  <2>1. \A i \in it.index .. Observing!Limit(it) : i \in 1 .. Len(observers_)
    BY <1>0, <1>1, <1>2, <1>3
  <2> QED  BY <2>1, <1>0
<1>5. /\ Ahead(it) \in Seq(Entries)
      /\ Len(Ahead(it)) = IF it.index <= Observing!Limit(it)
             THEN Observing!Limit(it) - it.index + 1 ELSE 0
      /\ \A k \in 1 .. Observing!Limit(it) - it.index + 1 :
            Ahead(it)[k] = observers_[it.index + k - 1]
  <2>1. it.index \in Int /\ Observing!Limit(it) \in Int  BY <1>1, <1>3
  <2> QED  BY <2>1, <1>4, SubSeqProperties DEF Ahead
<1>6. \A k \in 1 .. Len(Ahead(it)) : Ahead(it)[k] = observers_[it.index + k - 1]
  <2>1. \A k \in 1 .. Len(Ahead(it)) : k \in 1 .. Observing!Limit(it) - it.index + 1
    BY ONLY <1>1, <1>3, <1>5
  <2> QED  BY ONLY <2>1, <1>5
<1>7. 1 <= it.index /\ it.index <= Len(observers_) + 1  BY <1>0, <1>2
<1> QED  BY ONLY <1>1, <1>3, <1>5, <1>6, <1>7 DEF it

(* The loops as the abstract list sees them.                               *)
LEMMA LoopsAre ==
  ASSUME Observing!IInv
  PROVE  /\ Observing!Running \in Seq([calling : Observers \union {NULL}, owed : Seq(Observers)])
         /\ Len(Observing!Running) = Observing!Depth
         /\ DOMAIN Observing!Running = 1 .. Observing!Depth
         /\ \A n \in 1 .. Observing!Depth :
              Observing!Running[n]
                  = [calling |-> iterators[n].obs, owed |-> Observing!Owed(iterators[n])]
         /\ Observing!List!InClient <=> Observing!InClient
         /\ Observing!Depth > 0
              => Observing!List!Top
                  = [calling |-> Observing!It.obs, owed |-> Observing!Owed(Observing!It)]
<1>0. /\ Observing!Depth \in Nat
      /\ \A n \in 1 .. Observing!Depth : iterators[n] \in Observing!Iterators
  BY ObserversShapes DEF Observing!IInv
<1>1. ASSUME NEW n \in 1 .. Observing!Depth
      PROVE  /\ Observing!Owed(iterators[n]) \in Seq(Observers)
             /\ iterators[n].obs \in Observers \union {NULL}
  <2>1. iterators[n].obs \in Observers \union {NULL}  BY <1>0 DEF Observing!Iterators
  <2>2. CASE listed
    <3>1. Ahead(iterators[n]) \in Seq(Entries)  BY <2>2, AheadIs
    <3>2. Observing!Owed(iterators[n]) = Observing!NonNull(Ahead(iterators[n]))
      BY <2>2 DEF Observing!Owed, Ahead
    <3> QED  BY <2>1, <3>1, <3>2, NonNulls
  <2>3. CASE ~listed
    <3>1. Observing!Owed(iterators[n]) = <<>>  BY <2>3 DEF Observing!Owed
    <3> QED  BY <2>1, <3>1
  <2> QED  BY <2>2, <2>3
<1> DEFINE F(n) == [calling |-> iterators[n].obs, owed |-> Observing!Owed(iterators[n])]
<1>2. /\ Observing!Running \in Seq([calling : Observers \union {NULL}, owed : Seq(Observers)])
      /\ Len(Observing!Running) = Observing!Depth /\ DOMAIN Observing!Running = 1 .. Observing!Depth
      /\ \A n \in 1 .. Observing!Depth : Observing!Running[n] = F(n)
  <2>1. \A n \in 1 .. Observing!Depth :
           F(n) \in [calling : Observers \union {NULL}, owed : Seq(Observers)]
    BY <1>1
  <2>2. Observing!Running = [n \in 1 .. Observing!Depth |-> F(n)]  BY DEF Observing!Running
  <2> HIDE DEF F
  <2> QED  BY <2>1, <2>2, <1>0
<1>3. Observing!Depth > 0 => Observing!List!Top = F(Observing!Depth) /\ Observing!Running # <<>>
  <2> HIDE DEF F
  <2>1. Observing!Depth > 0
          => Observing!Depth \in 1 .. Observing!Depth /\ 1 \in 1 .. Observing!Depth
    BY <1>0
  <2> QED  BY <2>1, <1>2 DEF Observing!List!Top
<1>4. ~(Observing!Depth > 0) => Observing!Running = <<>>
  <2> HIDE DEF F
  <2> QED  BY <1>0, <1>2
<1>5. Observing!List!InClient <=> Observing!InClient
  <2>1. Observing!Depth > 0 => Observing!List!Top.calling = Observing!It.obs
    BY <1>3 DEF Observing!It
  <2> QED  BY <2>1, <1>3, <1>4 DEF Observing!List!InClient, Observing!InClient
<1>6. Observing!Depth > 0
        => Observing!List!Top
            = [calling |-> Observing!It.obs, owed |-> Observing!Owed(Observing!It)]
  BY <1>3 DEF Observing!It
<1> QED  BY <1>2, <1>5, <1>6

(* Where the loops do not move, only what they owe changes.                *)
LEMMA LoopsStay ==
  ASSUME Observing!IInv, UNCHANGED iterators
  PROVE  /\ DOMAIN Observing!Running = 1 .. Observing!Depth
         /\ Observing!Running' = [n \in 1 .. Observing!Depth |->
                          [calling |-> iterators[n].obs, owed |-> Observing!Owed(iterators[n])']]
         /\ \A n \in 1 .. Observing!Depth :
               /\ Observing!Running[n].owed = Observing!Owed(iterators[n])
                                  /\ \A w : [Observing!Running[n] EXCEPT !.owed = w]
                                              = [calling |-> iterators[n].obs, owed |-> w]
<1>1. /\ DOMAIN Observing!Running = 1 .. Observing!Depth
      /\ \A n \in 1 .. Observing!Depth :
           Observing!Running[n]
               = [calling |-> iterators[n].obs, owed |-> Observing!Owed(iterators[n])]
  BY LoopsAre
<1>2. Observing!Depth' = Observing!Depth  BY DEF Observing!Depth
<1>3. Observing!Running' = [n \in 1 .. Observing!Depth |->
                   [calling |-> iterators[n].obs, owed |-> Observing!Owed(iterators[n])']]
  BY <1>2 DEF Observing!Running
<1> QED  BY <1>1, <1>3

(* ObserverListBase::AddObserver: only loops of type "all" come to owe a   *)
(* call.                                                                   *)
LEMMA AddObserverKeeps ==
  ASSUME Observing!IInv, NEW o \in Observers, Observing!AddObserver(o)
  PROVE  Observing!IInv' /\ Observing!List!Add(o)
<1>0. /\ observers_ \in Seq(Entries) /\ Len(observers_) \in Nat /\ Len(observers_) < MaxSize
      /\ DOMAIN observers_ = 1 .. Len(observers_) /\ MaxSize \in Nat
      /\ listed /\ Observing!InClient /\ observers_' = Append(observers_, o) /\ o \in Entries
      /\ o # NULL
      /\ \A i \in 1 .. Len(observers_) : observers_[i] # o
      /\ iterators \in Seq(Observing!Iterators) /\ Observing!Depth \in Nat
      /\ DOMAIN iterators = 1 .. Observing!Depth
  BY ObserversShapes DEF Observing!IInv, Observing!AddObserver, Observing!Positions, Entries
<1>1. /\ observers_' \in Seq(Entries) /\ Len(observers_') = Len(observers_) + 1
      /\ DOMAIN observers_' = 1 .. Len(observers_) + 1
      /\ \A i \in 1 .. Len(observers_) : observers_'[i] = observers_[i]
      /\ observers_'[Len(observers_) + 1] = o
  BY <1>0, AppendProperties
<1>u. UNCHANGED <<notify_depth_, type_, listed, iterators>>  BY DEF Observing!AddObserver
<1>2. Observing!IInv'
  <2>1. Observing!TypeOK'  BY <1>0, <1>1, <1>u DEF Observing!IInv, Observing!TypeOK, Entries
  <2>2. Observing!HolesOnlyInLoops'
    <3>1. \A i \in DOMAIN observers_' : observers_'[i] = NULL =>
             i \in DOMAIN observers_ /\ observers_[i] = NULL
      BY <1>0, <1>1
    <3> QED  BY <3>1, <1>0, <1>u DEF Observing!IInv, Observing!HolesOnlyInLoops, Observing!Depth
  <2>3. Observing!NobodyTwice'
    <3>1. \A i \in DOMAIN observers_' : i \in DOMAIN observers_ \/ i = Len(observers_) + 1
      BY <1>0, <1>1
    <3> QED  BY <3>1, <1>0, <1>1 DEF Observing!IInv, Observing!NobodyTwice
  <2>4. Observing!LoopsInRange'
    <3>1. ASSUME NEW n \in 1 .. Observing!Depth
          PROVE  /\ iterators[n].index \in 1 .. Len(observers_') + 1
                 /\ IF type_ = "all" THEN iterators[n].max_index = Observing!NumericLimitsMax
                                     ELSE iterators[n].max_index <= Len(observers_')
      <4> DEFINE it == iterators[n]
      <4>1. /\ it.index \in Nat /\ 1 <= it.index /\ it.index <= Len(observers_) + 1
            /\ it.max_index \in Nat
            /\ type_ = "all" => it.max_index = MaxSize + 1
            /\ type_ # "all" => it.max_index <= Len(observers_)
        BY <1>0, AheadIs
      <4> HIDE DEF it
      <4>2. /\ it.index \in 1 .. Len(observers_') + 1
            /\ IF type_ = "all" THEN it.max_index = Observing!NumericLimitsMax
                                ELSE it.max_index <= Len(observers_')
        BY <4>1, <1>0, <1>1 DEF Observing!NumericLimitsMax
      <4> QED  BY <4>2 DEF it
    <3>2. Observing!Depth <= MaxDepth  BY DEF Observing!IInv, Observing!LoopsInRange
    <3> QED
      BY <3>1, <3>2, <1>0, <1>u
         DEF Observing!LoopsInRange, Observing!Depth, Observing!NumericLimitsMax
  <2> QED  BY <2>1, <2>2, <2>3, <2>4 DEF Observing!IInv
<1>3. ASSUME NEW n \in 1 .. Observing!Depth
      PROVE  Observing!Owed(iterators[n])' = IF type_ = "all"
                 THEN Append(Observing!Owed(iterators[n]), o)
                                                     ELSE Observing!Owed(iterators[n])
  <2> DEFINE it == iterators[n]
             a == Ahead(it)
             l == Observing!Limit(it)
             m == Observing!Limit(it)'
             b == SubSeq(observers_', it.index, m)
  <2>1. /\ it.index \in Nat /\ 1 <= it.index /\ it.index <= Len(observers_) + 1
        /\ it.max_index \in Nat
        /\ l \in Nat /\ l <= Len(observers_)
        /\ type_ = "all" => it.max_index = MaxSize + 1 /\ l = Len(observers_)
        /\ type_ # "all" => it.max_index <= Len(observers_) /\ l = it.max_index
        /\ a \in Seq(Entries)
        /\ Len(a) = IF it.index <= l THEN l - it.index + 1 ELSE 0
        /\ \A k \in 1 .. Len(a) : a[k] = observers_[it.index + k - 1]
    BY <1>0, AheadIs
  <2>2. /\ Observing!Owed(it) = Observing!NonNull(a)
        /\ Observing!Owed(iterators[n])' = Observing!NonNull(b)
    BY <1>0, <1>u DEF Observing!Owed, Ahead, Observing!NonNull
  <2>3. m = IF type_ = "all" THEN l + 1 ELSE l
    BY <1>0, <1>1, <1>u, <2>1 DEF Observing!Limit
  <2> HIDE DEF a, l, m
  <2>4. /\ b \in Seq(Entries)
        /\ Len(b) = IF it.index <= m THEN m - it.index + 1 ELSE 0
        /\ \A k \in 1 .. m - it.index + 1 : b[k] = observers_'[it.index + k - 1]
    <3> HIDE DEF it
    <3>1. \A i \in it.index .. m : i \in 1 .. Len(observers_')  BY ONLY <1>1, <2>1, <2>3
    <3>2. \A i \in it.index .. m : observers_'[i] \in Entries  BY <3>1, <1>1
    <3>3. it.index \in Int /\ m \in Int  BY <2>1, <2>3
    <3> QED  BY <3>2, <3>3, SubSeqProperties
  <2> HIDE DEF it, b
  <2>7. /\ Append(a, o) \in Seq(Entries) /\ Len(Append(a, o)) = Len(a) + 1
        /\ \A k \in 1 .. Len(a) : Append(a, o)[k] = a[k]
        /\ Append(a, o)[Len(a) + 1] = o
    <3>1. a \in Seq(Entries) /\ o \in Entries  BY <2>1, <1>0
    <3> QED  BY ONLY <3>1, AppendProperties
  <2>8. PICK x \in Nat, j \in Nat, c \in Nat :
            /\ x = it.index /\ j = Len(a) /\ c = l
            /\ 1 <= x /\ j = IF x <= c THEN c - x + 1 ELSE 0
    <3>1. it.index \in Nat /\ 1 <= it.index /\ l \in Nat
          /\ Len(a) = IF it.index <= l THEN l - it.index + 1 ELSE 0
      BY ONLY <2>1
    <3> QED  BY ONLY <3>1
  <2>5. CASE type_ = "all"
    <3>1. m = l + 1 /\ l = Len(observers_) /\ Len(b) = Len(a) + 1
      <4>1. m = l + 1 /\ l = Len(observers_)  BY ONLY <2>1, <2>3, <2>5
      <4>2. x <= c + 1 /\ Len(b) = IF x <= c + 1 THEN c + 1 - x + 1 ELSE 0
        <5>1. it.index <= Len(observers_) + 1  BY ONLY <2>1
        <5>2. Len(b) = IF it.index <= m THEN m - it.index + 1 ELSE 0  BY ONLY <2>4
        <5>3. x <= c + 1 /\ m = c + 1  BY ONLY <4>1, <5>1, <2>8
        <5>4. Len(b) = IF x <= m THEN m - x + 1 ELSE 0  BY ONLY <5>2, <2>8
        <5> QED  BY ONLY <5>3, <5>4
      <4>3. Len(b) = j + 1  BY ONLY <4>2, <2>8
      <4> QED  BY ONLY <4>1, <4>3, <2>8
    <3>2. ASSUME NEW k \in 1 .. Len(b) PROVE b[k] = Append(a, o)[k]
      <4>1. k \in 1 .. m - it.index + 1  BY <3>1, <2>1, <2>4
      <4>2. b[k] = observers_'[it.index + k - 1]  BY <4>1, <2>4
      <4>3. CASE k <= Len(a)
        <5>1. it.index + k - 1 \in 1 .. Len(observers_) /\ k \in 1 .. Len(a)
          <6>1. k \in 1 .. c + 1 - x + 1 /\ k <= j /\ x <= c + 1
            BY ONLY <4>3, <4>1, <3>1, <2>1, <2>8
          <6>3. k \in Int /\ 1 <= k /\ k <= j  BY ONLY <6>1
          <6>4. j = c - x + 1 \/ j = 0  BY ONLY <6>1, <2>8
          <6>5. x + k - 1 <= c /\ 1 <= x + k - 1  BY ONLY <6>3, <6>4, <2>8
          <6>2. x + k - 1 \in 1 .. c /\ k \in 1 .. j  BY ONLY <6>3, <6>5, <2>8
          <6> QED  BY ONLY <6>2, <2>8, <3>1
        <5>2. Append(a, o)[k] = a[k]  BY <5>1, <2>7
        <5> QED  BY <5>1, <5>2, <4>2, <2>1, <1>1
      <4>4. CASE ~(k <= Len(a))
        <5>1. it.index + k - 1 = Len(observers_) + 1 /\ k = Len(a) + 1
          <6>1. k \in 1 .. c + 1 - x + 1 /\ ~(k <= j) /\ x <= c + 1
            BY ONLY <4>4, <4>1, <3>1, <2>1, <2>8
          <6>3. k \in Int /\ k <= c - x + 2 /\ 1 <= k  BY ONLY <6>1, <2>8
          <6>4. j = c - x + 1  BY ONLY <6>1, <2>8
          <6>5. k >= j + 1  BY ONLY <6>1, <6>3, <6>4
          <6>6. k = j + 1  BY ONLY <6>3, <6>4, <6>5
          <6>2. x + k - 1 = c + 1 /\ k = j + 1  BY ONLY <6>6, <6>4
          <6> QED  BY ONLY <6>2, <2>8, <3>1
        <5>2. Append(a, o)[k] = o  BY <5>1, <2>7
        <5> QED  BY <5>1, <5>2, <4>2, <1>1
      <4> QED  BY <4>3, <4>4
    <3>4. b = Append(a, o)  BY <3>1, <3>2, <2>7, <2>4, SeqEqual
    <3>5. Observing!NonNull(b) = Append(Observing!NonNull(a), o)  BY <3>4, <2>1, NonNulls
    <3> QED  BY <3>5, <2>2, <2>5 DEF it
  <2>6. CASE type_ # "all"
    <3>1. m = l /\ Len(b) = Len(a)  BY <2>1, <2>3, <2>4, <2>6
    <3>2. ASSUME NEW k \in 1 .. Len(b) PROVE b[k] = a[k]
      <4>1. k \in 1 .. m - it.index + 1  BY <3>1, <2>1, <2>4
      <4>2. it.index + k - 1 \in 1 .. Len(observers_)  BY <4>1, <3>1, <2>1
      <4> QED  BY <4>1, <4>2, <3>1, <2>1, <2>4, <1>1
    <3>3. b = a  BY <3>1, <3>2, <2>1, <2>4, SeqEqual
    <3> QED  BY <3>3, <2>2, <2>6 DEF it
  <2> QED  BY <2>5, <2>6
<1>4. Observing!List!Add(o)
  <2> DEFINE J == IF type_ = "all" THEN DOMAIN Observing!Running ELSE {}
  <2>1. o \notin Observing!List!Range(Observing!NonNull(observers_))  BY <1>0, MembersAre
  <2>2. Observing!NonNull(observers_)' = Append(Observing!NonNull(observers_), o)
    BY <1>0, NonNulls DEF Observing!NonNull
  <2>3. Observing!Running' = [i \in DOMAIN Observing!Running |->
                IF i \in J THEN [Observing!Running[i] EXCEPT !.owed = Append(@, o)]
                    ELSE Observing!Running[i]]
    <3>1. /\ DOMAIN Observing!Running = 1 .. Observing!Depth
          /\ Observing!Running' = [n \in 1 .. Observing!Depth |->
                          [calling |-> iterators[n].obs, owed |-> Observing!Owed(iterators[n])']]
          /\ \A n \in 1 .. Observing!Depth :
                /\ Observing!Running[n].owed = Observing!Owed(iterators[n])
                                   /\ \A w : [Observing!Running[n] EXCEPT !.owed = w]
                                               = [calling |-> iterators[n].obs, owed |-> w]
      BY <1>u, LoopsStay
    <3>2. \A n \in 1 .. Observing!Depth :
            Observing!Running[n]
                = [calling |-> iterators[n].obs, owed |-> Observing!Owed(iterators[n])]
      BY LoopsAre
    <3>3. ASSUME NEW n \in 1 .. Observing!Depth
          PROVE  [calling |-> iterators[n].obs, owed |-> Observing!Owed(iterators[n])']
                   = IF n \in J THEN [Observing!Running[n] EXCEPT !.owed = Append(@, o)]
                       ELSE Observing!Running[n]
      <4>1. CASE type_ = "all"
        <5>1. n \in J  BY <3>1, <4>1
        <5>2. [Observing!Running[n] EXCEPT !.owed = Append(@, o)]
                = [calling |-> iterators[n].obs, owed |-> Append(Observing!Owed(iterators[n]), o)]
          BY <3>1
        <5> QED  BY <5>1, <5>2, <4>1, <1>3
      <4>2. CASE type_ # "all"  BY <3>2, <4>2, <1>3
      <4> QED  BY <4>1, <4>2
    <3> HIDE DEF J
    <3> QED  BY <3>1, <3>3
  <2>4. /\ \A i \in DOMAIN Observing!Running :
              Observing!List!MustJoin(Observing!Running[i]) => i \in J
        /\ \A i \in J : Observing!List!MayJoin(Observing!Running[i])
    <3>1. type_ # "pending"  BY DEF Observing!IInv, Observing!TypeOK, Observing!Types
    <3> QED  BY <3>1 DEF Observing!List!MustJoin, Observing!List!MayJoin
  <2>5. J \in SUBSET DOMAIN Observing!Running  OBVIOUS
  <2>6. Observing!List!InClient  BY <1>0, LoopsAre
  <2> HIDE DEF J
  <2> QED  BY <2>1, <2>2, <2>3, <2>4, <2>5, <2>6, <1>0, <1>u DEF Observing!List!Add
<1> QED  BY <1>2, <1>4

(* ---- removing ---- *)
(* What a loop has ahead when entries are nulled.                          *)
LEMMA NulledAhead ==
  ASSUME Observing!IInv, listed, UNCHANGED <<listed, iterators>>, NEW n \in 1 .. Observing!Depth,
         observers_' \in Seq(Entries), Len(observers_') = Len(observers_)
  PROVE  \E a, b \in Seq(Entries) :
           /\ Observing!Owed(iterators[n]) = Observing!NonNull(a)
           /\ Observing!Owed(iterators[n])' = Observing!NonNull(b)
           /\ Len(a) = Len(b)
           /\ \A k \in 1 .. Len(a) : \E i \in 1 .. Len(observers_) :
                a[k] = observers_[i] /\ b[k] = observers_'[i]
<1> DEFINE it == iterators[n]
           a == Ahead(it)
           l == Observing!Limit(it)
           b == SubSeq(observers_', it.index, l)
<1>1. /\ it.index \in Nat /\ 1 <= it.index /\ it.index <= Len(observers_) + 1
      /\ l \in Nat /\ l <= Len(observers_)
      /\ a \in Seq(Entries)
      /\ Len(a) = IF it.index <= l THEN l - it.index + 1 ELSE 0
      /\ \A k \in 1 .. Len(a) : a[k] = observers_[it.index + k - 1]
      /\ Len(observers_) \in Nat
  BY AheadIs, ObserversShapes DEF Observing!IInv
<1>2. Observing!Limit(it)' = l  BY DEF Observing!Limit
<1>3. Observing!Owed(it) = Observing!NonNull(a)
        /\ Observing!Owed(iterators[n])' = Observing!NonNull(b)
  BY <1>2 DEF Observing!Owed, Ahead, Observing!NonNull
<1> HIDE DEF a, l
<1>4. /\ b \in Seq(Entries)
      /\ Len(b) = IF it.index <= l THEN l - it.index + 1 ELSE 0
      /\ \A k \in 1 .. l - it.index + 1 : b[k] = observers_'[it.index + k - 1]
  <2>1. \A i \in it.index .. l : i \in 1 .. Len(observers_')  BY <1>1
  <2>2. \A i \in it.index .. l : observers_'[i] \in Entries  BY <2>1
  <2>3. it.index \in Int /\ l \in Int  BY <1>1
  <2> HIDE DEF it
  <2>4. ASSUME NEW s, s = observers_' PROVE
          /\ SubSeq(s, it.index, l) \in Seq(Entries)
          /\ Len(SubSeq(s, it.index, l)) = IF it.index <= l THEN l - it.index + 1 ELSE 0
          /\ \A k \in 1 .. l - it.index + 1 : SubSeq(s, it.index, l)[k] = s[it.index + k - 1]
    <3>1. \A i \in it.index .. l : s[i] \in Entries  BY <2>2, <2>4
    <3> QED  BY ONLY <3>1, <2>3, SubSeqProperties
  <2> QED  BY <2>4
<1> HIDE DEF it, b
<1>5. ASSUME NEW k \in 1 .. Len(a)
      PROVE  \E i \in 1 .. Len(observers_) : a[k] = observers_[i] /\ b[k] = observers_'[i]
  <2>1. it.index + k - 1 \in 1 .. Len(observers_) /\ k \in 1 .. l - it.index + 1
    <3>1. PICK x, c, e :
            /\ x = it.index /\ c = l /\ e = Len(observers_)
            /\ x \in Nat /\ c \in Nat /\ e \in Nat /\ 1 <= x /\ c <= e
            /\ Len(a) = IF x <= c THEN c - x + 1 ELSE 0
      BY <1>1
    <3>4. PICK d : d = Len(a)  OBVIOUS
    <3>5. k \in 1 .. d /\ d = IF x <= c THEN c - x + 1 ELSE 0  BY <3>1, <3>4
    <3>2. k \in Int /\ 1 <= k /\ k <= c - x + 1  BY ONLY <3>1, <3>5
    <3>3. x + k - 1 \in 1 .. e /\ k \in 1 .. c - x + 1  BY ONLY <3>1, <3>2
    <3> QED  BY ONLY <3>1, <3>3
  <2> QED  BY <2>1, <1>1, <1>4
<1>6. Len(a) = Len(b)  BY <1>1, <1>4
<1>7. /\ Observing!Owed(iterators[n]) = Observing!NonNull(a)
      /\ Observing!Owed(iterators[n])' = Observing!NonNull(b)
  BY <1>3 DEF it
<1> QED  BY <1>1, <1>4, <1>5, <1>6, <1>7

(* The vector may lose entries, in loops if their places stay.             *)
LEMMA LosesKeeps ==
  ASSUME Observing!IInv, listed, UNCHANGED <<notify_depth_, type_, listed, iterators>>,
         observers_' \in Seq(Entries),
         Len(observers_') <= Len(observers_),
         Observing!Depth > 0 => Len(observers_') = Len(observers_),
         Observing!Depth = 0 => \A i \in 1 .. Len(observers_') : observers_'[i] # NULL,
         \A i, j \in 1 .. Len(observers_') :
            observers_'[i] = observers_'[j] => i = j \/ observers_'[i] = NULL
  PROVE  Observing!IInv'
<1>0. /\ Len(observers_) \in Nat /\ Len(observers_') \in Nat /\ MaxSize \in Nat
      /\ DOMAIN observers_' = 1 .. Len(observers_') /\ Observing!Depth \in Nat
      /\ DOMAIN iterators = 1 .. Observing!Depth
  BY ObserversShapes DEF Observing!IInv
<1>1. Observing!TypeOK'  BY <1>0 DEF Observing!IInv, Observing!TypeOK, Entries
<1>2. Observing!HolesOnlyInLoops'
  BY <1>0 DEF Observing!IInv, Observing!HolesOnlyInLoops, Observing!Depth
<1>3. Observing!NobodyTwice'  BY <1>0 DEF Observing!NobodyTwice
<1>4. Observing!LoopsInRange'
  <2>1. Observing!Depth <= MaxDepth /\ Observing!Depth' = Observing!Depth
    BY DEF Observing!IInv, Observing!LoopsInRange, Observing!Depth
  <2>2. ASSUME NEW n \in 1 .. Observing!Depth
        PROVE  /\ iterators[n].index \in 1 .. Len(observers_') + 1
               /\ IF type_ = "all" THEN iterators[n].max_index = Observing!NumericLimitsMax
                                   ELSE iterators[n].max_index <= Len(observers_')
    <3>1. Len(observers_') = Len(observers_)  BY <1>0
    <3> QED  BY <3>1, <1>0 DEF Observing!IInv, Observing!LoopsInRange
  <2> QED  BY <2>1, <2>2, <1>0 DEF Observing!LoopsInRange, Observing!NumericLimitsMax
<1> QED  BY <1>1, <1>2, <1>3, <1>4 DEF Observing!IInv

(* Without a loop nobody is owed a call.                                   *)
LEMMA NoLoopsRun ==
  ASSUME Observing!IInv, listed, notify_depth_ = 0
  PROVE  Observing!Depth = 0 /\ Observing!Running = <<>>
<1>1. Observing!Depth = 0  BY DEF Observing!IInv, Observing!HolesOnlyInLoops
<1>2. Observing!Running \in Seq([calling : Observers \union {NULL}, owed : Seq(Observers)])
      /\ Len(Observing!Running) = 0
  BY <1>1, LoopsAre
<1> QED  BY <1>1, <1>2

(* RemoveObserver leaves a hole under a loop and erases otherwise.         *)
LEMMA RemoveObserverKeeps ==
  ASSUME Observing!IInv, NEW o \in Observers, Observing!RemoveObserver(o)
  PROVE  Observing!IInv' /\ Observing!List!Remove(o)
<1>0. /\ observers_ \in Seq(Entries) /\ Len(observers_) \in Nat
      /\ DOMAIN observers_ = 1 .. Len(observers_) /\ o # NULL /\ NULL \in Entries
      /\ listed /\ Observing!InClient /\ notify_depth_ \in Nat
      /\ iterators \in Seq(Observing!Iterators) /\ Observing!Depth \in Nat
      /\ DOMAIN iterators = 1 .. Observing!Depth
      /\ notify_depth_ = Observing!Depth
  BY ObserversShapes
     DEF Observing!IInv, Observing!RemoveObserver, Entries, Observing!TypeOK,
         Observing!HolesOnlyInLoops
<1>u. UNCHANGED <<notify_depth_, type_, listed, iterators>>  BY DEF Observing!RemoveObserver
<1>1. PICK i \in 1 .. Len(observers_) :
        /\ observers_[i] = o
        /\ observers_' = IF notify_depth_ > 0 THEN [observers_ EXCEPT ![i] = NULL]
             ELSE SubSeq(observers_, 1, i - 1) \o SubSeq(observers_, i + 1, Len(observers_))
  BY <1>0 DEF Observing!RemoveObserver, Observing!Positions
<1>2. \A k \in 1 .. Len(observers_) : observers_[k] = o => k = i
  BY <1>0, <1>1 DEF Observing!IInv, Observing!NobodyTwice
<1>3. Observing!List!InClient  BY <1>0, LoopsAre
<1>4. CASE notify_depth_ > 0
  <2>1. /\ observers_' \in Seq(Entries) /\ Len(observers_') = Len(observers_)
        /\ \A k \in 1 .. Len(observers_) :
             observers_'[k] = IF k = i THEN NULL ELSE observers_[k]
    BY <1>0, <1>1, <1>4, ExceptSeq
  <2>2. \A k \in 1 .. Len(observers_) :
           observers_'[k] = IF observers_[k] = o THEN NULL ELSE observers_[k]
    BY <2>1, <1>1, <1>2
  <2>3. Observing!IInv'
    <3>1. \A k, j \in 1 .. Len(observers_') :
            observers_'[k] = observers_'[j] => k = j \/ observers_'[k] = NULL
      BY <2>1, <1>0 DEF Observing!IInv, Observing!NobodyTwice
    <3>2. Observing!Depth > 0  BY <1>0, <1>4
    <3> QED  BY <2>1, <3>1, <3>2, <1>0, <1>u, LosesKeeps
  <2>4. Observing!NonNull(observers_)' = Observing!List!Without(Observing!NonNull(observers_), o)
    <3>1. Observing!NonNull(observers_)' = Observing!NonNull(observers_')  BY DEF Observing!NonNull
    <3> QED  BY <3>1, <2>1, <2>2, <1>0, NulledIsRemoved
  <2>5. ASSUME NEW n \in 1 .. Observing!Depth
        PROVE  Observing!Owed(iterators[n])'
                   = Observing!List!Without(Observing!Owed(iterators[n]), o)
    <3>1. PICK a, b \in Seq(Entries) :
            /\ Observing!Owed(iterators[n]) = Observing!NonNull(a)
            /\ Observing!Owed(iterators[n])' = Observing!NonNull(b)
            /\ Len(a) = Len(b)
            /\ \A k \in 1 .. Len(a) : \E j \in 1 .. Len(observers_) :
                 a[k] = observers_[j] /\ b[k] = observers_'[j]
      BY <1>0, <1>u, <2>1, NulledAhead
    <3>2. \A k \in 1 .. Len(a) : b[k] = IF a[k] = o THEN NULL ELSE a[k]
      BY <3>1, <2>2
    <3>3. Observing!NonNull(b) = Observing!List!Without(Observing!NonNull(a), o)
      BY <3>1, <3>2, NulledIsRemoved
    <3> QED  BY <3>1, <3>3
  <2>6. Observing!Running' = [n \in DOMAIN Observing!Running |->
                      [Observing!Running[n] EXCEPT !.owed = Observing!List!Without(@, o)]]
    <3>1. /\ DOMAIN Observing!Running = 1 .. Observing!Depth
          /\ Observing!Running' = [n \in 1 .. Observing!Depth |->
                          [calling |-> iterators[n].obs, owed |-> Observing!Owed(iterators[n])']]
          /\ \A n \in 1 .. Observing!Depth :
                /\ Observing!Running[n].owed = Observing!Owed(iterators[n])
                                   /\ \A w : [Observing!Running[n] EXCEPT !.owed = w]
                                               = [calling |-> iterators[n].obs, owed |-> w]
      BY <1>u, LoopsStay
    <3>2. ASSUME NEW n \in 1 .. Observing!Depth
          PROVE  [calling |-> iterators[n].obs, owed |-> Observing!Owed(iterators[n])']
                   = [Observing!Running[n] EXCEPT !.owed = Observing!List!Without(@, o)]
      BY <3>1, <2>5
    <3> QED  BY <3>1, <3>2
  <2> QED  BY <2>3, <2>4, <2>6, <1>0, <1>u, <1>3 DEF Observing!List!Remove
<1>5. CASE ~(notify_depth_ > 0)
  <2>1. observers_' = SubSeq(observers_, 1, i - 1) \o SubSeq(observers_, i + 1, Len(observers_))
    BY <1>1, <1>5
  <2>2. Observing!Depth = 0 /\ Observing!Running = <<>>
    <3>1. notify_depth_ = 0  BY <1>0, <1>5
    <3> QED  BY <3>1, <1>0, NoLoopsRun
  <2>3. PICK a \in Seq(Entries), b \in Seq(Entries) :
          /\ a = SubSeq(observers_, 1, i - 1) /\ b = SubSeq(observers_, i + 1, Len(observers_))
          /\ Len(a) = i - 1 /\ Len(b) = Len(observers_) - i
          /\ \A k \in 1 .. i - 1 : a[k] = observers_[k]
          /\ \A k \in 1 .. Len(observers_) - i : b[k] = observers_[i + k]
    <3>1. Splits(Entries, observers_, i)  BY <1>0, SplitAt
    <3> QED  BY ONLY <3>1 DEF Splits
  <2>4. observers_' = a \o b  BY <2>1, <2>3
  <2>f. /\ i \in 1 .. Len(observers_) /\ Len(observers_) \in Nat
        /\ Len(a) = i - 1 /\ Len(b) = Len(observers_) - i
        /\ \A k \in 1 .. i - 1 : a[k] = observers_[k]
        /\ \A k \in 1 .. Len(observers_) - i : b[k] = observers_[i + k]
    BY <1>0, <2>3
  <2>5. /\ observers_' \in Seq(Entries) /\ Len(observers_') = Len(observers_) - 1
        /\ \A k \in 1 .. Len(observers_) - 1 :
             observers_'[k] = observers_[IF k < i THEN k ELSE k + 1]
    <3>0. a \in Seq(Entries) /\ b \in Seq(Entries)  OBVIOUS
    <3>1. /\ a \o b \in Seq(Entries) /\ Len(a \o b) = Len(a) + Len(b)
          /\ \A k \in 1 .. Len(a) + Len(b) :
               (a \o b)[k] = IF k <= Len(a) THEN a[k] ELSE b[k - Len(a)]
      BY ONLY <3>0, ConcatProperties
    <3>2. ASSUME NEW k \in 1 .. Len(observers_) - 1
          PROVE  (a \o b)[k] = observers_[IF k < i THEN k ELSE k + 1]
      <4>1. k \in 1 .. Len(a) + Len(b)  BY ONLY <2>f, k \in 1 .. Len(observers_) - 1
      <4>2. CASE k < i
        <5>1. k <= Len(a) /\ k \in 1 .. i - 1  BY ONLY <2>f, <4>1, <4>2
        <5> QED  BY ONLY <5>1, <4>1, <4>2, <3>1, <2>f
      <4>3. CASE ~(k < i)
        <5>1. ~(k <= Len(a)) /\ k - Len(a) \in 1 .. Len(observers_) - i
              /\ i + (k - Len(a)) = k + 1
          BY ONLY <2>f, <4>1, <4>3
        <5> QED  BY ONLY <5>1, <4>1, <4>3, <3>1, <2>f
      <4> QED  BY <4>2, <4>3
    <3>3. Len(a \o b) = Len(observers_) - 1  BY ONLY <2>f, <3>1
    <3> QED  BY ONLY <2>4, <3>1, <3>2, <3>3
  <2>6. Observing!IInv'
    <3>1. \A k \in 1 .. Len(observers_) : observers_[k] # NULL
      BY <1>0, <2>2 DEF Observing!IInv, Observing!HolesOnlyInLoops
    <3>2. \A k \in 1 .. Len(observers_') : observers_'[k] # NULL
      <4>1. \A k \in 1 .. Len(observers_) - 1 :
               (IF k < i THEN k ELSE k + 1) \in 1 .. Len(observers_)
        BY ONLY <2>f
      <4> QED  BY <4>1, <3>1, <2>5
    <3>3. \A k, j \in 1 .. Len(observers_') :
            observers_'[k] = observers_'[j] => k = j \/ observers_'[k] = NULL
      <4>1. ASSUME NEW k \in 1 .. Len(observers_'), NEW j \in 1 .. Len(observers_'),
                   observers_'[k] = observers_'[j]
            PROVE  k = j
        <5> DEFINE x == IF k < i THEN k ELSE k + 1
                   y == IF j < i THEN j ELSE j + 1
        <5>1. x \in 1 .. Len(observers_) /\ y \in 1 .. Len(observers_)  BY <2>f, <2>5
        <5>2. observers_[x] = observers_[y]  BY <4>1, <2>5
        <5>3. x = y
          <6> HIDE DEF x, y
          <6> QED  BY <5>1, <5>2, <3>1, <1>0 DEF Observing!IInv, Observing!NobodyTwice
        <5> QED  BY <5>3, <2>f, <2>5
      <4> QED  BY <4>1
    <3> QED  BY <2>5, <3>2, <3>3, <2>2, <1>0, <1>u, LosesKeeps
  <2>7. Observing!NonNull(observers_)' = Observing!List!Without(Observing!NonNull(observers_), o)
    <3>1. Observing!NonNull(observers_)' = Observing!NonNull(observers_')  BY DEF Observing!NonNull
    <3>2. Observing!NonNull(SubSeq(observers_, 1, i - 1)
              \o SubSeq(observers_, i + 1, Len(observers_)))
            = Observing!List!Without(Observing!NonNull(observers_), o)
      BY <1>0, <1>1, <1>2, ErasedIsRemoved
    <3> QED  BY ONLY <3>1, <3>2, <2>1
  <2>8. Observing!Running' = [n \in DOMAIN Observing!Running |->
                      [Observing!Running[n] EXCEPT !.owed = Observing!List!Without(@, o)]]
    <3>1. Observing!Depth' = 0 /\ 1 .. 0 = {}  BY <2>2, <1>u DEF Observing!Depth
    <3>2. Observing!Running' = <<>>  BY <3>1 DEF Observing!Running
    <3>3. DOMAIN Observing!Running = {}  BY <2>2
    <3> QED  BY <3>2, <3>3
  <2> QED  BY <2>6, <2>7, <2>8, <1>0, <1>u, <1>3 DEF Observing!List!Remove
<1> QED  BY <1>4, <1>5

(* Emptied, the list owes nobody a call.                                   *)
LEMMA ClearKeeps ==
  ASSUME Observing!IInv, Observing!Clear
  PROVE  Observing!IInv' /\ Observing!List!Empty(TRUE)
<1>0. /\ observers_ \in Seq(Entries) /\ Len(observers_) \in Nat
      /\ DOMAIN observers_ = 1 .. Len(observers_) /\ NULL \in Entries
      /\ listed /\ Observing!InClient /\ notify_depth_ \in Nat
      /\ iterators \in Seq(Observing!Iterators) /\ Observing!Depth \in Nat
      /\ DOMAIN iterators = 1 .. Observing!Depth
      /\ notify_depth_ = Observing!Depth
  BY ObserversShapes
     DEF Observing!IInv, Observing!Clear, Entries, Observing!TypeOK, Observing!HolesOnlyInLoops
<1>u. UNCHANGED <<notify_depth_, type_, listed, iterators>>  BY DEF Observing!Clear
<1>1. /\ observers_' \in Seq(Entries) /\ Len(observers_') <= Len(observers_)
      /\ \A k \in 1 .. Len(observers_') : observers_'[k] = NULL
      /\ IF Observing!Depth > 0 THEN Len(observers_') = Len(observers_) ELSE Len(observers_') = 0
  <2>1. CASE Observing!Depth > 0
    <3>1. observers_' = [k \in 1 .. Len(observers_) |-> NULL]  BY <1>0, <2>1 DEF Observing!Clear
    <3> QED  BY <3>1, <1>0, <2>1
  <2>2. CASE ~(Observing!Depth > 0)
    <3>1. observers_' = <<>>  BY <1>0, <2>2 DEF Observing!Clear
    <3> QED  BY <3>1, <1>0, <2>2
  <2> QED  BY <2>1, <2>2
<1>2. Observing!IInv'
  <2>1. Observing!Depth = 0 => \A i \in 1 .. Len(observers_') : observers_'[i] # NULL  BY <1>1
  <2> QED  BY <2>1, <1>1, <1>0, <1>u, LosesKeeps
<1>3. Observing!NonNull(observers_)' = <<>>
  <2>1. Observing!NonNull(observers_)' = Observing!NonNull(observers_')  BY DEF Observing!NonNull
  <2> QED  BY <2>1, <1>1, NonNulls
<1>4. ASSUME NEW n \in 1 .. Observing!Depth PROVE Observing!Owed(iterators[n])' = <<>>
  <2>1. Len(observers_') = Len(observers_)  BY <1>1, <1>0
  <2>2. PICK a, b \in Seq(Entries) :
          /\ Observing!Owed(iterators[n]) = Observing!NonNull(a)
          /\ Observing!Owed(iterators[n])' = Observing!NonNull(b)
          /\ Len(a) = Len(b)
          /\ \A k \in 1 .. Len(a) : \E j \in 1 .. Len(observers_) :
               a[k] = observers_[j] /\ b[k] = observers_'[j]
    BY <1>0, <1>u, <1>1, <2>1, NulledAhead
  <2>3. \A k \in 1 .. Len(b) : b[k] = NULL  BY <2>1, <2>2, <1>1
  <2> QED  BY <2>2, <2>3, NonNulls
<1>5. Observing!Running'
          = [n \in DOMAIN Observing!Running |-> [Observing!Running[n] EXCEPT !.owed = <<>>]]
  <2>1. /\ DOMAIN Observing!Running = 1 .. Observing!Depth
        /\ Observing!Running' = [n \in 1 .. Observing!Depth |->
                        [calling |-> iterators[n].obs, owed |-> Observing!Owed(iterators[n])']]
        /\ \A n \in 1 .. Observing!Depth : \A w : [Observing!Running[n] EXCEPT !.owed = w]
                                          = [calling |-> iterators[n].obs, owed |-> w]
    BY <1>u, LoopsStay
  <2> QED  BY <2>1, <1>4
<1>6. Observing!List!InClient  BY <1>0, LoopsAre
<1> QED  BY <1>2, <1>3, <1>5, <1>6, <1>0, <1>u DEF Observing!List!Empty

(* The destructor: the loops left find the list gone and owe nobody a      *)
(* call.                                                                   *)
LEMMA DestroyKeeps ==
  ASSUME Observing!IInv, Observing!Destroy
  PROVE  Observing!IInv' /\ Observing!List!Empty(FALSE)
<1>0. /\ listed /\ Observing!InClient /\ iterators' = iterators /\ type_' = type_ /\ ~listed'
      /\ listed' = FALSE /\ observers_' = <<>> /\ notify_depth_' = 0
      /\ MaxDepth \in Nat /\ MaxSize \in Nat
      /\ iterators \in Seq(Observing!Iterators) /\ Observing!Depth \in Nat
      /\ DOMAIN iterators = 1 .. Observing!Depth
  BY ObserversShapes DEF Observing!IInv, Observing!Destroy
<1>1. Observing!IInv'
  <2>1. Observing!TypeOK'
    <3>1. observers_' \in Seq(Observers \union {NULL}) /\ Len(observers_') = 0  BY <1>0
    <3>2. Len(observers_') <= MaxSize /\ notify_depth_' \in 0 .. MaxDepth  BY <3>1, <1>0
    <3>3. type_' \in Observing!Types /\ iterators' \in Seq(Observing!Iterators)
      BY <1>0 DEF Observing!IInv, Observing!TypeOK
    <3> QED  BY <3>1, <3>2, <3>3, <1>0 DEF Observing!TypeOK
  <2>2. Observing!HolesOnlyInLoops'  BY <1>0 DEF Observing!HolesOnlyInLoops
  <2>3. Observing!NobodyTwice'  BY <1>0 DEF Observing!NobodyTwice
  <2>4. Observing!LoopsInRange'  BY <1>0 DEF Observing!IInv, Observing!LoopsInRange, Observing!Depth
  <2> QED  BY <2>1, <2>2, <2>3, <2>4 DEF Observing!IInv
<1>2. Observing!NonNull(observers_)' = <<>>
  <2>1. Observing!NonNull(observers_)' = Observing!NonNull(<<>>)  BY <1>0 DEF Observing!NonNull
  <2> QED  BY <2>1, NonNulls
<1>3. Observing!Running'
          = [n \in DOMAIN Observing!Running |-> [Observing!Running[n] EXCEPT !.owed = <<>>]]
  <2>1. /\ DOMAIN Observing!Running = 1 .. Observing!Depth
        /\ Observing!Running' = [n \in 1 .. Observing!Depth |->
                        [calling |-> iterators[n].obs, owed |-> Observing!Owed(iterators[n])']]
        /\ \A n \in 1 .. Observing!Depth : \A w : [Observing!Running[n] EXCEPT !.owed = w]
                                          = [calling |-> iterators[n].obs, owed |-> w]
    BY <1>0, LoopsStay
  <2>2. ASSUME NEW n \in 1 .. Observing!Depth PROVE Observing!Owed(iterators[n])' = <<>>
    BY <1>0 DEF Observing!Owed
  <2> QED  BY <2>1, <2>2
<1>4. Observing!List!InClient  BY <1>0, LoopsAre
<1> QED  BY <1>1, <1>2, <1>3, <1>4, <1>0 DEF Observing!List!Empty

(* A loop begins, and owes a call to everybody in the list.                *)
LEMMA ForEachObserverKeeps ==
  ASSUME Observing!IInv, Observing!ForEachObserver
  PROVE  Observing!IInv' /\ Observing!List!Notify
<1>0. /\ observers_ \in Seq(Entries) /\ Len(observers_) \in Nat /\ observers_ # <<>>
      /\ MaxSize \in Nat /\ MaxDepth \in Nat /\ Len(observers_) <= MaxSize
      /\ DOMAIN observers_ = 1 .. Len(observers_)
      /\ listed /\ Observing!InClient /\ Observing!Depth < MaxDepth
      /\ notify_depth_ = Observing!Depth
      /\ iterators \in Seq(Observing!Iterators) /\ Observing!Depth \in Nat
      /\ Len(iterators) = Observing!Depth
      /\ DOMAIN iterators = 1 .. Observing!Depth /\ notify_depth_' = notify_depth_ + 1
  BY ObserversShapes
     DEF Observing!IInv, Observing!ForEachObserver, Observing!TypeOK, Observing!HolesOnlyInLoops,
         Observing!Depth
<1>u. UNCHANGED <<observers_, type_, listed>>  BY DEF Observing!ForEachObserver
<1> DEFINE m == IF type_ = "all" THEN Observing!NumericLimitsMax ELSE Len(observers_)
<1>m. m \in Nat /\ Len(observers_) <= m  BY <1>0 DEF Observing!NumericLimitsMax
<1>i. PICK it : it = [index |-> 1, obs |-> NULL, max_index |-> m]  OBVIOUS
<1>j. /\ it \in Observing!Iterators /\ it.index = 1 /\ it.max_index = m /\ it.obs = NULL
      /\ iterators' = Append(iterators, it)
  BY <1>i, <1>m DEF Observing!Iterators, Observing!ForEachObserver
<1> HIDE DEF m
<1>1. /\ iterators' \in Seq(Observing!Iterators) /\ Len(iterators') = Observing!Depth + 1
      /\ Observing!Depth' = Observing!Depth + 1 /\ DOMAIN iterators' = 1 .. Observing!Depth + 1
      /\ \A n \in 1 .. Observing!Depth : iterators'[n] = iterators[n]
      /\ iterators'[Observing!Depth + 1] = it
  BY <1>0, <1>j, AppendProperties DEF Observing!Depth
<1>2. Observing!IInv'
  <2>1. Observing!TypeOK'
    <3>1. notify_depth_' \in 0 .. MaxDepth  BY <1>0
    <3> QED  BY <3>1, <1>1, <1>u DEF Observing!IInv, Observing!TypeOK
  <2>2. Observing!HolesOnlyInLoops'  BY <1>0, <1>1, <1>u DEF Observing!HolesOnlyInLoops
  <2>3. Observing!NobodyTwice'  BY <1>u DEF Observing!IInv, Observing!NobodyTwice
  <2>4. Observing!LoopsInRange'
    <3>1. Observing!Depth' <= MaxDepth  BY <1>0, <1>1
    <3>2. ASSUME NEW n \in DOMAIN iterators'
          PROVE  /\ iterators'[n].index \in 1..(Len(observers_') + 1)
                 /\ IF type_' = "all" THEN iterators'[n].max_index = Observing!NumericLimitsMax
                                      ELSE iterators'[n].max_index <= Len(observers_')
      <4>1. CASE n \in 1 .. Observing!Depth
        BY <4>1, <1>0, <1>1, <1>u DEF Observing!IInv, Observing!LoopsInRange
      <4>2. CASE n = Observing!Depth + 1
        <5>1. it.index \in 1 .. Len(observers_) + 1  BY <1>0, <1>j
        <5>2. IF type_ = "all" THEN it.max_index = Observing!NumericLimitsMax
                               ELSE it.max_index <= Len(observers_)
          BY <1>0, <1>j DEF m
        <5> QED  BY <5>1, <5>2, <4>2, <1>1, <1>u
      <4> QED  BY <4>1, <4>2, <1>0, <1>1
    <3> QED  BY <3>1, <3>2 DEF Observing!LoopsInRange, Observing!NumericLimitsMax
  <2> QED  BY <2>1, <2>2, <2>3, <2>4 DEF Observing!IInv
<1>3. Observing!Owed(it)' = Observing!NonNull(observers_)
  <2>0. it \in Observing!Iterators  BY <1>j
  <2>1. Observing!Limit(it) = Len(observers_)
    <3>1. it.max_index = m /\ Len(observers_) \in Nat  BY <1>0, <1>j
    <3> QED  BY ONLY <3>1, <1>m DEF Observing!Limit
  <2>2. SubSeq(observers_, 1, Len(observers_)) = observers_
    BY <1>0, SubSeqFull
  <2>3. Observing!Owed(it) = Observing!NonNull(observers_)
    BY <2>1, <2>2, <1>0, <1>j DEF Observing!Owed
  <2>4. Observing!Owed(it)' = Observing!Owed(it)
    BY <1>u DEF Observing!Owed, Observing!Limit, Observing!NonNull
  <2> QED  BY <2>3, <2>4
<1>4. Observing!Running'
          = Append(Observing!Running, [calling |-> NULL, owed |-> Observing!NonNull(observers_)])
  <2>1. PICK d, r, rr :
          /\ d \in Nat /\ d = Observing!Depth /\ r = Observing!Running /\ rr = Observing!Running'
          /\ r \in Seq([calling : Observers \union {NULL}, owed : Seq(Observers)])
          /\ Len(r) = d
          /\ \A n \in 1 .. d :
               r[n] = [calling |-> iterators[n].obs, owed |-> Observing!Owed(iterators[n])]
    BY LoopsAre, <1>0
  <2>2. \A n \in 1 .. d : iterators[n]' = iterators[n]  BY <1>1, <2>1
  <2>3. \A n \in 1 .. d : Observing!Owed(iterators[n])' = Observing!Owed(iterators[n])
    BY <2>2, <1>u DEF Observing!Owed, Observing!Limit, Observing!NonNull
  <2>4. rr = [n \in 1 .. d + 1 |->
                 [calling |-> iterators'[n].obs, owed |-> Observing!Owed(iterators[n])']]
    BY <1>1, <2>1 DEF Observing!Running
  <2> DEFINE last == [calling |-> NULL, owed |-> Observing!NonNull(observers_)]
  <2>5. \A n \in 1 .. d :
          [calling |-> iterators'[n].obs, owed |-> Observing!Owed(iterators[n])'] = r[n]
    BY <2>1, <2>2, <2>3
  <2>6. [calling |-> iterators'[d + 1].obs, owed |-> Observing!Owed(iterators[d + 1])'] = last
    <3>0. iterators[d + 1]' = it  BY <1>1, <2>1
    <3>1. iterators'[d + 1].obs = NULL  BY <3>0, <1>j
    <3>2. Observing!Owed(iterators[d + 1])' = Observing!Owed(it)'
      BY <3>0 DEF Observing!Owed, Observing!Limit
    <3> QED  BY <3>1, <3>2, <1>3
  <2> HIDE DEF last
  <2>7. rr = [n \in 1 .. d + 1 |-> IF n = d + 1 THEN last ELSE r[n]]
    <3> DEFINE F(n) == [calling |-> iterators'[n].obs, owed |-> Observing!Owed(iterators[n])']
               G(n) == IF n = d + 1 THEN last ELSE r[n]
    <3>1. rr = [n \in 1 .. d + 1 |-> F(n)]  BY <2>4
    <3>2. ASSUME NEW n \in 1 .. d + 1 PROVE F(n) = G(n)
      <4>1. CASE n = d + 1  BY <4>1, <2>6
      <4>2. CASE n # d + 1
        <5>1. n \in 1 .. d  BY <2>1, <4>2
        <5> QED  BY <5>1, <4>2, <2>5
      <4> QED  BY <4>1, <4>2
    <3> HIDE DEF F, G
    <3>3. rr = [n \in 1 .. d + 1 |-> G(n)]  BY <3>1, <3>2
    <3> QED  BY <3>3 DEF G
  <2>8. Append(r, last) = [n \in 1 .. d + 1 |-> IF n = d + 1 THEN last ELSE r[n]]
    <3> DEFINE R == [calling : Observers \union {NULL}, owed : Seq(Observers)]
    <3>1. last \in R /\ r \in Seq(R) /\ d \in Nat /\ Len(r) = d
      <4>1. Observing!NonNull(observers_) \in Seq(Observers)  BY <1>0, NonNulls
      <4> QED  BY <4>1, <2>1 DEF last
    <3> HIDE DEF R
    <3>2. /\ Append(r, last) \in Seq(R) /\ Len(Append(r, last)) = d + 1
          /\ \A n \in 1 .. d : Append(r, last)[n] = r[n]
          /\ Append(r, last)[d + 1] = last
      BY ONLY <3>1, AppendProperties
    <3> DEFINE g == [n \in 1 .. d + 1 |-> IF n = d + 1 THEN last ELSE r[n]]
    <3>3. g \in Seq(R) /\ Len(g) = d + 1
      <4>1. \A n \in 1 .. d + 1 : (IF n = d + 1 THEN last ELSE r[n]) \in R
        <5>1. \A n \in 1 .. d + 1 : n # d + 1 => n \in 1 .. d  BY ONLY <3>1
        <5> QED  BY ONLY <5>1, <3>1
      <4> QED  BY ONLY <4>1, <3>1
    <3>4. \A n \in 1 .. d + 1 : Append(r, last)[n] = g[n]
      <4>1. \A n \in 1 .. d + 1 : n # d + 1 => n \in 1 .. d  BY ONLY <3>1
      <4> QED  BY ONLY <4>1, <3>2
    <3> HIDE DEF g
    <3> QED  BY ONLY <3>2, <3>3, <3>4, SeqEqual DEF g
  <2> QED  BY <2>1, <2>7, <2>8 DEF last
<1>5. Observing!NonNull(observers_)' = Observing!NonNull(observers_)  BY <1>u DEF Observing!NonNull
<1>6. Observing!List!InClient  BY <1>0, LoopsAre
<1> QED  BY <1>2, <1>4, <1>5, <1>6, <1>0, <1>u DEF Observing!List!Notify

(* Where only the innermost iterator changes.                              *)
LEMMA InnermostMoves ==
  ASSUME Observing!IInv, Observing!Depth > 0, UNCHANGED <<observers_, type_, listed>>,
         NEW it \in Observing!Iterators, iterators' = [iterators EXCEPT ![Observing!Depth] = it]
  PROVE  /\ iterators' \in Seq(Observing!Iterators) /\ Len(iterators') = Observing!Depth
         /\ Observing!Depth' = Observing!Depth
         /\ DOMAIN iterators' = 1 .. Observing!Depth
         /\ \A n \in 1 .. Observing!Depth :
               iterators'[n] = IF n = Observing!Depth THEN it ELSE iterators[n]
         /\ Observing!Running'
                = [Observing!Running EXCEPT ![Observing!Depth]
                    = [calling |-> it.obs, owed |-> Observing!Owed(it)]]
<1>0. iterators \in Seq(Observing!Iterators) /\ Observing!Depth \in Nat
        /\ Len(iterators) = Observing!Depth
      /\ DOMAIN iterators = 1 .. Observing!Depth /\ Observing!Depth \in 1 .. Observing!Depth
  BY ObserversShapes DEF Observing!IInv, Observing!Depth
<1>1. /\ iterators' \in Seq(Observing!Iterators) /\ Len(iterators') = Observing!Depth
      /\ DOMAIN iterators' = 1 .. Observing!Depth
      /\ \A n \in 1 .. Observing!Depth :
            iterators'[n] = IF n = Observing!Depth THEN it ELSE iterators[n]
  BY <1>0, ExceptSeq
<1>2. Observing!Depth' = Observing!Depth  BY <1>1 DEF Observing!Depth
<1>3. /\ Observing!Running \in Seq([calling : Observers \union {NULL}, owed : Seq(Observers)])
      /\ DOMAIN Observing!Running = 1 .. Observing!Depth
      /\ \A n \in 1 .. Observing!Depth :
           Observing!Running[n]
               = [calling |-> iterators[n].obs, owed |-> Observing!Owed(iterators[n])]
  BY LoopsAre
<1>4. Observing!Running' = [n \in 1 .. Observing!Depth |->
                    [calling |-> iterators'[n].obs, owed |-> Observing!Owed(iterators[n])']]
  BY <1>2 DEF Observing!Running
<1>5. ASSUME NEW n \in 1 .. Observing!Depth
      PROVE  [calling |-> iterators'[n].obs, owed |-> Observing!Owed(iterators[n])']
               = IF n = Observing!Depth THEN [calling |-> it.obs, owed |-> Observing!Owed(it)]
                   ELSE Observing!Running[n]
  <2>1. Observing!Owed(iterators[n])' = IF n = Observing!Depth THEN Observing!Owed(it)
            ELSE Observing!Owed(iterators[n])
    <3>1. iterators[n]' = IF n = Observing!Depth THEN it ELSE iterators[n]  BY <1>1
    <3> QED  BY <3>1 DEF Observing!Owed, Observing!Limit, Observing!NonNull
  <2> QED  BY <2>1, <1>1, <1>3
<1>6. Observing!Running' = [n \in 1 .. Observing!Depth |->
                   IF n = Observing!Depth THEN [calling |-> it.obs, owed |-> Observing!Owed(it)]
                       ELSE Observing!Running[n]]
  BY <1>4, <1>5
<1> DEFINE r == [calling |-> it.obs, owed |-> Observing!Owed(it)]
<1>7. [Observing!Running EXCEPT ![Observing!Depth] = r]
          = [n \in 1 .. Observing!Depth |-> IF n = Observing!Depth THEN r ELSE Observing!Running[n]]
  <2> HIDE DEF r
  <2> QED  BY <1>3
<1> QED  BY <1>1, <1>2, <1>6, <1>7

(* A change of the innermost iterator that stays within the vector.        *)
LEMMA InnermostKeeps ==
  ASSUME Observing!IInv, Observing!Depth > 0,
             UNCHANGED <<observers_, notify_depth_, type_, listed>>,
         NEW it \in Observing!Iterators, iterators' = [iterators EXCEPT ![Observing!Depth] = it],
         it.max_index = Observing!It.max_index,
         listed => it.index \in 1 .. Len(observers_) + 1
  PROVE  Observing!IInv'
<1>0. /\ iterators' \in Seq(Observing!Iterators) /\ Observing!Depth' = Observing!Depth
      /\ DOMAIN iterators' = 1 .. Observing!Depth /\ DOMAIN iterators = 1 .. Observing!Depth
      /\ Observing!Depth \in 1 .. Observing!Depth
      /\ \A n \in 1 .. Observing!Depth :
            iterators'[n] = IF n = Observing!Depth THEN it ELSE iterators[n]
  <2>1. /\ iterators' \in Seq(Observing!Iterators) /\ Observing!Depth' = Observing!Depth
        /\ DOMAIN iterators' = 1 .. Observing!Depth
        /\ \A n \in 1 .. Observing!Depth :
              iterators'[n] = IF n = Observing!Depth THEN it ELSE iterators[n]
    BY InnermostMoves
  <2>2. DOMAIN iterators = 1 .. Observing!Depth /\ Observing!Depth \in Nat
    BY ObserversShapes DEF Observing!IInv
  <2> QED  BY <2>1, <2>2
<1>1. Observing!TypeOK'  BY <1>0 DEF Observing!IInv, Observing!TypeOK
<1>2. Observing!HolesOnlyInLoops'  BY <1>0 DEF Observing!IInv, Observing!HolesOnlyInLoops
<1>3. Observing!NobodyTwice'  BY DEF Observing!IInv, Observing!NobodyTwice
<1>4. Observing!LoopsInRange'
  <2>1. Observing!Depth' <= MaxDepth  BY <1>0 DEF Observing!IInv, Observing!LoopsInRange
  <2>2. ASSUME listed, NEW n \in 1 .. Observing!Depth
        PROVE  /\ iterators'[n].index \in 1..(Len(observers_) + 1)
               /\ IF type_ = "all" THEN iterators'[n].max_index = Observing!NumericLimitsMax
                                   ELSE iterators'[n].max_index <= Len(observers_)
    <3>1. /\ iterators[n].index \in 1..(Len(observers_) + 1)
          /\ IF type_ = "all" THEN iterators[n].max_index = Observing!NumericLimitsMax
                              ELSE iterators[n].max_index <= Len(observers_)
      BY <2>2, <1>0 DEF Observing!IInv, Observing!LoopsInRange
    <3>2. CASE n = Observing!Depth  BY <3>1, <3>2, <2>2, <1>0 DEF Observing!It
    <3>3. CASE n # Observing!Depth  BY <3>1, <3>3, <1>0
    <3> QED  BY <3>2, <3>3
  <2> QED  BY <2>1, <2>2, <1>0 DEF Observing!LoopsInRange, Observing!NumericLimitsMax
<1> QED  BY <1>1, <1>2, <1>3, <1>4 DEF Observing!IInv

(* What an iterator finds first is whom its loop owes the next call.       *)
LEMMA FirstPending ==
  ASSUME Observing!IInv, listed, Observing!Depth > 0, Observing!Pending(Observing!It) # {}
  PROVE  LET i == Observing!Least(Observing!Pending(Observing!It)) IN
         /\ i \in Nat /\ Observing!It.index <= i /\ i <= Observing!Limit(Observing!It)
         /\ observers_[i] \in Observers
         /\ Observing!Owed(Observing!It) # <<>>
         /\ Head(Observing!Owed(Observing!It)) = observers_[i]
         /\ Tail(Observing!Owed(Observing!It))
                = Observing!NonNull(SubSeq(observers_, i + 1, Observing!Limit(Observing!It)))
<1> DEFINE i == Observing!Least(Observing!Pending(Observing!It))
<1>1. PICK x, l, s : x = Observing!It.index /\ l = Observing!Limit(Observing!It)
             /\ s = Ahead(Observing!It)
  OBVIOUS
<1>2. /\ x \in Nat /\ 1 <= x /\ x <= Len(observers_) + 1
      /\ l \in Nat /\ l <= Len(observers_)
      /\ s \in Seq(Entries)
      /\ Len(s) = IF x <= l THEN l - x + 1 ELSE 0
      /\ \A k \in 1 .. Len(s) : s[k] = observers_[x + k - 1]
      /\ observers_ \in Seq(Entries) /\ Len(observers_) \in Nat
  <2>1. Observing!Depth \in 1 .. Observing!Depth  BY ObserversShapes DEF Observing!IInv
  <2> QED  BY <2>1, <1>1, AheadIs, ObserversShapes DEF Observing!It, Observing!IInv
<1>3. /\ i \in x .. l /\ observers_[i] # NULL
      /\ \A j \in x .. l : observers_[j] # NULL => i <= j
  <2>1. Observing!Pending(Observing!It) = {j \in x .. l : observers_[j] # NULL}
    BY <1>1 DEF Observing!Pending
  <2>2. Observing!Pending(Observing!It) \in SUBSET Nat  BY <2>1, <1>2
  <2>3. \E n \in Observing!Pending(Observing!It) : \A m \in Observing!Pending(Observing!It) : n <= m
    BY <2>2, LeastElement
  <2>4. i \in Observing!Pending(Observing!It) /\ \A m \in Observing!Pending(Observing!It) : i <= m
    BY <2>3 DEF Observing!Least
  <2> HIDE DEF i
  <2> QED  BY <2>1, <2>4
<1> HIDE DEF i
<1>4. /\ i \in Nat /\ x <= i /\ i <= l /\ i \in 1 .. Len(observers_)
      /\ observers_[i] \in Observers
  <2>1. i \in Nat /\ x <= i /\ i <= l /\ i \in 1 .. Len(observers_)  BY <1>2, <1>3
  <2> QED  BY <2>1, <1>2, <1>3 DEF Entries
<1> DEFINE j == i - x + 1
<1>5. j \in 1 .. Len(s) /\ x + j - 1 = i  BY <1>2, <1>4
<1>z. x \in Nat /\ 1 <= x /\ l \in Nat /\ Len(s) = l - x + 1 /\ Len(s) \in Nat
  BY <1>2, <1>4
<1>6. s[j] = observers_[i] /\ s[j] \in Observers  BY <1>5, <1>2, <1>4
<1>7. \A k \in 1 .. j - 1 : s[k] \notin Observers
  <2>1. ASSUME NEW k \in 1 .. j - 1 PROVE s[k] = NULL
    <3>1. k \in 1 .. Len(s) /\ x + k - 1 \in x .. l /\ ~(i <= x + k - 1)
      BY ONLY <1>z, <1>4, <1>5, k \in 1 .. j - 1
    <3> QED  BY <3>1, <1>2, <1>3
  <2> QED  BY <2>1, ListsAssumption DEF Observing!ObserverListAssumption
<1>8. /\ Filter(s, Observers) # <<>>
      /\ Head(Filter(s, Observers)) = s[j]
      /\ Tail(Filter(s, Observers)) = Filter(SubSeq(s, j + 1, Len(s)), Observers)
  <2> HIDE DEF j
  <2> QED  BY <1>2, <1>5, <1>6, <1>7, FilterFirst
<1>9. SubSeq(s, j + 1, Len(s)) = SubSeq(observers_, i + 1, l)
  <2>0. /\ i + 1 \in Int /\ l \in Int /\ j + 1 \in Int /\ Len(s) \in Int
        /\ x \in Nat /\ i \in Nat /\ j \in Nat
    BY <1>2, <1>4, <1>5
  <2>1. /\ SubSeq(observers_, i + 1, l) \in Seq(Entries)
        /\ Len(SubSeq(observers_, i + 1, l)) = IF i + 1 <= l THEN l - (i + 1) + 1 ELSE 0
        /\ \A k \in 1 .. l - (i + 1) + 1 :
              SubSeq(observers_, i + 1, l)[k] = observers_[(i + 1) + k - 1]
    <3>1. \A k \in i + 1 .. l : k \in 1 .. Len(observers_)  BY <1>2, <1>4
    <3>2. \A k \in i + 1 .. l : observers_[k] \in Entries  BY <3>1, <1>2
    <3> QED  BY <3>2, <2>0, SubSeqProperties
  <2>2. /\ SubSeq(s, j + 1, Len(s)) \in Seq(Entries)
        /\ Len(SubSeq(s, j + 1, Len(s))) = IF j + 1 <= Len(s) THEN Len(s) - (j + 1) + 1 ELSE 0
        /\ \A k \in 1 .. Len(s) - (j + 1) + 1 : SubSeq(s, j + 1, Len(s))[k] = s[(j + 1) + k - 1]
    <3>1. \A k \in j + 1 .. Len(s) : k \in 1 .. Len(s)  BY <1>2, <1>5
    <3>2. \A k \in j + 1 .. Len(s) : s[k] \in Entries  BY <3>1, <1>2
    <3> HIDE DEF j
    <3> QED  BY <3>2, <2>0, SubSeqProperties
  <2>3. /\ Len(s) = l - x + 1 /\ j = i - x + 1
        /\ Len(s) - (j + 1) + 1 = l - (i + 1) + 1
    BY <1>2, <1>4
  <2> DEFINE a == SubSeq(s, j + 1, Len(s))
             b == SubSeq(observers_, i + 1, l)
  <2>4. ASSUME NEW k \in 1 .. l - (i + 1) + 1 PROVE a[k] = b[k]
    <3>1. (j + 1) + k - 1 \in 1 .. Len(s) /\ x + ((j + 1) + k - 1) - 1 = (i + 1) + k - 1
      BY ONLY <1>z, <2>0, <1>4, k \in 1 .. l - (i + 1) + 1
    <3>2. a[k] = s[(j + 1) + k - 1]  BY <2>2, <2>3
    <3>3. s[(j + 1) + k - 1] = observers_[x + ((j + 1) + k - 1) - 1]  BY <3>1, <1>2
    <3>4. b[k] = observers_[(i + 1) + k - 1]  BY <2>1
    <3> QED  BY ONLY <3>1, <3>2, <3>3, <3>4
  <2>5. Len(a) = Len(b) /\ \A k \in 1 .. Len(a) : k \in 1 .. l - (i + 1) + 1
    <3>1. Len(a) = IF j + 1 <= Len(s) THEN Len(s) - (j + 1) + 1 ELSE 0  BY <2>2
    <3>2. Len(b) = IF i + 1 <= l THEN l - (i + 1) + 1 ELSE 0  BY <2>1
    <3> HIDE DEF a, b, j
    <3>3. j + 1 <= Len(s) <=> i + 1 <= l  BY ONLY <2>0, <2>3
    <3>4. Len(a) = Len(b)  BY ONLY <3>1, <3>2, <3>3, <2>3
    <3>5. ASSUME NEW k \in 1 .. Len(b) PROVE k \in 1 .. l - (i + 1) + 1
      <4>1. CASE i + 1 <= l  BY ONLY <4>1, <3>2, k \in 1 .. Len(b)
      <4>2. CASE ~(i + 1 <= l)
        <5>1. Len(b) = 0  BY ONLY <4>2, <3>2
        <5> QED  BY ONLY <5>1, k \in 1 .. Len(b)
      <4> QED  BY ONLY <4>1, <4>2
    <3> QED  BY ONLY <3>4, <3>5
  <2>6. a \in Seq(Entries) /\ b \in Seq(Entries)  BY <2>1, <2>2
  <2> HIDE DEF a, b
  <2>7. a = b
    <3>1. \A k \in 1 .. Len(a) : a[k] = b[k]  BY ONLY <2>4, <2>5
    <3> QED  BY ONLY <2>5, <2>6, <3>1, SeqEqual
  <2> QED  BY ONLY <2>7 DEF a, b
<1>10. Observing!Owed(Observing!It) = Filter(s, Observers)
  BY <1>1, FilterIsOne DEF Observing!Owed, Observing!NonNull, Ahead
<1>11. Tail(Observing!Owed(Observing!It))
           = Observing!NonNull(SubSeq(observers_, i + 1, Observing!Limit(Observing!It)))
  <2>1. Tail(Observing!Owed(Observing!It)) = Filter(SubSeq(observers_, i + 1, l), Observers)
    BY ONLY <1>8, <1>9, <1>10
  <2> QED  BY <2>1, <1>1, FilterIsOne DEF Observing!NonNull
<1>12. Observing!Owed(Observing!It) # <<>> /\ Head(Observing!Owed(Observing!It)) = observers_[i]
  BY ONLY <1>6, <1>8, <1>10
<1>13. /\ i \in Nat /\ Observing!It.index <= i /\ i <= Observing!Limit(Observing!It)  BY <1>4, <1>1
<1> QED  BY <1>4, <1>11, <1>12, <1>13 DEF i

(* Iterator::GetNext: the loop calls the first that it owes a call.        *)
LEMMA GetNextKeeps ==
  ASSUME Observing!IInv, Observing!GetNext
  PROVE  Observing!IInv' /\ Observing!List!CallNext
<1> DEFINE i == Observing!Least(Observing!Pending(Observing!It))
<1>0. /\ ~Observing!InClient /\ listed /\ Observing!Pending(Observing!It) # {}
      /\ Observing!Depth > 0 /\ Observing!It.obs = NULL
      /\ UNCHANGED <<observers_, notify_depth_, type_, listed>>
      /\ iterators' = [iterators EXCEPT ![Observing!Depth].index = i + 1, ![Observing!Depth].obs
             = observers_[i]]
      /\ iterators \in Seq(Observing!Iterators) /\ DOMAIN iterators = 1 .. Observing!Depth
      /\ Observing!Depth \in 1 .. Observing!Depth
      /\ Len(observers_) \in Nat
  BY ObserversShapes DEF Observing!GetNext, Observing!InClient, Observing!IInv
<1>1. /\ i \in Nat /\ Observing!It.index <= i /\ i <= Observing!Limit(Observing!It)
      /\ observers_[i] \in Observers
      /\ Observing!Owed(Observing!It) # <<>>
      /\ Head(Observing!Owed(Observing!It)) = observers_[i]
      /\ Tail(Observing!Owed(Observing!It))
             = Observing!NonNull(SubSeq(observers_, i + 1, Observing!Limit(Observing!It)))
  BY <1>0, FirstPending
<1> HIDE DEF i
<1>2. PICK it : it = [Observing!It EXCEPT !.index = i + 1, !.obs = observers_[i]]  OBVIOUS
<1>3. Observing!It \in Observing!Iterators /\ Observing!Limit(Observing!It) <= Len(observers_)
        /\ Observing!Limit(Observing!It) \in Nat /\ Observing!It.index \in Nat
  <2>1. Observing!It \in Observing!Iterators  BY <1>0 DEF Observing!It
  <2>2. Observing!Limit(Observing!It) <= Len(observers_) /\ Observing!Limit(Observing!It) \in Nat
    BY <1>0, AheadIs DEF Observing!It
  <2> QED  BY <2>1, <2>2 DEF Observing!Iterators
<1>4. /\ it \in Observing!Iterators /\ it.index = i + 1 /\ it.obs = observers_[i]
      /\ it.max_index = Observing!It.max_index
  <2>1. Observing!It = [index |-> Observing!It.index, max_index |-> Observing!It.max_index,
                        obs |-> Observing!It.obs]
    BY <1>3 DEF Observing!Iterators
  <2>2. it = [index |-> i + 1, max_index |-> Observing!It.max_index, obs |-> observers_[i]]
    BY <2>1, <1>2
  <2>3. Observing!It.max_index \in Nat  BY <1>3 DEF Observing!Iterators
  <2>4. i + 1 \in Nat /\ observers_[i] \in Observers \union {NULL}  BY <1>1
  <2> QED  BY <2>2, <2>3, <2>4 DEF Observing!Iterators
<1>5. iterators' = [iterators EXCEPT ![Observing!Depth] = it]
  BY <1>0, <1>2, <1>3 DEF Observing!It, Observing!Iterators
<1>6. Observing!IInv'
  <2>1. it.index \in 1 .. Len(observers_) + 1  BY <1>0, <1>1, <1>3, <1>4
  <2> QED  BY <2>1, <1>0, <1>4, <1>5, InnermostKeeps
<1>7. Observing!Owed(it) = Tail(Observing!Owed(Observing!It))
  <2>1. Observing!Limit(it) = Observing!Limit(Observing!It)  BY <1>4 DEF Observing!Limit
  <2> QED  BY <2>1, <1>0, <1>1, <1>4 DEF Observing!Owed
<1>8. Observing!Running'
          = [Observing!Running EXCEPT ![Observing!Depth]
              = [calling |-> Head(Observing!Owed(Observing!It)),
                 owed |-> Tail(Observing!Owed(Observing!It))]]
  <2>1. Observing!Running'
            = [Observing!Running EXCEPT ![Observing!Depth]
                = [calling |-> it.obs, owed |-> Observing!Owed(it)]]
    BY <1>0, <1>4, <1>5, InnermostMoves
  <2> QED  BY <2>1, <1>1, <1>4, <1>7
<1>9. /\ ~Observing!List!InClient /\ Observing!List!Top.owed = Observing!Owed(Observing!It)
      /\ Len(Observing!Running) = Observing!Depth
  <2>1. Observing!List!Top = [calling |-> Observing!It.obs, owed |-> Observing!Owed(Observing!It)]
    BY <1>0, LoopsAre
  <2> QED  BY <2>1, <1>0, LoopsAre
<1>10. Observing!NonNull(observers_)' = Observing!NonNull(observers_)  BY <1>0 DEF Observing!NonNull
<1> QED  BY <1>0, <1>1, <1>6, <1>8, <1>9, <1>10 DEF Observing!List!CallNext

(* An observer that returns leaves everything but its loop's call.         *)
LEMMA ObserverReturnsKeeps ==
  ASSUME Observing!IInv, Observing!ObserverReturns
  PROVE  Observing!IInv' /\ Observing!List!CallReturns
<1>0. /\ Observing!Depth > 0 /\ Observing!It.obs # NULL
      /\ UNCHANGED <<observers_, notify_depth_, type_, listed>>
      /\ iterators' = [iterators EXCEPT ![Observing!Depth].obs = NULL]
      /\ iterators \in Seq(Observing!Iterators) /\ DOMAIN iterators = 1 .. Observing!Depth
      /\ Observing!Depth \in 1 .. Observing!Depth
  BY ObserversShapes DEF Observing!ObserverReturns, Observing!IInv
<1>1. PICK it : it = [Observing!It EXCEPT !.obs = NULL]  OBVIOUS
<1>2. Observing!It \in Observing!Iterators  BY <1>0 DEF Observing!It
<1>3. /\ it \in Observing!Iterators /\ it.index = Observing!It.index /\ it.obs = NULL
      /\ it.max_index = Observing!It.max_index
  BY <1>1, <1>2 DEF Observing!Iterators
<1>4. iterators' = [iterators EXCEPT ![Observing!Depth] = it]
  BY <1>0, <1>1, <1>2 DEF Observing!It, Observing!Iterators
<1>5. Observing!IInv'
  <2>1. listed => it.index \in 1 .. Len(observers_) + 1
    BY <1>0, <1>3 DEF Observing!IInv, Observing!LoopsInRange, Observing!It
  <2> QED  BY <2>1, <1>0, <1>3, <1>4, InnermostKeeps
<1>6. Observing!Owed(it) = Observing!Owed(Observing!It)  BY <1>3 DEF Observing!Owed, Observing!Limit
<1>7. Observing!Running'
          = [Observing!Running EXCEPT ![Observing!Depth]
              = [calling |-> NULL, owed |-> Observing!Owed(Observing!It)]]
  <2>1. Observing!Running'
            = [Observing!Running EXCEPT ![Observing!Depth]
                = [calling |-> it.obs, owed |-> Observing!Owed(it)]]
    BY <1>0, <1>3, <1>4, InnermostMoves
  <2> QED  BY <2>1, <1>3, <1>6
<1>8. /\ Observing!List!Top = [calling |-> Observing!It.obs, owed |-> Observing!Owed(Observing!It)]
      /\ Len(Observing!Running) = Observing!Depth
      /\ Observing!Running # <<>>
      /\ Observing!Running[Observing!Depth]
             = [calling |-> Observing!It.obs, owed |-> Observing!Owed(Observing!It)]
      /\ DOMAIN Observing!Running = 1 .. Observing!Depth
  BY <1>0, LoopsAre DEF Observing!It
<1>9. Observing!Running' = [Observing!Running EXCEPT ![Len(Observing!Running)].calling = NULL]
  <2>1. [Observing!Running[Observing!Depth] EXCEPT !.calling = NULL]
            = [calling |-> NULL, owed |-> Observing!Owed(Observing!It)]
    BY <1>8
  <2> QED  BY <2>1, <1>7, <1>8
<1>10. Observing!NonNull(observers_)' = Observing!NonNull(observers_)  BY <1>0 DEF Observing!NonNull
<1> QED  BY <1>0, <1>5, <1>8, <1>9, <1>10 DEF Observing!List!CallReturns

(* ~Iterator: the last loop to end compacts, which removes holes and       *)
(* nobody else.                                                            *)
LEMMA LoopEndsKeeps ==
  ASSUME Observing!IInv, Observing!LoopEnds
  PROVE  Observing!IInv' /\ Observing!List!Finish
<1>0. /\ ~Observing!InClient /\ Observing!Depth > 0 /\ Observing!It.obs = NULL
      /\ (listed => Observing!Pending(Observing!It) = {})
      /\ iterators' = SubSeq(iterators, 1, Observing!Depth - 1)
      /\ UNCHANGED <<type_, listed>>
      /\ iterators \in Seq(Observing!Iterators) /\ DOMAIN iterators = 1 .. Observing!Depth
      /\ Observing!Depth \in 1 .. Observing!Depth
      /\ Len(iterators) = Observing!Depth /\ Observing!Depth \in Nat
      /\ observers_ \in Seq(Entries) /\ Len(observers_) \in Nat /\ Len(observers_) <= MaxSize
      /\ MaxSize \in Nat /\ MaxDepth \in Nat /\ notify_depth_ \in 0 .. MaxDepth
      /\ DOMAIN observers_ = 1 .. Len(observers_)
  BY ObserversShapes
     DEF Observing!LoopEnds, Observing!InClient, Observing!IInv, Observing!TypeOK, Observing!Depth
<1>1. /\ iterators' \in Seq(Observing!Iterators) /\ Len(iterators') = Observing!Depth - 1
      /\ Observing!Depth' = Observing!Depth - 1
      /\ DOMAIN iterators' = 1 .. Observing!Depth - 1
      /\ \A n \in 1 .. Observing!Depth - 1 : iterators'[n] = iterators[n]
  <2>1. \A n \in 1 .. Observing!Depth - 1 : iterators[n] \in Observing!Iterators  BY <1>0
  <2>2. PICK d, s : d \in Nat /\ d = Observing!Depth - 1 /\ s = iterators  BY <1>0
  <2>3. /\ SubSeq(s, 1, d) \in Seq(Observing!Iterators)
        /\ Len(SubSeq(s, 1, d)) = IF 1 <= d THEN d - 1 + 1 ELSE 0
        /\ \A n \in 1 .. d - 1 + 1 : SubSeq(s, 1, d)[n] = s[1 + n - 1]
    <3>1. \A n \in 1 .. d : s[n] \in Observing!Iterators  BY <2>1, <2>2
    <3>2. 1 \in Int /\ d \in Int  BY <2>2
    <3> QED  BY ONLY <3>1, <3>2, SubSeqProperties
  <2>4. Len(SubSeq(s, 1, d)) = d /\ \A n \in 1 .. d : SubSeq(s, 1, d)[n] = s[n]
    <3>1. \A n \in 1 .. d : n \in 1 .. d - 1 + 1 /\ 1 + n - 1 = n  BY ONLY <2>2, d \in Nat
    <3>2. (IF 1 <= d THEN d - 1 + 1 ELSE 0) = d  BY ONLY <2>2, d \in Nat
    <3> QED  BY ONLY <2>3, <3>1, <3>2
  <2>5. iterators' = SubSeq(s, 1, d)  BY <1>0, <2>2
  <2>6. \A n \in 1 .. Observing!Depth - 1 : iterators'[n] = iterators[n]  BY <2>2, <2>4, <2>5
  <2>7. iterators' \in Seq(Observing!Iterators) /\ Len(iterators') = Observing!Depth - 1
    BY <2>2, <2>3, <2>4, <2>5
  <2> QED  BY <2>6, <2>7 DEF Observing!Depth
<1>2. Observing!Owed(Observing!It) = <<>>
  <2>1. CASE listed
    <3>1. PICK it : it = Observing!It  OBVIOUS
    <3>2. /\ it.index \in Nat /\ 1 <= it.index /\ Observing!Limit(it) \in Nat
          /\ Ahead(it) \in Seq(Entries)
          /\ Len(Ahead(it)) = IF it.index <= Observing!Limit(it)
                 THEN Observing!Limit(it) - it.index + 1 ELSE 0
          /\ \A k \in 1 .. Len(Ahead(it)) : Ahead(it)[k] = observers_[it.index + k - 1]
      BY <1>0, <2>1, <3>1, AheadIs DEF Observing!It
    <3>3. \A j \in it.index .. Observing!Limit(it) : observers_[j] = NULL
      BY <1>0, <2>1, <3>1 DEF Observing!Pending
    <3>4. ASSUME NEW k \in 1 .. Len(Ahead(it)) PROVE Ahead(it)[k] = NULL
      <4>1. PICK x, l, n : x = it.index /\ l = Observing!Limit(it) /\ n = Len(Ahead(it))  OBVIOUS
      <4>2. /\ x \in Nat /\ l \in Nat /\ n = IF x <= l THEN l - x + 1 ELSE 0
            /\ k \in 1 .. n
        BY <3>2, <4>1
      <4>3. x + k - 1 \in x .. l  BY ONLY <4>2
      <4> QED  BY <4>1, <4>3, <3>2, <3>3
    <3>5. Observing!NonNull(Ahead(it)) = <<>>  BY <3>2, <3>4, NonNulls
    <3> QED  BY <3>1, <3>5, <2>1 DEF Observing!Owed, Ahead
  <2>2. CASE ~listed  BY <2>2 DEF Observing!Owed
  <2> QED  BY <2>1, <2>2

(* The vector is compacted when no other loop is within it. *)
<1>3. CASE listed /\ Observing!Depth = 1
  <2>1. notify_depth_ = Observing!Depth /\ notify_depth_' = 0
          /\ observers_' = Filter(observers_, Observers)
    <3>1. notify_depth_ = Observing!Depth  BY <1>3 DEF Observing!IInv, Observing!HolesOnlyInLoops
    <3>2. notify_depth_' = notify_depth_ - 1  BY <1>3 DEF Observing!LoopEnds
    <3>3. notify_depth_' = 0  BY <3>1, <3>2, <1>3
    <3> QED
      BY <3>1, <3>3, <1>3, FilterIsOne DEF Observing!LoopEnds, Observing!Compact, Observing!NonNull
  <2>2. PICK s, t : s = observers_ /\ t = observers_'  OBVIOUS
  <2>3. /\ t \in Seq(Observers) /\ Len(t) <= Len(s) /\ Once(t, Observers)
        /\ Observing!NonNull(t) = t /\ Observing!NonNull(s) = t
    <3>1. t = Filter(s, Observers)  BY <2>1, <2>2
    <3>2. s \in Seq(Entries)  BY <1>0, <2>2
    <3>3. Once(s, Observers)
      <4>1. \A i, j \in 1 .. Len(s) : s[i] = s[j] => i = j \/ s[i] = NULL
        BY <1>0, <2>2 DEF Observing!IInv, Observing!NobodyTwice
      <4> QED  BY <4>1, ListsAssumption DEF Once, Observing!ObserverListAssumption
    <3>4. Len(t) <= Len(s) /\ Once(t, Observers)  BY <3>1, <3>2, <3>3, FilterOnce
    <3>5. Observing!NonNull(s) \in Seq(Observers)
            /\ Observing!NonNull(Observing!NonNull(s)) = Observing!NonNull(s)
      BY <3>2, NonNulls
    <3> QED  BY <3>1, <3>4, <3>5, FilterIsOne DEF Observing!NonNull
  <2>4. DOMAIN t = 1 .. Len(t) /\ Len(t) \in Nat  BY <2>3
  <2>5. Observing!Depth' = 0 /\ DOMAIN iterators' = {}  BY <1>1, <1>3
  <2>6. Observing!TypeOK'
    <3>1. t \in Seq(Observers \union {NULL})
      <4>1. Observers \subseteq Observers \union {NULL}  OBVIOUS
      <4> QED  BY <2>3, <4>1, SeqMonotonic
    <3>2. Len(t) <= MaxSize /\ 0 \in 0 .. MaxDepth  BY <1>0, <2>2, <2>3, <2>4
    <3> QED  BY <3>1, <3>2, <2>1, <2>2, <1>0, <1>1 DEF Observing!IInv, Observing!TypeOK
  <2>7. Observing!HolesOnlyInLoops'
    <3>1. \A i \in DOMAIN t : t[i] # NULL
      BY <2>3, <2>4, ListsAssumption DEF Observing!ObserverListAssumption
    <3> QED  BY <3>1, <2>1, <2>2, <2>5 DEF Observing!HolesOnlyInLoops
  <2>8. Observing!NobodyTwice'
    <3>1. \A i, j \in DOMAIN t : t[i] = t[j] => i = j  BY <2>3, <2>4 DEF Once
    <3> QED  BY <3>1, <2>2 DEF Observing!NobodyTwice
  <2>9. Observing!LoopsInRange'  BY <2>5, <1>0 DEF Observing!LoopsInRange
  <2>10. Observing!NonNull(observers_)' = Observing!NonNull(observers_)
    <3>1. Observing!NonNull(observers_)' = Observing!NonNull(observers_')  BY DEF Observing!NonNull
    <3> QED  BY <3>1, <2>2, <2>3
  <2>11. Observing!Running' = SubSeq(Observing!Running, 1, Len(Observing!Running) - 1)
    <3>1. 1 .. 0 = {} /\ Observing!Running' = <<>>  BY <2>5 DEF Observing!Running
    <3>2. Len(Observing!Running) = 1  BY <1>3, LoopsAre
    <3>3. SubSeq(Observing!Running, 1, 0) = <<>>  BY SubSeqEmpty
    <3> QED  BY <3>1, <3>2, <3>3
  <2>12. /\ ~Observing!List!InClient /\ Observing!List!Top.owed = <<>>
    <3>1. Observing!List!Top = [calling |-> Observing!It.obs, owed |-> Observing!Owed(Observing!It)]
      BY <1>0, LoopsAre
    <3> QED  BY <3>1, <1>0, <1>2, LoopsAre
  <2> QED
    BY <2>6, <2>7, <2>8, <2>9, <2>10, <2>11, <2>12, <1>0 DEF Observing!IInv, Observing!List!Finish

(* Otherwise it stays as it is. *)
<1>4. CASE ~(listed /\ Observing!Depth = 1)
  <2>1. /\ observers_' = observers_
        /\ notify_depth_' \in 0 .. MaxDepth
        /\ listed => notify_depth_' = Observing!Depth - 1 /\ Observing!Depth - 1 > 0
    <3>1. CASE listed
      <4>1. notify_depth_ = Observing!Depth  BY <3>1 DEF Observing!IInv, Observing!HolesOnlyInLoops
      <4>2. notify_depth_' = notify_depth_ - 1  BY <3>1 DEF Observing!LoopEnds
      <4>3. notify_depth_' = Observing!Depth - 1 /\ Observing!Depth - 1 > 0
        BY <4>1, <4>2, <3>1, <1>0, <1>4
      <4>4. observers_' = observers_  BY <3>1, <4>3 DEF Observing!LoopEnds
      <4>5. notify_depth_' \in 0 .. MaxDepth  BY <4>1, <4>3, <1>0
      <4> QED  BY <4>3, <4>4, <4>5
    <3>2. CASE ~listed
      <4>1. UNCHANGED <<notify_depth_, observers_>>  BY <3>2 DEF Observing!LoopEnds
      <4> QED  BY <4>1, <3>2, <1>0
    <3> QED  BY <3>1, <3>2
  <2>2. Observing!TypeOK'  BY <2>1, <1>0, <1>1 DEF Observing!IInv, Observing!TypeOK
  <2>3. Observing!HolesOnlyInLoops'
    <3>1. Observing!Depth' = Observing!Depth - 1 /\ listed' = listed  BY <1>0, <1>1
    <3> QED  BY <3>1, <2>1, <1>0 DEF Observing!HolesOnlyInLoops
  <2>4. Observing!NobodyTwice'  BY <2>1 DEF Observing!IInv, Observing!NobodyTwice
  <2>5. Observing!LoopsInRange'
    <3>1. Observing!Depth' <= MaxDepth  BY <1>0, <1>1 DEF Observing!IInv, Observing!LoopsInRange
    <3>2. \A n \in 1 .. Observing!Depth - 1 : n \in DOMAIN iterators  BY <1>0
    <3> QED
      BY <3>1, <3>2, <2>1, <1>0, <1>1
         DEF Observing!IInv, Observing!LoopsInRange, Observing!NumericLimitsMax
  <2>6. Observing!NonNull(observers_)' = Observing!NonNull(observers_)
    BY <2>1 DEF Observing!NonNull
  <2>7. Observing!Running' = SubSeq(Observing!Running, 1, Len(Observing!Running) - 1)
    <3>1. PICK d, r, rr :
            /\ d \in Nat /\ d = Observing!Depth - 1
            /\ r = Observing!Running /\ rr = Observing!Running'
            /\ r \in Seq([calling : Observers \union {NULL}, owed : Seq(Observers)])
            /\ Len(r) = d + 1
            /\ \A n \in 1 .. d + 1 :
                 r[n] = [calling |-> iterators[n].obs, owed |-> Observing!Owed(iterators[n])]
      BY LoopsAre, <1>0
    <3>2. \A n \in 1 .. d : iterators[n]' = iterators[n]  BY <1>1, <3>1
    <3>3. \A n \in 1 .. d : Observing!Owed(iterators[n])' = Observing!Owed(iterators[n])
      BY <3>2, <2>1, <1>0 DEF Observing!Owed, Observing!Limit, Observing!NonNull
    <3>4. rr = [n \in 1 .. d |->
                   [calling |-> iterators'[n].obs, owed |-> Observing!Owed(iterators[n])']]
      BY <1>1, <3>1 DEF Observing!Running
    <3>5. ASSUME NEW n \in 1 .. d
          PROVE  [calling |-> iterators'[n].obs, owed |-> Observing!Owed(iterators[n])'] = r[n]
      <4>1. n \in 1 .. d + 1  BY <3>1
      <4> QED  BY <4>1, <3>1, <3>2, <3>3
    <3>6. rr = [n \in 1 .. d |-> r[n]]  BY <3>4, <3>5
    <3>7. SubSeq(r, 1, d) = [n \in 1 .. d |-> r[n]]
      BY ONLY <3>1
    <3> QED  BY ONLY <3>1, <3>6, <3>7
  <2>8. /\ ~Observing!List!InClient /\ Observing!List!Top.owed = <<>>
    <3>1. Observing!List!Top = [calling |-> Observing!It.obs, owed |-> Observing!Owed(Observing!It)]
      BY <1>0, LoopsAre
    <3> QED  BY <3>1, <1>0, <1>2, LoopsAre
  <2> QED
    BY <2>2, <2>3, <2>4, <2>5, <2>6, <2>7, <2>8, <1>0 DEF Observing!IInv, Observing!List!Finish
<1> QED  BY <1>3, <1>4

(* Every step keeps the invariant and is a step of the abstract list, or   *)
(* none.                                                                   *)
LEMMA ObserversStep ==
  ASSUME Observing!IInv, [Observing!Next]_(Observing!vars)
  PROVE  Observing!IInv' /\ [Observing!List!Next]_(Observing!List!vars)
<1>1. CASE Observing!Next
  <2>1. ASSUME NEW o \in Observers, Observing!AddObserver(o)
        PROVE  Observing!IInv' /\ Observing!List!Next
    BY <2>1, AddObserverKeeps DEF Observing!List!Next
  <2>2. ASSUME NEW o \in Observers, Observing!RemoveObserver(o)
        PROVE  Observing!IInv' /\ Observing!List!Next
    BY <2>2, RemoveObserverKeeps DEF Observing!List!Next
  <2>3. CASE Observing!Clear  BY <2>3, ClearKeeps DEF Observing!List!Next
  <2>4. CASE Observing!Destroy  BY <2>4, DestroyKeeps DEF Observing!List!Next
  <2>5. CASE Observing!ForEachObserver  BY <2>5, ForEachObserverKeeps DEF Observing!List!Next
  <2>6. CASE Observing!GetNext  BY <2>6, GetNextKeeps DEF Observing!List!Next
  <2>7. CASE Observing!ObserverReturns  BY <2>7, ObserverReturnsKeeps DEF Observing!List!Next
  <2>8. CASE Observing!LoopEnds  BY <2>8, LoopEndsKeeps DEF Observing!List!Next
  <2> QED  BY <1>1, <2>1, <2>2, <2>3, <2>4, <2>5, <2>6, <2>7, <2>8 DEF Observing!Next
<1>2. CASE UNCHANGED Observing!vars
  <2>1. Observing!IInv'
    BY <1>2
       DEF Observing!vars, Observing!IInv, Observing!TypeOK, Observing!HolesOnlyInLoops,
           Observing!NobodyTwice, Observing!LoopsInRange, Observing!Depth
  <2>2. UNCHANGED Observing!List!vars
    <3>1. Observing!Running' = Observing!Running
      BY <1>2
         DEF Observing!vars, Observing!Running, Observing!Depth, Observing!Owed, Observing!Limit,
             Observing!NonNull
    <3>2. Observing!NonNull(observers_)' = Observing!NonNull(observers_)
      BY <1>2 DEF Observing!vars, Observing!NonNull
    <3> QED  BY <3>1, <3>2, <1>2 DEF Observing!vars, Observing!List!vars
  <2> QED  BY <2>1, <2>2
<1> QED  BY <1>1, <1>2

(* ObserverListBase: the types, holes under loops only, nobody twice,      *)
(* loops in range.                                                         *)
THEOREM ObserversInvariance == Observing!Spec => []Observing!IInv
<1>1. Observing!Init => Observing!IInv  BY ObserversInit
<1>2. Observing!IInv /\ [Observing!Next]_(Observing!vars) => Observing!IInv'  BY ObserversStep
<1> QED  BY <1>1, <1>2, PTL DEF Observing!Spec

(* The list, whatever is added and removed under its loops, is the         *)
(* abstract one.                                                           *)
THEOREM ObserversImplement == Observing!Spec => Observing!CallsWhomItOwes
<1>1. Observing!Init => Observing!List!Init  BY ObserversInit
<1>2. Observing!IInv /\ [Observing!Next]_(Observing!vars)
        => [Observing!List!Next]_(Observing!List!vars)
  BY ObserversStep
<1> QED
  BY <1>1, <1>2, ObserversInvariance, PTL
     DEF Observing!Spec, Observing!CallsWhomItOwes, Observing!List!Spec
-----------------------------------------------------------------------------

(* The types of the parts that the proofs about subscriptions need most.   *)
LEMMA SubscriptionsShapes ==
  ASSUME Subscribing!TypeOK
  PROVE  /\ callbacks_ \in Seq(Nodes) /\ Len(callbacks_) \in Nat
         /\ DOMAIN callbacks_ = 1 .. Len(callbacks_)
         /\ running \in Seq(Subscribing!Iterators) /\ Subscribing!Depth \in Nat
         /\ Len(running) = Subscribing!Depth
         /\ DOMAIN running = 1 .. Subscribing!Depth
         /\ \A k \in 1 .. Subscribing!Depth : running[k] \in Subscribing!Iterators
         /\ MaxDepth \in Nat /\ None \notin Nodes /\ End \notin Nodes
         /\ Subscribing!Listed \subseteq Nodes
BY ListsAssumption
   DEF Subscribing!TypeOK, Subscribing!Depth, Subscribing!CallbackListAssumption, Subscribing!Listed

(* Set, which skips the callbacks that are reset, of the lists that the    *)
(* operations make.                                                        *)
LEMMA WithoutReset ==
  /\ Subscribing!Set(<<>>) = <<>>
  /\ \A s \in Seq(Nodes) :
       /\ Subscribing!Set(s) \in Seq(Nodes)
       /\ (\A i \in 1 .. Len(s) : s[i] \in null) => Subscribing!Set(s) = <<>>
       /\ \A n \in Nodes :
             n \notin null => Subscribing!Set(Append(s, n)) = Append(Subscribing!Set(s), n)
<1>1. Subscribing!Set(<<>>) = <<>>  BY FilterEquations, FilterIsOne DEF Subscribing!Set
<1>2. ASSUME NEW s \in Seq(Nodes)
      PROVE  /\ Subscribing!Set(s) \in Seq(Nodes)
             /\ (\A i \in 1 .. Len(s) : s[i] \in null) => Subscribing!Set(s) = <<>>
             /\ \A n \in Nodes :
                   n \notin null => Subscribing!Set(Append(s, n)) = Append(Subscribing!Set(s), n)
  <2>1. Subscribing!Set(s) \in Seq(Nodes)
    <3>1. Filter(s, Nodes \ null) \in Seq(Nodes \cap (Nodes \ null))  BY FilterType
    <3>2. Nodes \cap (Nodes \ null) \subseteq Nodes  OBVIOUS
    <3> QED  BY <3>1, <3>2, SeqMonotonic, FilterIsOne DEF Subscribing!Set
  <2>2. ASSUME \A i \in 1 .. Len(s) : s[i] \in null PROVE Subscribing!Set(s) = <<>>
    <3>1. \A i \in 1 .. Len(s) : s[i] \notin Nodes \ null  BY <2>2
    <3> QED  BY <3>1, FilterNone, FilterIsOne DEF Subscribing!Set
  <2>3. ASSUME NEW n \in Nodes, n \notin null
        PROVE  Subscribing!Set(Append(s, n)) = Append(Subscribing!Set(s), n)
    <3>1. \A q \in Seq(Nodes), x \in Nodes :
             Filter(Append(q, x), Nodes \ null)
               = IF x \in Nodes \ null THEN Append(Filter(q, Nodes \ null), x)
                                       ELSE Filter(q, Nodes \ null)
      BY FilterEquations
    <3> QED  BY <3>1, <2>3, FilterIsOne DEF Subscribing!Set
  <2> QED  BY <2>1, <2>2, <2>3
<1> QED  BY <1>1, <1>2

(* Where a node of the list is.                                            *)
LEMMA PositionIs ==
  ASSUME Subscribing!IInv
  PROVE  /\ \A n \in Subscribing!Listed : /\ Subscribing!Position(n) \in 1 .. Len(callbacks_)
                              /\ callbacks_[Subscribing!Position(n)] = n
         /\ \A i \in 1 .. Len(callbacks_) :
               callbacks_[i] \in Subscribing!Listed /\ Subscribing!Position(callbacks_[i]) = i
<1>0. DOMAIN callbacks_ = 1 .. Len(callbacks_)  BY SubscriptionsShapes DEF Subscribing!IInv
<1>1. ASSUME NEW n \in Subscribing!Listed
      PROVE  Subscribing!Position(n) \in 1 .. Len(callbacks_)
               /\ callbacks_[Subscribing!Position(n)] = n
  <2>1. \E i \in DOMAIN callbacks_ : callbacks_[i] = n  BY DEF Subscribing!Listed
  <2> QED  BY <2>1, <1>0 DEF Subscribing!Position
<1>2. ASSUME NEW i \in 1 .. Len(callbacks_)
      PROVE  callbacks_[i] \in Subscribing!Listed /\ Subscribing!Position(callbacks_[i]) = i
  <2>1. callbacks_[i] \in Subscribing!Listed  BY <1>0 DEF Subscribing!Listed
  <2>2. /\ Subscribing!Position(callbacks_[i]) \in 1 .. Len(callbacks_)
        /\ callbacks_[Subscribing!Position(callbacks_[i])] = callbacks_[i]
    BY <2>1, <1>1
  <2> QED  BY <2>1, <2>2, <1>0 DEF Subscribing!IInv, Subscribing!NodesOnce
<1> QED  BY <1>1, <1>2

(* What a notification has ahead of it, from its node on.                  *)
LEMMA RestIs ==
  ASSUME Subscribing!IInv, NEW it, it.list_iter \in Subscribing!Listed
  PROVE  LET p == Subscribing!Position(it.list_iter) IN
         /\ p \in 1 .. Len(callbacks_) /\ callbacks_[p] = it.list_iter
         /\ Subscribing!Rest(it) = SubSeq(callbacks_, p, Len(callbacks_))
         /\ Subscribing!Rest(it) \in Seq(Nodes)
         /\ Len(Subscribing!Rest(it)) = Len(callbacks_) - p + 1
         /\ \A k \in 1 .. Len(callbacks_) - p + 1 : Subscribing!Rest(it)[k] = callbacks_[p + k - 1]
<1> DEFINE p == Subscribing!Position(it.list_iter)
<1>1. p \in 1 .. Len(callbacks_) /\ callbacks_[p] = it.list_iter  BY PositionIs
<1>2. Subscribing!Rest(it) = SubSeq(callbacks_, p, Len(callbacks_))  BY DEF Subscribing!Rest
<1> HIDE DEF p
<1>3. PICK s \in Seq(Nodes), l \in Nat : s = callbacks_ /\ l = Len(callbacks_)
  BY SubscriptionsShapes DEF Subscribing!IInv
<1>4. /\ SubSeq(s, p, l) \in Seq(Nodes)
      /\ Len(SubSeq(s, p, l)) = IF p <= l THEN l - p + 1 ELSE 0
      /\ \A k \in 1 .. l - p + 1 : SubSeq(s, p, l)[k] = s[p + k - 1]
  <2>0. p \in 1 .. l  BY <1>1, <1>3
  <2>1. \A k \in p .. l : s[k] \in Nodes
    <3>1. \A k \in p .. l : k \in 1 .. l  BY ONLY <2>0, l \in Nat
    <3> QED  BY <3>1, <1>3
  <2>2. p \in Int /\ l \in Int  BY <2>0
  <2> QED  BY ONLY <2>1, <2>2, SubSeqProperties
<1>5. p <= l  BY <1>1, <1>3
<1> QED  BY <1>1, <1>2, <1>3, <1>4, <1>5 DEF p

(* The notifications as the abstract list sees them.                       *)
LEMMA NotificationsAre ==
  ASSUME Subscribing!IInv
  PROVE  /\ Subscribing!Running \in Seq([calling : Nodes \union {None}, owed : Seq(Nodes)])
         /\ Len(Subscribing!Running) = Subscribing!Depth
         /\ DOMAIN Subscribing!Running = 1 .. Subscribing!Depth
         /\ \A k \in 1 .. Subscribing!Depth :
              Subscribing!Running[k]
                  = [calling |-> running[k].cb, owed |-> Subscribing!Owed(running[k])]
         /\ Subscribing!List!InClient <=> Subscribing!InClient
         /\ Subscribing!Depth > 0
              => /\ Subscribing!List!Top
                  = [calling |-> Subscribing!It.cb, owed |-> Subscribing!Owed(Subscribing!It)]
                         /\ Subscribing!Running # <<>>
<1>0. /\ Subscribing!Depth \in Nat
      /\ \A k \in 1 .. Subscribing!Depth : running[k] \in Subscribing!Iterators
  BY SubscriptionsShapes DEF Subscribing!IInv
<1>1. ASSUME NEW k \in 1 .. Subscribing!Depth
      PROVE  /\ Subscribing!Owed(running[k]) \in Seq(Nodes)
             /\ running[k].cb \in Nodes \union {None}
  <2>1. running[k].cb \in Nodes \union {None}  BY <1>0 DEF Subscribing!Iterators
  <2>2. Subscribing!Rest(running[k]) \in Seq(Nodes)
    <3>1. CASE running[k].list_iter \in Subscribing!Listed  BY <3>1, RestIs
    <3>2. CASE running[k].list_iter \notin Subscribing!Listed  BY <3>2 DEF Subscribing!Rest
    <3> QED  BY <3>1, <3>2
  <2> QED  BY <2>1, <2>2, WithoutReset DEF Subscribing!Owed
<1> DEFINE F(k) == [calling |-> running[k].cb, owed |-> Subscribing!Owed(running[k])]
<1>2. /\ Subscribing!Running \in Seq([calling : Nodes \union {None}, owed : Seq(Nodes)])
      /\ Len(Subscribing!Running) = Subscribing!Depth
      /\ DOMAIN Subscribing!Running = 1 .. Subscribing!Depth
      /\ \A k \in 1 .. Subscribing!Depth : Subscribing!Running[k] = F(k)
  <2>1. \A k \in 1 .. Subscribing!Depth :
           F(k) \in [calling : Nodes \union {None}, owed : Seq(Nodes)]
    BY <1>1
  <2>2. Subscribing!Running = [k \in 1 .. Subscribing!Depth |-> F(k)]  BY DEF Subscribing!Running
  <2> HIDE DEF F
  <2> QED  BY <2>1, <2>2, <1>0
<1>3. Subscribing!Depth > 0
        => Subscribing!List!Top = F(Subscribing!Depth) /\ Subscribing!Running # <<>>
  <2> HIDE DEF F
  <2>1. Subscribing!Depth > 0
          => Subscribing!Depth \in 1 .. Subscribing!Depth /\ 1 \in 1 .. Subscribing!Depth
    BY <1>0
  <2> QED  BY <2>1, <1>2 DEF Subscribing!List!Top
<1>4. ~(Subscribing!Depth > 0) => Subscribing!Running = <<>>
  <2> HIDE DEF F
  <2> QED  BY <1>0, <1>2
<1>5. Subscribing!List!InClient <=> Subscribing!InClient
  <2>1. Subscribing!Depth > 0 => Subscribing!List!Top.calling = Subscribing!It.cb
    BY <1>3 DEF Subscribing!It
  <2> QED  BY <2>1, <1>3, <1>4 DEF Subscribing!List!InClient, Subscribing!InClient
<1>6. Subscribing!Depth > 0
        => Subscribing!List!Top
            = [calling |-> Subscribing!It.cb, owed |-> Subscribing!Owed(Subscribing!It)]
  BY <1>3 DEF Subscribing!It
<1> QED  BY <1>2, <1>3, <1>5, <1>6

(* At first nothing is registered, as in the list it implements.           *)
LEMMA SubscriptionsInit == Subscribing!Init => Subscribing!IInv /\ Subscribing!List!Init
<1> SUFFICES ASSUME Subscribing!Init PROVE Subscribing!IInv /\ Subscribing!List!Init  OBVIOUS
<1>0. /\ callbacks_ = <<>> /\ null = {} /\ active_iterator_count_ = 0 /\ running = <<>>
      /\ MaxDepth \in Nat /\ 0 \in 0 .. MaxDepth
  BY ListsAssumption DEF Subscribing!Init, Subscribing!CallbackListAssumption
<1>1. Subscribing!TypeOK  BY <1>0 DEF Subscribing!TypeOK
<1>2. Subscribing!IteratorsAreValid  BY <1>0 DEF Subscribing!IteratorsAreValid
<1>3. Subscribing!NodesOnce /\ Subscribing!LoopsAreCounted
  BY <1>0 DEF Subscribing!NodesOnce, Subscribing!LoopsAreCounted, Subscribing!Depth
<1>4. Subscribing!List!Init
  <2>1. Subscribing!Depth = 0 /\ 1 .. 0 = {}  BY <1>0 DEF Subscribing!Depth
  <2>2. Subscribing!Running = <<>>  BY <2>1 DEF Subscribing!Running
  <2> QED  BY <2>2, <1>0, WithoutReset DEF Subscribing!List!Init, Subscribing!List!Policies
<1> QED  BY <1>1, <1>2, <1>3, <1>4 DEF Subscribing!IInv

(* Where the loops do not move, only what they owe changes.                *)
LEMMA NotificationsStay ==
  ASSUME Subscribing!IInv, UNCHANGED running
  PROVE  /\ DOMAIN Subscribing!Running = 1 .. Subscribing!Depth
         /\ Subscribing!Running' = [k \in 1 .. Subscribing!Depth |->
                          [calling |-> running[k].cb, owed |-> Subscribing!Owed(running[k])']]
         /\ \A k \in 1 .. Subscribing!Depth :
              /\ Subscribing!Running[k]
                     = [calling |-> running[k].cb, owed |-> Subscribing!Owed(running[k])]
              /\ \A w : [Subscribing!Running[k] EXCEPT !.owed = w]
                     = [calling |-> running[k].cb, owed |-> w]
<1>1. /\ DOMAIN Subscribing!Running = 1 .. Subscribing!Depth
      /\ \A k \in 1 .. Subscribing!Depth :
           Subscribing!Running[k]
               = [calling |-> running[k].cb, owed |-> Subscribing!Owed(running[k])]
  BY NotificationsAre
<1>2. Subscribing!Depth' = Subscribing!Depth  BY DEF Subscribing!Depth
<1>3. Subscribing!Running' = [k \in 1 .. Subscribing!Depth |->
                   [calling |-> running[k].cb, owed |-> Subscribing!Owed(running[k])']]
  BY <1>2 DEF Subscribing!Running
<1> QED  BY <1>1, <1>3

(* CallbackListBase::Add: the notifications that have not reached the end  *)
(* come to owe it a call.                                                  *)
LEMMA AddKeeps ==
  ASSUME Subscribing!IInv, NEW n \in Nodes, Subscribing!Add(n)
  PROVE  Subscribing!IInv' /\ Subscribing!List!Add(n)
<1>0. /\ callbacks_ \in Seq(Nodes) /\ Len(callbacks_) \in Nat
      /\ DOMAIN callbacks_ = 1 .. Len(callbacks_) /\ n \notin Subscribing!Listed
      /\ Subscribing!InClient /\ callbacks_' = Append(callbacks_, n)
      /\ running \in Seq(Subscribing!Iterators) /\ Subscribing!Depth \in Nat
      /\ DOMAIN running = 1 .. Subscribing!Depth
      /\ End \notin Nodes /\ null \subseteq Subscribing!Listed /\ n \notin null
      /\ UNCHANGED <<null, active_iterator_count_, running>>
  BY SubscriptionsShapes DEF Subscribing!IInv, Subscribing!Add, Subscribing!TypeOK
<1>1. /\ callbacks_' \in Seq(Nodes) /\ Len(callbacks_') = Len(callbacks_) + 1
      /\ DOMAIN callbacks_' = 1 .. Len(callbacks_) + 1
      /\ \A i \in 1 .. Len(callbacks_) : callbacks_'[i] = callbacks_[i]
      /\ callbacks_'[Len(callbacks_) + 1] = n
  BY <1>0, AppendProperties
<1>2. Subscribing!Listed' = Subscribing!Listed \union {n}
  <2>1. \A i \in DOMAIN callbacks_' : i \in DOMAIN callbacks_ \/ i = Len(callbacks_) + 1
    BY <1>0, <1>1
  <2>2. \A i \in DOMAIN callbacks_ : i \in DOMAIN callbacks_'  BY <1>0, <1>1
  <2>3. Len(callbacks_) + 1 \in DOMAIN callbacks_'  BY <1>0, <1>1
  <2> QED  BY <2>1, <2>2, <2>3, <1>0, <1>1 DEF Subscribing!Listed
<1>3. Subscribing!IInv'
  <2>1. Subscribing!TypeOK'  BY <1>0, <1>1, <1>2 DEF Subscribing!IInv, Subscribing!TypeOK
  <2>2. Subscribing!IteratorsAreValid'
    BY <1>0, <1>2 DEF Subscribing!IInv, Subscribing!IteratorsAreValid
  <2>3. Subscribing!NodesOnce'
    <3>1. \A i \in DOMAIN callbacks_' : i \in DOMAIN callbacks_ \/ i = Len(callbacks_) + 1
      BY <1>0, <1>1
    <3>2. \A i \in DOMAIN callbacks_ : callbacks_[i] # n  BY <1>0 DEF Subscribing!Listed
    <3> QED  BY <3>1, <3>2, <1>0, <1>1 DEF Subscribing!IInv, Subscribing!NodesOnce
  <2>4. Subscribing!LoopsAreCounted'
    BY <1>0 DEF Subscribing!IInv, Subscribing!LoopsAreCounted, Subscribing!Depth
  <2> QED  BY <2>1, <2>2, <2>3, <2>4 DEF Subscribing!IInv
<1>4. Subscribing!Set(callbacks_)' = Append(Subscribing!Set(callbacks_), n)
  <2>1. Subscribing!Set(callbacks_)' = Subscribing!Set(Append(callbacks_, n))
    BY <1>0 DEF Subscribing!Set
  <2> QED  BY <2>1, <1>0, WithoutReset
<1>5. n \notin Subscribing!List!Range(Subscribing!Set(callbacks_))
  <2>1. PICK t : t = Subscribing!Set(callbacks_)  OBVIOUS
  <2>2. t \in Seq(Nodes)  BY <2>1, <1>0, WithoutReset
  <2>3. ~ \E i \in 1 .. Len(callbacks_) : callbacks_[i] = n  BY <1>0 DEF Subscribing!Listed
  <2>4. ~ \E i \in 1 .. Len(t) : t[i] = n
    <3>1. (\E i \in 1 .. Len(Filter(callbacks_, Nodes \ null)) :
              Filter(callbacks_, Nodes \ null)[i] = n)
            <=> (n \in Nodes \ null /\ \E i \in 1 .. Len(callbacks_) : callbacks_[i] = n)
      <4>1. callbacks_ \in Seq(Nodes)  BY <1>0
      <4>2. \A s \in Seq(Nodes) : \A S, e :
              (\E i \in 1 .. Len(Filter(s, S)) : Filter(s, S)[i] = e)
                <=> (e \in S /\ \E i \in 1 .. Len(s) : s[i] = e)
        BY ONLY FilterElements
      <4>3. PICK q, R : q = callbacks_ /\ R = Nodes \ null  OBVIOUS
      <4>4. (\E i \in 1 .. Len(Filter(q, R)) : Filter(q, R)[i] = n)
              <=> (n \in R /\ \E i \in 1 .. Len(q) : q[i] = n)
        <5>1. q \in Seq(Nodes)  BY <4>1, <4>3
        <5> QED  BY ONLY <5>1, <4>2
      <4> QED  BY ONLY <4>3, <4>4
    <3> QED  BY <3>1, <2>1, <2>3, FilterIsOne DEF Subscribing!Set
  <2>5. n \notin Subscribing!List!Range(t)  BY ONLY <2>2, <2>4 DEF Subscribing!List!Range
  <2> QED  BY ONLY <2>1, <2>5

(* Owed the call are the notifications that are not at the end. *)
<1> DEFINE J == {k \in 1 .. Subscribing!Depth : running[k].list_iter \in Subscribing!Listed}
<1>6. ASSUME NEW k \in 1 .. Subscribing!Depth
      PROVE  Subscribing!Owed(running[k])' = IF k \in J THEN Append(Subscribing!Owed(running[k]), n)
                                              ELSE Subscribing!Owed(running[k])
  <2>1. PICK it : it = running[k]  OBVIOUS
  <2>2. it.list_iter \in Subscribing!Listed \union {End}
    BY <2>1, <1>0 DEF Subscribing!IInv, Subscribing!IteratorsAreValid
  <2>3. Subscribing!Owed(running[k])' = Subscribing!Set(Subscribing!Rest(it)')
    BY <2>1, <1>0 DEF Subscribing!Owed, Subscribing!Rest, Subscribing!Set, Subscribing!Position
  <2>4. CASE it.list_iter \in Subscribing!Listed
    <3>1. PICK p : p = Subscribing!Position(it.list_iter)  OBVIOUS
    <3>2. /\ p \in 1 .. Len(callbacks_) /\ callbacks_[p] = it.list_iter
          /\ Subscribing!Rest(it) \in Seq(Nodes)
          /\ Len(Subscribing!Rest(it)) = Len(callbacks_) - p + 1
          /\ \A j \in 1 .. Len(callbacks_) - p + 1 : Subscribing!Rest(it)[j] = callbacks_[p + j - 1]
      BY <2>4, <3>1, RestIs
    <3>3. /\ Subscribing!Position(it.list_iter)' = p
      <4>1. Subscribing!IInv'
              => \A i \in 1 .. Len(callbacks_') : Subscribing!Position(callbacks_[i])' = i
        <5> SUFFICES ASSUME Subscribing!IInv'
                     PROVE  \A i \in 1 .. Len(callbacks_') :
                               Subscribing!Position(callbacks_[i])' = i
          OBVIOUS
        <5>1. \A i, j \in DOMAIN callbacks_' : callbacks_'[i] = callbacks_'[j] => i = j
          BY DEF Subscribing!IInv, Subscribing!NodesOnce
        <5> QED  BY <5>1, <1>1 DEF Subscribing!Position
      <4>2. p \in 1 .. Len(callbacks_')  BY <3>2, <1>0, <1>1
      <4>3. callbacks_'[p] = it.list_iter  BY <3>2, <1>1
      <4>4. Subscribing!Position(callbacks_[p])' = Subscribing!Position(it.list_iter)'
        BY <4>3 DEF Subscribing!Position
      <4> QED  BY <4>1, <4>2, <4>4, <1>3
    <3>4. Subscribing!Rest(it)' = SubSeq(callbacks_', p, Len(callbacks_'))
      BY <3>3, <2>4, <1>2 DEF Subscribing!Rest
    <3>5. SubSeq(callbacks_', p, Len(callbacks_')) = Append(Subscribing!Rest(it), n)
      <4>1. SubSeq(Append(callbacks_, n), p, Len(callbacks_) + 1)
              = Append(SubSeq(callbacks_, p, Len(callbacks_)), n)
        BY <3>2, <1>0, TailGrows
      <4>2. Subscribing!Rest(it) = SubSeq(callbacks_, p, Len(callbacks_))
        BY <2>4, <3>1 DEF Subscribing!Rest
      <4> QED  BY ONLY <4>1, <4>2, <1>0, <1>1
    <3>6. Subscribing!Set(Append(Subscribing!Rest(it), n))
              = Append(Subscribing!Set(Subscribing!Rest(it)), n)
      BY <3>2, <1>0, WithoutReset
    <3> QED  BY <2>1, <2>3, <2>4, <3>4, <3>5, <3>6 DEF Subscribing!Owed
  <2>5. CASE it.list_iter \notin Subscribing!Listed
    <3>1. it.list_iter \notin Subscribing!Listed'  BY <2>2, <2>5, <1>0, <1>2
    <3>2. Subscribing!Rest(it)' = <<>> /\ Subscribing!Rest(it) = <<>>
      BY <3>1, <2>5 DEF Subscribing!Rest
    <3> QED  BY <2>1, <2>3, <2>5, <3>2, WithoutReset DEF Subscribing!Owed
  <2> QED  BY <2>4, <2>5
<1>7. ASSUME NEW k \in 1 .. Subscribing!Depth, k \notin J PROVE Subscribing!Owed(running[k]) = <<>>
  <2>1. Subscribing!Rest(running[k]) = <<>>  BY <1>7 DEF Subscribing!Rest
  <2> QED  BY <2>1, WithoutReset DEF Subscribing!Owed
<1>8. /\ DOMAIN Subscribing!Running = 1 .. Subscribing!Depth
      /\ Subscribing!Running' = [k \in 1 .. Subscribing!Depth |->
                       [calling |-> running[k].cb, owed |-> Subscribing!Owed(running[k])']]
      /\ \A k \in 1 .. Subscribing!Depth :
           /\ Subscribing!Running[k]
                  = [calling |-> running[k].cb, owed |-> Subscribing!Owed(running[k])]
           /\ \A w : [Subscribing!Running[k] EXCEPT !.owed = w]
                  = [calling |-> running[k].cb, owed |-> w]
  BY <1>0, NotificationsStay
<1>9. J \in SUBSET DOMAIN Subscribing!Running  BY <1>8
<1> HIDE DEF J
<1>10. \A i \in DOMAIN Subscribing!Running :
          Subscribing!List!MustJoin(Subscribing!Running[i]) => i \in J
  BY <1>7, <1>8 DEF Subscribing!List!MustJoin
<1>11. \A i \in J : Subscribing!List!MayJoin(Subscribing!Running[i])
  BY DEF Subscribing!List!MayJoin
<1>12. Subscribing!Running' = [i \in DOMAIN Subscribing!Running |->
          IF i \in J THEN [Subscribing!Running[i] EXCEPT !.owed = Append(@, n)]
              ELSE Subscribing!Running[i]]
  <2>1. ASSUME NEW k \in 1 .. Subscribing!Depth
        PROVE  [calling |-> running[k].cb, owed |-> Subscribing!Owed(running[k])']
                 = IF k \in J THEN [Subscribing!Running[k] EXCEPT !.owed = Append(@, n)]
                     ELSE Subscribing!Running[k]
    <3>1. CASE k \in J
      <4>1. [Subscribing!Running[k] EXCEPT !.owed = Append(@, n)]
               = [calling |-> running[k].cb, owed |-> Append(Subscribing!Owed(running[k]), n)]
        <5>1. Subscribing!Running[k].owed = Subscribing!Owed(running[k])  BY <1>8
        <5>2. [Subscribing!Running[k] EXCEPT !.owed = Append(Subscribing!Owed(running[k]), n)]
                = [calling |-> running[k].cb, owed |-> Append(Subscribing!Owed(running[k]), n)]
          BY <1>8
        <5> QED  BY ONLY <5>1, <5>2
      <4> QED  BY <4>1, <3>1, <1>6
    <3>2. CASE k \notin J  BY <3>2, <1>6, <1>8
    <3> QED  BY <3>1, <3>2
  <2> QED  BY <2>1, <1>8
<1>13. Subscribing!List!InClient  BY <1>0, NotificationsAre
<1> QED  BY <1>3, <1>4, <1>5, <1>9, <1>10, <1>11, <1>12, <1>13 DEF Subscribing!List!Add

(* Destroying a Subscription resets the callback under a notification and  *)
(* erases it otherwise.                                                    *)
LEMMA UnsubscribeKeeps ==
  ASSUME Subscribing!IInv, NEW n \in Nodes, Subscribing!Unsubscribe(n)
  PROVE  Subscribing!IInv' /\ Subscribing!List!Remove(n)
<1>0. /\ callbacks_ \in Seq(Nodes) /\ Len(callbacks_) \in Nat
      /\ DOMAIN callbacks_ = 1 .. Len(callbacks_) /\ n \in Subscribing!Listed /\ n \notin null
      /\ Subscribing!InClient /\ active_iterator_count_ = Subscribing!Depth
      /\ running \in Seq(Subscribing!Iterators) /\ Subscribing!Depth \in Nat
      /\ DOMAIN running = 1 .. Subscribing!Depth
      /\ null \subseteq Subscribing!Listed /\ Subscribing!Listed \subseteq Nodes
      /\ UNCHANGED <<active_iterator_count_, running>>
  BY SubscriptionsShapes
     DEF Subscribing!IInv, Subscribing!Unsubscribe, Subscribing!TypeOK, Subscribing!LoopsAreCounted
<1> DEFINE R == (Nodes \ null) \cap (Nodes \ {n})

(* Without n. *)
<1>1. ASSUME NEW s \in Seq(Nodes)
      PROVE  Subscribing!List!Without(Subscribing!Set(s), n) = Filter(s, R)
  <2>1. Filter(Filter(s, Nodes \ null), Nodes \ {n}) = Filter(s, R)  BY FilterTwice
  <2> HIDE DEF R
  <2> QED  BY <2>1, FilterIsOne DEF Subscribing!Set, Subscribing!List!Without
<1>2. Subscribing!List!InClient  BY <1>0, NotificationsAre
<1>3. /\ DOMAIN Subscribing!Running = 1 .. Subscribing!Depth
      /\ Subscribing!Running' = [k \in 1 .. Subscribing!Depth |->
                       [calling |-> running[k].cb, owed |-> Subscribing!Owed(running[k])']]
      /\ \A k \in 1 .. Subscribing!Depth :
           /\ Subscribing!Running[k]
                  = [calling |-> running[k].cb, owed |-> Subscribing!Owed(running[k])]
           /\ \A w : [Subscribing!Running[k] EXCEPT !.owed = w]
                  = [calling |-> running[k].cb, owed |-> w]
  BY <1>0, NotificationsStay
<1>4. CASE active_iterator_count_ > 0
  <2>1. null' = null \union {n} /\ callbacks_' = callbacks_  BY <1>4 DEF Subscribing!Unsubscribe
  <2>2. Subscribing!Listed' = Subscribing!Listed  BY <2>1 DEF Subscribing!Listed
  <2>3. Subscribing!IInv'
    <3>1. Subscribing!TypeOK'  BY <2>1, <2>2, <1>0 DEF Subscribing!IInv, Subscribing!TypeOK
    <3>2. Subscribing!IteratorsAreValid'
      <4>1. running # <<>>  BY <1>0, <1>4 DEF Subscribing!Depth
      <4> QED  BY <4>1, <2>2, <1>0 DEF Subscribing!IInv, Subscribing!IteratorsAreValid
    <3>3. Subscribing!NodesOnce'  BY <2>1 DEF Subscribing!IInv, Subscribing!NodesOnce
    <3>4. Subscribing!LoopsAreCounted'
      BY <1>0 DEF Subscribing!IInv, Subscribing!LoopsAreCounted, Subscribing!Depth
    <3> QED  BY <3>1, <3>2, <3>3, <3>4 DEF Subscribing!IInv
  <2>4. ASSUME NEW s \in Seq(Nodes)
        PROVE  Subscribing!Set(s)' = Subscribing!List!Without(Subscribing!Set(s), n)
    <3>1. Nodes \ (null \union {n}) = R  OBVIOUS
    <3>2. Subscribing!Set(s)' = Filter(s, R)  BY <3>1, <2>1, FilterIsOne DEF Subscribing!Set
    <3> QED  BY <3>2, <1>1
  <2>5. Subscribing!Set(callbacks_)' = Subscribing!List!Without(Subscribing!Set(callbacks_), n)
    <3>1. PICK s : s = callbacks_  OBVIOUS
    <3>2. Subscribing!Set(callbacks_)' = Subscribing!Set(s)'  BY <3>1, <2>1 DEF Subscribing!Set
    <3> QED  BY <3>1, <3>2, <2>4, <1>0
  <2>6. ASSUME NEW k \in 1 .. Subscribing!Depth
        PROVE  Subscribing!Owed(running[k])'
                   = Subscribing!List!Without(Subscribing!Owed(running[k]), n)
    <3>1. PICK it, s : it = running[k] /\ s = Subscribing!Rest(it)  OBVIOUS
    <3>2. s \in Seq(Nodes)
      <4>1. CASE it.list_iter \in Subscribing!Listed  BY <4>1, <3>1, RestIs
      <4>2. CASE it.list_iter \notin Subscribing!Listed  BY <4>2, <3>1 DEF Subscribing!Rest
      <4> QED  BY <4>1, <4>2
    <3>3. Subscribing!Rest(it)' = s  BY <2>1, <2>2, <3>1 DEF Subscribing!Rest, Subscribing!Position
    <3>4. Subscribing!Owed(running[k])' = Subscribing!Set(s)'
      <4>1. Subscribing!Owed(running[k])' = Subscribing!Owed(it)'
        BY <3>1, <1>0 DEF Subscribing!Owed, Subscribing!Rest, Subscribing!Position
      <4> QED  BY <4>1, <3>3 DEF Subscribing!Owed, Subscribing!Set
    <3> QED  BY <3>1, <3>2, <3>4, <2>4 DEF Subscribing!Owed
  <2>7. Subscribing!Running'
            = [k \in DOMAIN Subscribing!Running
                |-> [Subscribing!Running[k] EXCEPT !.owed = Subscribing!List!Without(@, n)]]
    <3>1. ASSUME NEW k \in 1 .. Subscribing!Depth
          PROVE  [calling |-> running[k].cb, owed |-> Subscribing!Owed(running[k])']
                   = [Subscribing!Running[k] EXCEPT !.owed = Subscribing!List!Without(@, n)]
      <4>1. Subscribing!Running[k].owed = Subscribing!Owed(running[k])  BY <1>3
      <4>2. [Subscribing!Running[k] EXCEPT !.owed
                = Subscribing!List!Without(Subscribing!Owed(running[k]), n)]
              = [calling |-> running[k].cb,
                 owed |-> Subscribing!List!Without(Subscribing!Owed(running[k]), n)]
        BY <1>3
      <4> QED  BY ONLY <4>1, <4>2, <2>6
    <3> QED  BY <3>1, <1>3
  <2> QED  BY <2>3, <2>5, <2>7, <1>2 DEF Subscribing!List!Remove
<1>5. CASE ~(active_iterator_count_ > 0)
  <2>1. callbacks_' = Filter(callbacks_, Nodes \ {n}) /\ null' = null
    BY <1>5, FilterIsOne DEF Subscribing!Unsubscribe
  <2>2. Subscribing!Depth = 0 /\ running = <<>> /\ null = {}
    <3>1. Subscribing!Depth = 0  BY <1>0, <1>5
    <3>2. running = <<>>  BY <3>1, <1>0 DEF Subscribing!Depth
    <3> QED  BY <3>1, <3>2 DEF Subscribing!IInv, Subscribing!IteratorsAreValid
  <2>3. Subscribing!IInv'
    <3>1. /\ callbacks_' \in Seq(Nodes) /\ Once(callbacks_', Nodes \ {n})
          /\ \A i \in 1 .. Len(callbacks_') : callbacks_'[i] \in Nodes \ {n}
      <4>1. callbacks_' \in Seq(Nodes \cap (Nodes \ {n}))  BY <2>1, <1>0, FilterType
      <4>2. Once(callbacks_, Nodes \ {n})  BY <1>0 DEF Subscribing!IInv, Subscribing!NodesOnce, Once
      <4>3. Once(callbacks_', Nodes \ {n})  BY <2>1, <4>2, <1>0, FilterOnce
      <4>4. Nodes \cap (Nodes \ {n}) \subseteq Nodes  OBVIOUS
      <4>5. callbacks_' \in Seq(Nodes)  BY ONLY <4>1, <4>4, SeqMonotonic
      <4> QED  BY <4>1, <4>3, <4>5
    <3>2. Subscribing!TypeOK'  BY <3>1, <2>1, <2>2, <1>0 DEF Subscribing!IInv, Subscribing!TypeOK
    <3>3. Subscribing!IteratorsAreValid'
      BY <2>1, <2>2, <1>0 DEF Subscribing!IInv, Subscribing!IteratorsAreValid
    <3>4. Subscribing!NodesOnce'  BY <3>1 DEF Subscribing!NodesOnce, Once
    <3>5. Subscribing!LoopsAreCounted'
      BY <1>0 DEF Subscribing!IInv, Subscribing!LoopsAreCounted, Subscribing!Depth
    <3> QED  BY <3>2, <3>3, <3>4, <3>5 DEF Subscribing!IInv
  <2>4. Subscribing!Set(callbacks_)' = Subscribing!List!Without(Subscribing!Set(callbacks_), n)
    <3>1. Subscribing!Set(callbacks_)' = Filter(Filter(callbacks_, Nodes \ {n}), Nodes \ null)
      BY <2>1, FilterIsOne DEF Subscribing!Set
    <3>2. Filter(Filter(callbacks_, Nodes \ {n}), Nodes \ null)
            = Filter(callbacks_, (Nodes \ {n}) \cap (Nodes \ null))
      BY <1>0, FilterTwice
    <3>3. (Nodes \ {n}) \cap (Nodes \ null) = R  OBVIOUS
    <3> QED  BY <3>1, <3>2, <3>3, <1>0, <1>1
  <2>5. Subscribing!Running'
            = [k \in DOMAIN Subscribing!Running
                |-> [Subscribing!Running[k] EXCEPT !.owed = Subscribing!List!Without(@, n)]]
    <3>1. 1 .. Subscribing!Depth = {}  BY <2>2
    <3> QED  BY <3>1, <1>3
  <2> QED  BY <2>3, <2>4, <2>5, <1>2 DEF Subscribing!List!Remove
<1> QED  BY <1>4, <1>5

(* Where the list stays, so does what a loop that stays is owed.           *)
LEMMA OwedStays ==
  ASSUME UNCHANGED <<callbacks_, null>>, NEW k, UNCHANGED running[k]
  PROVE  Subscribing!Owed(running[k])' = Subscribing!Owed(running[k])
<1>1. PICK it : it = running[k]  OBVIOUS
<1>2. Subscribing!Owed(it)' = Subscribing!Owed(it)
  BY DEF Subscribing!Owed, Subscribing!Rest, Subscribing!Set, Subscribing!Listed,
     Subscribing!Position
<1>3. running[k]' = it  BY <1>1
<1>4. Subscribing!Owed(running[k])' = Subscribing!Owed(it)'
  BY <1>3 DEF Subscribing!Owed, Subscribing!Rest
<1> QED  BY <1>1, <1>2, <1>4

(* Notify starts by owing a call to everybody who is registered.           *)
LEMMA NotifyKeeps ==
  ASSUME Subscribing!IInv, Subscribing!Notify
  PROVE  Subscribing!IInv' /\ Subscribing!List!Notify
<1>0. /\ callbacks_ \in Seq(Nodes) /\ Len(callbacks_) \in Nat
      /\ DOMAIN callbacks_ = 1 .. Len(callbacks_)
      /\ MaxDepth \in Nat /\ Subscribing!InClient /\ Subscribing!Depth < MaxDepth
      /\ active_iterator_count_ = Subscribing!Depth
      /\ running \in Seq(Subscribing!Iterators) /\ Subscribing!Depth \in Nat
      /\ Len(running) = Subscribing!Depth
      /\ DOMAIN running = 1 .. Subscribing!Depth
      /\ active_iterator_count_' = active_iterator_count_ + 1
      /\ UNCHANGED <<callbacks_, null>> /\ End \notin Nodes /\ Subscribing!Listed \subseteq Nodes
  BY SubscriptionsShapes
     DEF Subscribing!IInv, Subscribing!Notify, Subscribing!TypeOK, Subscribing!LoopsAreCounted
<1>i. PICK it : it = [list_iter |-> Subscribing!NodeAt(1), cb |-> None]  OBVIOUS
<1>j. /\ it.list_iter = Subscribing!NodeAt(1) /\ it.cb = None /\ it \in Subscribing!Iterators
      /\ running' = Append(running, it) /\ it.list_iter \in Subscribing!Listed \union {End}
  <2>1. Subscribing!NodeAt(1) \in Subscribing!Listed \union {End}
    BY DEF Subscribing!NodeAt, Subscribing!Listed
  <2> QED  BY <1>i, <2>1, <1>0 DEF Subscribing!Iterators, Subscribing!Notify
<1>1. /\ running' \in Seq(Subscribing!Iterators) /\ Len(running') = Subscribing!Depth + 1
      /\ Subscribing!Depth' = Subscribing!Depth + 1 /\ DOMAIN running' = 1 .. Subscribing!Depth + 1
      /\ \A k \in 1 .. Subscribing!Depth : running'[k] = running[k]
      /\ running'[Subscribing!Depth + 1] = it /\ running' # <<>>
  BY <1>0, <1>j, AppendProperties DEF Subscribing!Depth
<1>2. Subscribing!IInv'
  <2>0. Subscribing!Listed' = Subscribing!Listed  BY <1>0 DEF Subscribing!Listed
  <2>1. Subscribing!TypeOK'
    <3>1. active_iterator_count_' \in 0 .. MaxDepth  BY <1>0
    <3> QED  BY <3>1, <1>0, <1>1, <2>0 DEF Subscribing!IInv, Subscribing!TypeOK
  <2>2. Subscribing!IteratorsAreValid'
    <3>1. ASSUME NEW k \in DOMAIN running'
          PROVE  /\ running'[k].list_iter \in Subscribing!Listed \union {End}
                 /\ running'[k].cb \in Subscribing!Listed \union {None}
      <4>1. CASE k \in 1 .. Subscribing!Depth
        BY <4>1, <1>0, <1>1 DEF Subscribing!IInv, Subscribing!IteratorsAreValid
      <4>2. CASE k = Subscribing!Depth + 1  BY <4>2, <1>1, <1>j
      <4> QED  BY <4>1, <4>2, <1>0, <1>1
    <3> QED  BY <3>1, <2>0, <1>1 DEF Subscribing!IteratorsAreValid
  <2>3. Subscribing!NodesOnce'  BY <1>0 DEF Subscribing!IInv, Subscribing!NodesOnce
  <2>4. Subscribing!LoopsAreCounted'  BY <1>0, <1>1 DEF Subscribing!LoopsAreCounted
  <2> QED  BY <2>1, <2>2, <2>3, <2>4 DEF Subscribing!IInv
<1>3. Subscribing!Owed(it)' = Subscribing!Set(callbacks_)
  <2>1. Subscribing!Rest(it) = callbacks_
    <3>1. CASE callbacks_ = <<>>
      <4>1. it.list_iter = End  BY <3>1, <1>j DEF Subscribing!NodeAt
      <4>2. it.list_iter \notin Subscribing!Listed  BY <4>1, <1>0
      <4> QED  BY <4>2, <3>1 DEF Subscribing!Rest
    <3>2. CASE callbacks_ # <<>>
      <4>1. 1 \in 1 .. Len(callbacks_)  BY <3>2, <1>0
      <4>2. it.list_iter = callbacks_[1]  BY <4>1, <1>0, <1>j DEF Subscribing!NodeAt
      <4>3. it.list_iter \in Subscribing!Listed /\ Subscribing!Position(it.list_iter) = 1
        BY <4>1, <4>2, PositionIs
      <4>4. SubSeq(callbacks_, 1, Len(callbacks_)) = callbacks_  BY <1>0, SubSeqFull
      <4> QED  BY <4>3, <4>4 DEF Subscribing!Rest
    <3> QED  BY <3>1, <3>2
  <2>2. Subscribing!Owed(it)' = Subscribing!Owed(it)
    BY <1>0
       DEF Subscribing!Owed, Subscribing!Rest, Subscribing!Set, Subscribing!Listed,
           Subscribing!Position
  <2> QED  BY <2>1, <2>2 DEF Subscribing!Owed
<1>4. Subscribing!Running'
          = Append(Subscribing!Running, [calling |-> None, owed |-> Subscribing!Set(callbacks_)])
  <2>1. PICK d, r, rr :
          /\ d \in Nat /\ d = Subscribing!Depth
          /\ r = Subscribing!Running /\ rr = Subscribing!Running'
          /\ r \in Seq([calling : Nodes \union {None}, owed : Seq(Nodes)])
          /\ Len(r) = d
          /\ \A k \in 1 .. d :
               r[k] = [calling |-> running[k].cb, owed |-> Subscribing!Owed(running[k])]
    BY NotificationsAre, <1>0
  <2>2. \A k \in 1 .. d : running[k]' = running[k]  BY <1>1, <2>1
  <2>3. \A k \in 1 .. d : Subscribing!Owed(running[k])' = Subscribing!Owed(running[k])
    BY <2>2, <1>0, OwedStays
  <2>4. rr = [k \in 1 .. d + 1 |->
                 [calling |-> running'[k].cb, owed |-> Subscribing!Owed(running[k])']]
    BY <1>1, <2>1 DEF Subscribing!Running
  <2> DEFINE last == [calling |-> None, owed |-> Subscribing!Set(callbacks_)]
  <2>5. \A k \in 1 .. d :
          [calling |-> running'[k].cb, owed |-> Subscribing!Owed(running[k])'] = r[k]
    BY <2>1, <2>2, <2>3
  <2>6. [calling |-> running'[d + 1].cb, owed |-> Subscribing!Owed(running[d + 1])'] = last
    <3>0. running[d + 1]' = it  BY <1>1, <2>1
    <3>1. running'[d + 1].cb = None  BY <3>0, <1>j
    <3>2. Subscribing!Owed(running[d + 1])' = Subscribing!Owed(it)'
      BY <3>0 DEF Subscribing!Owed, Subscribing!Rest
    <3> QED  BY <3>1, <3>2, <1>3
  <2> HIDE DEF last
  <2>7. rr = [k \in 1 .. d + 1 |-> IF k = d + 1 THEN last ELSE r[k]]
    <3> DEFINE F(k) == [calling |-> running'[k].cb, owed |-> Subscribing!Owed(running[k])']
               G(k) == IF k = d + 1 THEN last ELSE r[k]
    <3>1. rr = [k \in 1 .. d + 1 |-> F(k)]  BY <2>4
    <3>2. ASSUME NEW k \in 1 .. d + 1 PROVE F(k) = G(k)
      <4>1. CASE k = d + 1  BY <4>1, <2>6
      <4>2. CASE k # d + 1
        <5>1. k \in 1 .. d  BY <2>1, <4>2
        <5> QED  BY <5>1, <4>2, <2>5
      <4> QED  BY <4>1, <4>2
    <3> HIDE DEF F, G
    <3>3. rr = [k \in 1 .. d + 1 |-> G(k)]  BY <3>1, <3>2
    <3> QED  BY <3>3 DEF G
  <2>8. Append(r, last) = [k \in 1 .. d + 1 |-> IF k = d + 1 THEN last ELSE r[k]]
    <3> DEFINE R == [calling : Nodes \union {None}, owed : Seq(Nodes)]
    <3>1. last \in R /\ r \in Seq(R) /\ d \in Nat /\ Len(r) = d
      <4>1. Subscribing!Set(callbacks_) \in Seq(Nodes)  BY <1>0, WithoutReset
      <4> QED  BY <4>1, <2>1 DEF last
    <3> HIDE DEF R
    <3> QED  BY ONLY <3>1, AppendedIs
  <2> QED  BY <2>1, <2>7, <2>8 DEF last
<1>5. Subscribing!Set(callbacks_)' = Subscribing!Set(callbacks_)  BY <1>0 DEF Subscribing!Set
<1>6. Subscribing!List!InClient  BY <1>0, NotificationsAre
<1> QED  BY <1>2, <1>4, <1>5, <1>6 DEF Subscribing!List!Notify

(* Where only the innermost iterator changes.                              *)
LEMMA LastMoves ==
  ASSUME Subscribing!IInv, Subscribing!Depth > 0,
             UNCHANGED <<callbacks_, null, active_iterator_count_>>,
         NEW it \in Subscribing!Iterators, running' = [running EXCEPT ![Subscribing!Depth] = it],
         it.list_iter \in Subscribing!Listed \union {End}, it.cb
             \in Subscribing!Listed \union {None}
  PROVE  /\ Subscribing!IInv'
         /\ Subscribing!Running'
                = [Subscribing!Running EXCEPT ![Subscribing!Depth]
                    = [calling |-> it.cb, owed |-> Subscribing!Owed(it)]]
         /\ Subscribing!Set(callbacks_)' = Subscribing!Set(callbacks_)
<1>0. running \in Seq(Subscribing!Iterators) /\ Subscribing!Depth \in Nat
        /\ Len(running) = Subscribing!Depth
      /\ DOMAIN running = 1 .. Subscribing!Depth /\ Subscribing!Depth \in 1 .. Subscribing!Depth
  BY SubscriptionsShapes DEF Subscribing!IInv, Subscribing!Depth
<1>1. /\ running' \in Seq(Subscribing!Iterators) /\ Len(running') = Subscribing!Depth
      /\ DOMAIN running' = 1 .. Subscribing!Depth
      /\ \A k \in 1 .. Subscribing!Depth :
            running'[k] = IF k = Subscribing!Depth THEN it ELSE running[k]
  BY <1>0, ExceptSeq
<1>2. Subscribing!Depth' = Subscribing!Depth /\ Subscribing!Listed' = Subscribing!Listed
        /\ running' # <<>>
  BY <1>0, <1>1 DEF Subscribing!Depth, Subscribing!Listed
<1>3. /\ Subscribing!Running \in Seq([calling : Nodes \union {None}, owed : Seq(Nodes)])
      /\ DOMAIN Subscribing!Running = 1 .. Subscribing!Depth
      /\ \A k \in 1 .. Subscribing!Depth :
           Subscribing!Running[k]
               = [calling |-> running[k].cb, owed |-> Subscribing!Owed(running[k])]
  BY NotificationsAre
<1>4. Subscribing!Running' = [k \in 1 .. Subscribing!Depth |->
                    [calling |-> running'[k].cb, owed |-> Subscribing!Owed(running[k])']]
  BY <1>2 DEF Subscribing!Running
<1>5. ASSUME NEW k \in 1 .. Subscribing!Depth
      PROVE  [calling |-> running'[k].cb, owed |-> Subscribing!Owed(running[k])']
               = IF k = Subscribing!Depth THEN [calling |-> it.cb, owed |-> Subscribing!Owed(it)]
                   ELSE Subscribing!Running[k]
  <2>1. CASE k = Subscribing!Depth
    <3>1. running[k]' = it  BY <2>1, <1>1
    <3>2. Subscribing!Owed(it)' = Subscribing!Owed(it)
      BY DEF Subscribing!Owed, Subscribing!Rest, Subscribing!Set, Subscribing!Listed,
         Subscribing!Position
    <3>3. Subscribing!Owed(running[k])' = Subscribing!Owed(it)'
      BY <3>1 DEF Subscribing!Owed, Subscribing!Rest
    <3> QED  BY <2>1, <3>1, <3>2, <3>3
  <2>2. CASE k # Subscribing!Depth
    <3>1. running[k]' = running[k]  BY <2>2, <1>1
    <3> QED  BY <2>2, <3>1, <1>3, OwedStays
  <2> QED  BY <2>1, <2>2
<1>6. Subscribing!Running' = [k \in 1 .. Subscribing!Depth |->
                   IF k = Subscribing!Depth THEN [calling |-> it.cb, owed |-> Subscribing!Owed(it)]
                       ELSE Subscribing!Running[k]]
  BY <1>4, <1>5
<1> DEFINE r == [calling |-> it.cb, owed |-> Subscribing!Owed(it)]
<1>7. [Subscribing!Running EXCEPT ![Subscribing!Depth] = r]
          = [k \in 1 .. Subscribing!Depth |-> IF k = Subscribing!Depth THEN r
              ELSE Subscribing!Running[k]]
  <2> HIDE DEF r
  <2> QED  BY <1>3
<1>8. Subscribing!IInv'
  <2>1. Subscribing!TypeOK'  BY <1>1, <1>2 DEF Subscribing!IInv, Subscribing!TypeOK
  <2>2. Subscribing!IteratorsAreValid'
    <3>1. ASSUME NEW k \in 1 .. Subscribing!Depth
          PROVE  /\ running'[k].list_iter \in Subscribing!Listed \union {End}
                 /\ running'[k].cb \in Subscribing!Listed \union {None}
      <4>1. CASE k = Subscribing!Depth  BY <4>1, <1>1
      <4>2. CASE k # Subscribing!Depth
        BY <4>2, <1>0, <1>1 DEF Subscribing!IInv, Subscribing!IteratorsAreValid
      <4> QED  BY <4>1, <4>2
    <3> QED  BY <3>1, <1>1, <1>2 DEF Subscribing!IteratorsAreValid
  <2>3. Subscribing!NodesOnce'  BY DEF Subscribing!IInv, Subscribing!NodesOnce
  <2>4. Subscribing!LoopsAreCounted'  BY <1>2 DEF Subscribing!IInv, Subscribing!LoopsAreCounted
  <2> QED  BY <2>1, <2>2, <2>3, <2>4 DEF Subscribing!IInv
<1> QED  BY <1>6, <1>7, <1>8 DEF Subscribing!Set

(* The callback an iterator finds is the one its notification owes next.   *)
LEMMA FirstFound ==
  ASSUME Subscribing!IInv, NEW it \in Subscribing!Iterators, NEW n \in Subscribing!Found(it),
         \A m \in Subscribing!Found(it) : Subscribing!Position(n) <= Subscribing!Position(m)
  PROVE  /\ n \in Subscribing!Listed /\ n \in Nodes
         /\ Subscribing!NodeAt(Subscribing!Position(n) + 1) \in Subscribing!Listed \union {End}
         /\ Subscribing!Owed(it) # <<>> /\ Head(Subscribing!Owed(it)) = n
         /\ Tail(Subscribing!Owed(it))
                = Subscribing!Owed([list_iter |-> Subscribing!NodeAt(Subscribing!Position(n) + 1),
                                    cb |-> n])
<1>1. /\ n \in Subscribing!Listed /\ n \notin null /\ it.list_iter \in Subscribing!Listed
      /\ Subscribing!Position(n) >= Subscribing!Position(it.list_iter) /\ n \in Nodes
      /\ End \notin Subscribing!Listed
      /\ callbacks_ \in Seq(Nodes) /\ DOMAIN callbacks_ = 1 .. Len(callbacks_)
      /\ Len(callbacks_) \in Nat
  BY SubscriptionsShapes DEF Subscribing!Found, Subscribing!IInv
<1>l. PICK l \in Nat : l = Len(callbacks_)  BY ONLY <1>1
<1>p. PICK p, q, s : p = Subscribing!Position(it.list_iter) /\ q = Subscribing!Position(n)
             /\ s = Subscribing!Rest(it)
  OBVIOUS
<1>2. /\ l = Len(callbacks_) /\ p = Subscribing!Position(it.list_iter)
      /\ q = Subscribing!Position(n) /\ s = Subscribing!Rest(it)
      /\ p \in 1 .. l /\ q \in 1 .. l /\ p <= q /\ callbacks_[q] = n
      /\ s = SubSeq(callbacks_, p, l) /\ s \in Seq(Nodes) /\ Len(s) = l - p + 1
      /\ \A k \in 1 .. l - p + 1 : s[k] = callbacks_[p + k - 1]
  <2>1. /\ Subscribing!Position(it.list_iter) \in 1 .. Len(callbacks_)
        /\ Subscribing!Rest(it)
               = SubSeq(callbacks_, Subscribing!Position(it.list_iter), Len(callbacks_))
        /\ Subscribing!Rest(it) \in Seq(Nodes)
        /\ Len(Subscribing!Rest(it)) = Len(callbacks_) - Subscribing!Position(it.list_iter) + 1
        /\ \A k \in 1 .. Len(callbacks_) - Subscribing!Position(it.list_iter) + 1 :
             Subscribing!Rest(it)[k] = callbacks_[Subscribing!Position(it.list_iter) + k - 1]
    BY <1>1, RestIs
  <2>2. Subscribing!Position(n) \in 1 .. Len(callbacks_) /\ callbacks_[Subscribing!Position(n)] = n
    BY <1>1, PositionIs
  <2>3. Len(callbacks_) \in Nat  BY <1>1
  <2>4. Subscribing!Position(it.list_iter) <= Subscribing!Position(n)  BY <2>1, <2>2, <1>1
  <2> QED  BY ONLY <1>l, <1>p, <2>1, <2>2, <2>4
<1> DEFINE j == q - p + 1
<1>3. j \in 1 .. Len(s) /\ p + j - 1 = q /\ p + j = q + 1 /\ j \in 1 .. l - p + 1  BY <1>2
<1>4. s[j] = n /\ s[j] \in Nodes \ null  BY <1>1, <1>2, <1>3
<1>5. \A k \in 1 .. j - 1 : s[k] \notin Nodes \ null
  <2>1. ASSUME NEW k \in 1 .. j - 1, s[k] \notin null PROVE FALSE
    <3>1. /\ k \in 1 .. l - p + 1 /\ p + k - 1 \in 1 .. l /\ p + k - 1 < q /\ p + k - 1 >= p
      BY <1>2
    <3>2. s[k] = callbacks_[p + k - 1]  BY <3>1, <1>2
    <3>3. s[k] \in Subscribing!Listed /\ Subscribing!Position(s[k]) = p + k - 1
      BY <3>1, <3>2, <1>2, PositionIs
    <3>4. s[k] \in Subscribing!Found(it)  BY <3>1, <3>3, <2>1, <1>1, <1>2 DEF Subscribing!Found
    <3> QED  BY <3>1, <3>3, <3>4, <1>2
  <2> QED  BY <2>1
<1>6. /\ Filter(s, Nodes \ null) # <<>>
      /\ Head(Filter(s, Nodes \ null)) = s[j]
      /\ Tail(Filter(s, Nodes \ null)) = Filter(SubSeq(s, j + 1, Len(s)), Nodes \ null)
  <2> HIDE DEF j
  <2>1. s \in Seq(Nodes)  BY <1>2
  <2> QED  BY ONLY <2>1, <1>3, <1>4, <1>5, FilterFirst
<1> HIDE DEF j
<1>7. Subscribing!Owed(it) = Filter(s, Nodes \ null)
  BY <1>2, FilterIsOne DEF Subscribing!Owed, Subscribing!Set
<1> DEFINE next == [list_iter |-> Subscribing!NodeAt(q + 1), cb |-> n]
<1>8. Subscribing!Rest(next) = SubSeq(s, j + 1, Len(s))
        /\ Subscribing!NodeAt(q + 1) \in Subscribing!Listed \union {End}
  <2>1. SubSeq(s, j + 1, Len(s)) = SubSeq(callbacks_, q + 1, l)
    <3>1. SubSeq(SubSeq(callbacks_, p, Len(callbacks_)), j + 1,
                 Len(SubSeq(callbacks_, p, Len(callbacks_))))
            = SubSeq(callbacks_, p + j, Len(callbacks_))
      BY <1>1, <1>2, <1>3, TailOfTail
    <3> QED  BY ONLY <3>1, <1>2, <1>3
  <2>2. CASE q = l
    <3>1. Subscribing!NodeAt(q + 1) = End  BY <2>2, <1>1, <1>2 DEF Subscribing!NodeAt
    <3>2. Subscribing!Rest(next) = <<>>  BY <3>1, <1>1 DEF Subscribing!Rest
    <3>3. SubSeq(callbacks_, q + 1, l) = <<>>
      <4>1. l < q + 1 /\ q + 1 \in Int /\ l \in Int  BY <2>2
      <4> QED  BY <4>1, SubSeqEmpty
    <3> QED  BY <2>1, <3>1, <3>2, <3>3
  <2>3. CASE q # l
    <3>1. q + 1 \in 1 .. l  BY <2>3, <1>2
    <3>2. Subscribing!NodeAt(q + 1) = callbacks_[q + 1]  BY <3>1, <1>1, <1>2 DEF Subscribing!NodeAt
    <3>3. Subscribing!NodeAt(q + 1) \in Subscribing!Listed
            /\ Subscribing!Position(Subscribing!NodeAt(q + 1)) = q + 1
      BY <3>1, <3>2, <1>2, PositionIs
    <3>4. Subscribing!Rest(next) = SubSeq(callbacks_, q + 1, l)  BY <3>3, <1>2 DEF Subscribing!Rest
    <3> QED  BY <2>1, <3>3, <3>4
  <2> QED  BY <2>2, <2>3
<1>9. Tail(Subscribing!Owed(it)) = Subscribing!Owed(next)
  BY <1>6, <1>7, <1>8, FilterIsOne DEF Subscribing!Owed, Subscribing!Set
<1>10. Subscribing!Owed(it) # <<>> /\ Head(Subscribing!Owed(it)) = n  BY ONLY <1>4, <1>6, <1>7
<1> QED  BY <1>1, <1>2, <1>8, <1>9, <1>10

(* Iterator::GetNext: the notification calls the first that it owes a      *)
(* call.                                                                   *)
LEMMA NextCallbackKeeps ==
  ASSUME Subscribing!IInv, Subscribing!GetNext
  PROVE  Subscribing!IInv' /\ Subscribing!List!CallNext
<1>0. /\ ~Subscribing!InClient /\ Subscribing!Depth > 0 /\ Subscribing!It.cb = None
      /\ Subscribing!It \in Subscribing!Iterators
      /\ UNCHANGED <<callbacks_, null, active_iterator_count_>>
  BY SubscriptionsShapes
     DEF Subscribing!GetNext, Subscribing!InClient, Subscribing!IInv, Subscribing!It
<1>1. PICK n \in Subscribing!Found(Subscribing!It) :
        /\ \A m \in Subscribing!Found(Subscribing!It) :
              Subscribing!Position(n) <= Subscribing!Position(m)
        /\ running' = [running EXCEPT ![Subscribing!Depth] =
                           [list_iter |-> Subscribing!NodeAt(Subscribing!Position(n) + 1),
                            cb |-> n]]
  BY DEF Subscribing!GetNext
<1>2. /\ n \in Subscribing!Listed /\ n \in Nodes
      /\ Subscribing!NodeAt(Subscribing!Position(n) + 1) \in Subscribing!Listed \union {End}
      /\ Subscribing!Owed(Subscribing!It) # <<>> /\ Head(Subscribing!Owed(Subscribing!It)) = n
      /\ Tail(Subscribing!Owed(Subscribing!It))
             = Subscribing!Owed([list_iter |-> Subscribing!NodeAt(Subscribing!Position(n) + 1),
                                 cb |-> n])
  BY <1>0, <1>1, FirstFound
<1>3. PICK it : it = [list_iter |-> Subscribing!NodeAt(Subscribing!Position(n) + 1), cb |-> n]
  OBVIOUS
<1>4. /\ it \in Subscribing!Iterators /\ it.list_iter \in Subscribing!Listed \union {End}
      /\ it.cb = n
  <2>1. Subscribing!Listed \subseteq Nodes  BY SubscriptionsShapes DEF Subscribing!IInv
  <2> QED  BY <2>1, <1>2, <1>3 DEF Subscribing!Iterators
<1>5. /\ Subscribing!IInv'
      /\ Subscribing!Running'
             = [Subscribing!Running EXCEPT ![Subscribing!Depth]
                 = [calling |-> it.cb, owed |-> Subscribing!Owed(it)]]
      /\ Subscribing!Set(callbacks_)' = Subscribing!Set(callbacks_)
  BY <1>0, <1>1, <1>2, <1>3, <1>4, LastMoves
<1>6. Subscribing!Running'
          = [Subscribing!Running EXCEPT ![Subscribing!Depth]
              = [calling |-> Head(Subscribing!Owed(Subscribing!It)),
                 owed |-> Tail(Subscribing!Owed(Subscribing!It))]]
  BY <1>2, <1>3, <1>4, <1>5
<1>7. ~Subscribing!List!InClient /\ Subscribing!List!Top.owed = Subscribing!Owed(Subscribing!It)
        /\ Len(Subscribing!Running) = Subscribing!Depth
  <2>1. Subscribing!List!Top
            = [calling |-> Subscribing!It.cb, owed |-> Subscribing!Owed(Subscribing!It)]
    BY <1>0, NotificationsAre
  <2> QED  BY <2>1, <1>0, NotificationsAre
<1> QED  BY <1>2, <1>5, <1>6, <1>7 DEF Subscribing!List!CallNext

(* A callback that returns leaves everything but its notification's call.  *)
LEMMA CallbackReturnsKeeps ==
  ASSUME Subscribing!IInv, Subscribing!CallbackReturns
  PROVE  Subscribing!IInv' /\ Subscribing!List!CallReturns
<1>0. /\ Subscribing!Depth > 0 /\ Subscribing!It.cb # None
      /\ Subscribing!It \in Subscribing!Iterators
      /\ UNCHANGED <<callbacks_, null, active_iterator_count_>>
      /\ running' = [running EXCEPT ![Subscribing!Depth].cb = None]
      /\ running \in Seq(Subscribing!Iterators) /\ DOMAIN running = 1 .. Subscribing!Depth
      /\ Subscribing!Depth \in 1 .. Subscribing!Depth
  BY SubscriptionsShapes DEF Subscribing!CallbackReturns, Subscribing!IInv, Subscribing!It
<1>1. PICK it : it = [Subscribing!It EXCEPT !.cb = None]  OBVIOUS
<1>2. /\ it \in Subscribing!Iterators /\ it.list_iter = Subscribing!It.list_iter /\ it.cb = None
  BY <1>0, <1>1 DEF Subscribing!Iterators
<1>3. running' = [running EXCEPT ![Subscribing!Depth] = it]
  BY <1>0, <1>1 DEF Subscribing!It, Subscribing!Iterators
<1>4. it.list_iter \in Subscribing!Listed \union {End}
  BY <1>0, <1>2 DEF Subscribing!IInv, Subscribing!IteratorsAreValid, Subscribing!It
<1>5. /\ Subscribing!IInv'
      /\ Subscribing!Running'
             = [Subscribing!Running EXCEPT ![Subscribing!Depth]
                 = [calling |-> it.cb, owed |-> Subscribing!Owed(it)]]
      /\ Subscribing!Set(callbacks_)' = Subscribing!Set(callbacks_)
  BY <1>0, <1>2, <1>3, <1>4, LastMoves
<1>6. Subscribing!Owed(it) = Subscribing!Owed(Subscribing!It)
  BY <1>2 DEF Subscribing!Owed, Subscribing!Rest
<1>7. /\ Subscribing!List!Top
             = [calling |-> Subscribing!It.cb, owed |-> Subscribing!Owed(Subscribing!It)]
               /\ Len(Subscribing!Running) = Subscribing!Depth
      /\ Subscribing!Running # <<>>
      /\ Subscribing!Running[Subscribing!Depth]
             = [calling |-> Subscribing!It.cb, owed |-> Subscribing!Owed(Subscribing!It)]
      /\ DOMAIN Subscribing!Running = 1 .. Subscribing!Depth
  BY <1>0, NotificationsAre DEF Subscribing!It
<1>8. Subscribing!Running' = [Subscribing!Running EXCEPT ![Len(Subscribing!Running)].calling = None]
  <2>1. [Subscribing!Running[Subscribing!Depth] EXCEPT !.calling = None]
            = [calling |-> None, owed |-> Subscribing!Owed(Subscribing!It)]
    BY <1>7
  <2> QED  BY <2>1, <1>2, <1>5, <1>6, <1>7
<1> QED  BY <1>0, <1>5, <1>7, <1>8 DEF Subscribing!List!CallReturns

(* The last notification to end compacts, which erases what is reset and   *)
(* nothing else.                                                           *)
LEMMA NotifyEndsKeeps ==
  ASSUME Subscribing!IInv, Subscribing!NotifyEnds
  PROVE  Subscribing!IInv' /\ Subscribing!List!Finish
<1>0. /\ ~Subscribing!InClient /\ Subscribing!Depth > 0 /\ Subscribing!It.cb = None
      /\ Subscribing!Found(Subscribing!It) = {}
      /\ running' = SubSeq(running, 1, Subscribing!Depth - 1)
      /\ active_iterator_count_' = active_iterator_count_ - 1
      /\ active_iterator_count_ = Subscribing!Depth /\ Subscribing!Depth <= MaxDepth
      /\ running \in Seq(Subscribing!Iterators) /\ DOMAIN running = 1 .. Subscribing!Depth
      /\ Subscribing!Depth \in 1 .. Subscribing!Depth
      /\ Len(running) = Subscribing!Depth /\ Subscribing!Depth \in Nat /\ MaxDepth \in Nat
      /\ callbacks_ \in Seq(Nodes) /\ Len(callbacks_) \in Nat
      /\ DOMAIN callbacks_ = 1 .. Len(callbacks_)
  BY SubscriptionsShapes
     DEF Subscribing!NotifyEnds, Subscribing!InClient, Subscribing!IInv, Subscribing!LoopsAreCounted
<1>1. /\ running' \in Seq(Subscribing!Iterators) /\ Len(running') = Subscribing!Depth - 1
      /\ Subscribing!Depth' = Subscribing!Depth - 1
      /\ DOMAIN running' = 1 .. Subscribing!Depth - 1
      /\ \A k \in 1 .. Subscribing!Depth - 1 : running'[k] = running[k]
  <2>1. \A k \in 1 .. Subscribing!Depth - 1 : running[k] \in Subscribing!Iterators  BY <1>0
  <2>2. PICK d, s : d \in Nat /\ d = Subscribing!Depth - 1 /\ s = running  BY <1>0
  <2>3. /\ SubSeq(s, 1, d) \in Seq(Subscribing!Iterators)
        /\ Len(SubSeq(s, 1, d)) = IF 1 <= d THEN d - 1 + 1 ELSE 0
        /\ \A k \in 1 .. d - 1 + 1 : SubSeq(s, 1, d)[k] = s[1 + k - 1]
    <3>1. \A k \in 1 .. d : s[k] \in Subscribing!Iterators  BY <2>1, <2>2
    <3>2. 1 \in Int /\ d \in Int  BY <2>2
    <3> QED  BY ONLY <3>1, <3>2, SubSeqProperties
  <2>4. Len(SubSeq(s, 1, d)) = d /\ \A k \in 1 .. d : SubSeq(s, 1, d)[k] = s[k]
    <3>1. \A k \in 1 .. d : k \in 1 .. d - 1 + 1 /\ 1 + k - 1 = k  BY ONLY <2>2, d \in Nat
    <3>2. (IF 1 <= d THEN d - 1 + 1 ELSE 0) = d  BY ONLY <2>2, d \in Nat
    <3> QED  BY ONLY <2>3, <3>1, <3>2
  <2>5. running' = SubSeq(s, 1, d)  BY <1>0, <2>2
  <2>6. \A k \in 1 .. Subscribing!Depth - 1 : running'[k] = running[k]  BY <2>2, <2>4, <2>5
  <2>7. running' \in Seq(Subscribing!Iterators) /\ Len(running') = Subscribing!Depth - 1
    BY <2>2, <2>3, <2>4, <2>5
  <2> QED  BY <2>6, <2>7 DEF Subscribing!Depth
<1>2. Subscribing!Owed(Subscribing!It) = <<>>
  <2>1. PICK it : it = Subscribing!It  OBVIOUS
  <2>2. CASE it.list_iter \in Subscribing!Listed
    <3>1. PICK p, s, l : p = Subscribing!Position(it.list_iter) /\ s = Subscribing!Rest(it)
                 /\ l = Len(callbacks_)
      OBVIOUS
    <3>2. /\ p \in 1 .. l /\ l \in Nat /\ s \in Seq(Nodes) /\ Len(s) = l - p + 1
          /\ \A k \in 1 .. l - p + 1 : s[k] = callbacks_[p + k - 1]
      BY <2>2, <3>1, <1>0, RestIs
    <3>3. ASSUME NEW k \in 1 .. Len(s) PROVE s[k] \in null
      <4>1. k \in 1 .. l - p + 1 /\ p + k - 1 \in 1 .. l /\ p + k - 1 >= p  BY <3>2
      <4>2. s[k] = callbacks_[p + k - 1]  BY <4>1, <3>2
      <4>3. s[k] \in Subscribing!Listed /\ Subscribing!Position(s[k]) = p + k - 1
        BY <4>1, <4>2, <3>1, PositionIs
      <4>4. s[k] \notin Subscribing!Found(it)  BY <1>0, <2>1
      <4> QED  BY <4>1, <4>3, <4>4, <2>2, <3>1 DEF Subscribing!Found
    <3>4. Subscribing!Set(s) = <<>>  BY <3>2, <3>3, WithoutReset
    <3> QED  BY <3>1, <3>4, <2>1 DEF Subscribing!Owed
  <2>3. CASE it.list_iter \notin Subscribing!Listed
    <3>1. Subscribing!Rest(it) = <<>>  BY <2>3 DEF Subscribing!Rest
    <3> QED  BY <3>1, <2>1, WithoutReset DEF Subscribing!Owed
  <2> QED  BY <2>2, <2>3
<1>3. ~Subscribing!List!InClient /\ Subscribing!List!Top.owed = <<>>
        /\ Len(Subscribing!Running) = Subscribing!Depth
  <2>1. Subscribing!List!Top
            = [calling |-> Subscribing!It.cb, owed |-> Subscribing!Owed(Subscribing!It)]
    BY <1>0, NotificationsAre
  <2> QED  BY <2>1, <1>0, <1>2, NotificationsAre

(* The last to end compacts the list. *)
<1>4. CASE Subscribing!Depth = 1
  <2>1. active_iterator_count_' = 0 /\ callbacks_' = Filter(callbacks_, Nodes \ null) /\ null' = {}
    <3>1. active_iterator_count_' = 0  BY <1>0, <1>4
    <3> QED  BY <3>1, FilterIsOne DEF Subscribing!NotifyEnds, Subscribing!Compact, Subscribing!Set
  <2>2. PICK s, t : s = callbacks_ /\ t = callbacks_'  OBVIOUS
  <2>3. /\ t \in Seq(Nodes) /\ Once(t, Nodes) /\ Filter(t, Nodes \ {}) = t
    <3>0. Filter(s, Nodes \ null) \in Seq(Nodes \cap (Nodes \ null))  BY <1>0, <2>2, FilterType
    <3>1. t \in Seq(Nodes \ null)
      <4>1. Nodes \cap (Nodes \ null) = Nodes \ null  OBVIOUS
      <4> QED  BY <3>0, <4>1, <2>1, <2>2
    <3>2. t \in Seq(Nodes)
      <4>1. Nodes \ null \subseteq Nodes  OBVIOUS
      <4> QED  BY <3>1, <4>1, SeqMonotonic
    <3>3. Once(t, Nodes \ null)
      <4>1. Once(s, Nodes \ null)  BY <1>0, <2>2 DEF Subscribing!IInv, Subscribing!NodesOnce, Once
      <4> QED  BY <4>1, <1>0, <2>1, <2>2, FilterOnce
    <3>4. \A i \in 1 .. Len(t) : t[i] \in Nodes \ null  BY <3>1
    <3>5. Once(t, Nodes)  BY <3>3, <3>4 DEF Once
    <3>6. Filter(t, Nodes \ {}) = t
      <4>1. \A i \in 1 .. Len(t) : t[i] \in Nodes \ {}  BY <3>4
      <4> QED  BY ONLY <4>1, <3>2, FilterAll
    <3> QED  BY <3>2, <3>5, <3>6
  <2>4. DOMAIN t = 1 .. Len(t) /\ Len(t) \in Nat  BY <2>3
  <2>5. Subscribing!Depth' = 0 /\ DOMAIN running' = {}  BY <1>1, <1>4
  <2>6. Subscribing!TypeOK'
    <3>1. 0 \in 0 .. MaxDepth  BY <1>0
    <3> QED  BY <3>1, <2>1, <2>2, <2>3, <1>1 DEF Subscribing!TypeOK
  <2>7. Subscribing!IteratorsAreValid'  BY <2>1, <2>5 DEF Subscribing!IteratorsAreValid
  <2>8. Subscribing!NodesOnce'
    <3>1. \A i, j \in DOMAIN t : t[i] = t[j] => i = j  BY <2>3, <2>4 DEF Once
    <3> QED  BY <3>1, <2>2 DEF Subscribing!NodesOnce
  <2>9. Subscribing!LoopsAreCounted'  BY <2>1, <2>5, <1>0 DEF Subscribing!LoopsAreCounted
  <2>10. Subscribing!Set(callbacks_)' = Subscribing!Set(callbacks_)
    <3>1. Subscribing!Set(callbacks_)' = Filter(t, Nodes \ {})
      BY <2>1, <2>2, FilterIsOne DEF Subscribing!Set
    <3> QED  BY <3>1, <2>1, <2>2, <2>3, FilterIsOne DEF Subscribing!Set
  <2>11. Subscribing!Running' = SubSeq(Subscribing!Running, 1, Len(Subscribing!Running) - 1)
    <3>1. 1 .. 0 = {} /\ Subscribing!Running' = <<>>  BY <2>5 DEF Subscribing!Running
    <3>2. Len(Subscribing!Running) = 1  BY <1>3, <1>4
    <3>3. SubSeq(Subscribing!Running, 1, 0) = <<>>  BY SubSeqEmpty
    <3> QED  BY <3>1, <3>2, <3>3
  <2> QED
    BY <2>6, <2>7, <2>8, <2>9, <2>10, <2>11, <1>3 DEF Subscribing!IInv, Subscribing!List!Finish

(* Otherwise it stays as it is. *)
<1>5. CASE Subscribing!Depth # 1
  <2>1. callbacks_' = callbacks_ /\ null' = null
    <3>1. active_iterator_count_' # 0  BY <1>0, <1>5
    <3> QED  BY <3>1 DEF Subscribing!NotifyEnds
  <2>2. Subscribing!Listed' = Subscribing!Listed  BY <2>1 DEF Subscribing!Listed
  <2>3. Subscribing!TypeOK'
    <3>1. active_iterator_count_' \in 0 .. MaxDepth  BY <1>0
    <3> QED  BY <3>1, <2>1, <2>2, <1>1 DEF Subscribing!IInv, Subscribing!TypeOK
  <2>4. Subscribing!IteratorsAreValid'
    <3>1. running' # <<>>  BY <1>0, <1>1, <1>5
    <3>2. \A k \in 1 .. Subscribing!Depth - 1 : k \in DOMAIN running  BY <1>0
    <3> QED  BY <3>1, <3>2, <2>2, <1>1 DEF Subscribing!IInv, Subscribing!IteratorsAreValid
  <2>5. Subscribing!NodesOnce'  BY <2>1 DEF Subscribing!IInv, Subscribing!NodesOnce
  <2>6. Subscribing!LoopsAreCounted'  BY <1>0, <1>1 DEF Subscribing!LoopsAreCounted
  <2>7. Subscribing!Set(callbacks_)' = Subscribing!Set(callbacks_)  BY <2>1 DEF Subscribing!Set
  <2>8. Subscribing!Running' = SubSeq(Subscribing!Running, 1, Len(Subscribing!Running) - 1)
    <3>1. PICK d, r, rr :
            /\ d \in Nat /\ d = Subscribing!Depth - 1
            /\ r = Subscribing!Running /\ rr = Subscribing!Running'
            /\ r \in Seq([calling : Nodes \union {None}, owed : Seq(Nodes)])
            /\ Len(r) = d + 1
            /\ \A k \in 1 .. d + 1 :
                 r[k] = [calling |-> running[k].cb, owed |-> Subscribing!Owed(running[k])]
      BY NotificationsAre, <1>0
    <3>2. \A k \in 1 .. d : running[k]' = running[k]  BY <1>1, <3>1
    <3>3. \A k \in 1 .. d : Subscribing!Owed(running[k])' = Subscribing!Owed(running[k])
      BY <3>2, <2>1, OwedStays
    <3>4. rr = [k \in 1 .. d |->
                   [calling |-> running'[k].cb, owed |-> Subscribing!Owed(running[k])']]
      BY <1>1, <3>1 DEF Subscribing!Running
    <3>5. ASSUME NEW k \in 1 .. d
          PROVE  [calling |-> running'[k].cb, owed |-> Subscribing!Owed(running[k])'] = r[k]
      <4>1. k \in 1 .. d + 1  BY <3>1
      <4> QED  BY <4>1, <3>1, <3>2, <3>3
    <3>6. rr = [k \in 1 .. d |-> r[k]]  BY <3>4, <3>5
    <3>7. SubSeq(r, 1, d) = [k \in 1 .. d |-> r[k]]
      BY ONLY <3>1
    <3> QED  BY ONLY <3>1, <3>6, <3>7
  <2> QED  BY <2>3, <2>4, <2>5, <2>6, <2>7, <2>8, <1>3 DEF Subscribing!IInv, Subscribing!List!Finish
<1> QED  BY <1>4, <1>5

(* Every step keeps the invariant and is a step of the abstract list, or   *)
(* none.                                                                   *)
LEMMA SubscriptionsStep ==
  ASSUME Subscribing!IInv, [Subscribing!Next]_(Subscribing!vars)
  PROVE  Subscribing!IInv' /\ [Subscribing!List!Next]_(Subscribing!List!vars)
<1>1. CASE Subscribing!Next
  <2>1. ASSUME NEW n \in Nodes, Subscribing!Add(n) PROVE Subscribing!IInv' /\ Subscribing!List!Next
    BY <2>1, AddKeeps DEF Subscribing!List!Next
  <2>2. ASSUME NEW n \in Nodes, Subscribing!Unsubscribe(n)
        PROVE  Subscribing!IInv' /\ Subscribing!List!Next
    BY <2>2, UnsubscribeKeeps DEF Subscribing!List!Next
  <2>3. CASE Subscribing!Notify  BY <2>3, NotifyKeeps DEF Subscribing!List!Next
  <2>4. CASE Subscribing!GetNext  BY <2>4, NextCallbackKeeps DEF Subscribing!List!Next
  <2>5. CASE Subscribing!CallbackReturns  BY <2>5, CallbackReturnsKeeps DEF Subscribing!List!Next
  <2>6. CASE Subscribing!NotifyEnds  BY <2>6, NotifyEndsKeeps DEF Subscribing!List!Next
  <2> QED  BY <1>1, <2>1, <2>2, <2>3, <2>4, <2>5, <2>6 DEF Subscribing!Next
<1>2. CASE UNCHANGED Subscribing!vars
  <2>1. Subscribing!IInv'
    BY <1>2
       DEF Subscribing!vars, Subscribing!IInv, Subscribing!TypeOK, Subscribing!IteratorsAreValid,
           Subscribing!NodesOnce, Subscribing!LoopsAreCounted, Subscribing!Depth, Subscribing!Listed
  <2>2. UNCHANGED Subscribing!List!vars
    <3>1. Subscribing!Running' = Subscribing!Running
      <4>1. UNCHANGED <<callbacks_, null, running>>  BY <1>2 DEF Subscribing!vars
      <4>2. \A k \in 1 .. Subscribing!Depth :
               Subscribing!Owed(running[k])' = Subscribing!Owed(running[k])
        BY <4>1, OwedStays
      <4>3. Subscribing!Depth' = Subscribing!Depth  BY <4>1 DEF Subscribing!Depth
      <4> QED  BY <4>1, <4>2, <4>3 DEF Subscribing!Running
    <3>2. Subscribing!Set(callbacks_)' = Subscribing!Set(callbacks_)
      BY <1>2 DEF Subscribing!vars, Subscribing!Set
    <3> QED  BY <3>1, <3>2, <1>2 DEF Subscribing!vars, Subscribing!List!vars
  <2> QED  BY <2>1, <2>2
<1> QED  BY <1>1, <1>2

(* CallbackListBase: the types, valid iterators, nodes once, notifications *)
(* counted.                                                                *)
THEOREM SubscriptionsInvariance == Subscribing!Spec => []Subscribing!IInv
<1>1. Subscribing!Init => Subscribing!IInv  BY SubscriptionsInit
<1>2. Subscribing!IInv /\ [Subscribing!Next]_(Subscribing!vars) => Subscribing!IInv'
  BY SubscriptionsStep
<1> QED  BY <1>1, <1>2, PTL DEF Subscribing!Spec

(* The callbacks, whatever is registered and reset under Notify, are the   *)
(* abstract list.                                                          *)
THEOREM SubscriptionsImplement == Subscribing!Spec => Subscribing!RunsWhomItOwes
<1>1. Subscribing!Init => Subscribing!List!Init  BY SubscriptionsInit
<1>2. Subscribing!IInv /\ [Subscribing!Next]_(Subscribing!vars)
        => [Subscribing!List!Next]_(Subscribing!List!vars)
  BY SubscriptionsStep
<1> QED
  BY <1>1, <1>2, SubscriptionsInvariance, PTL
     DEF Subscribing!Spec, Subscribing!RunsWhomItOwes, Subscribing!List!Spec
-----------------------------------------------------------------------------
(* Whichever of the three is the subject of a behaviour, the others stay   *)
(* as they were, so that each of them behaves as it does alone.            *)
LEMMA EachIsAlone == EachSpec => Spec /\ Observing!Spec /\ Subscribing!Spec
<1>1. EachInit => Init /\ Observing!Init /\ Subscribing!Init  BY DEF EachInit
<1>2. [EachNext]_<<subject, vars, observing, subscribing>>
        => [Next]_vars /\ [Observing!Next]_(Observing!vars) /\ [Subscribing!Next]_(Subscribing!vars)
  BY DEF EachNext, observing, subscribing, Observing!vars, Subscribing!vars
<1> QED  BY <1>1, <1>2, PTL DEF EachSpec, Spec, Observing!Spec, Subscribing!Spec

(* The variables of all three keep their types.                            *)
THEOREM TypesAreCorrect == EachSpec => []TypesOK
<1>1. IInv /\ Observing!IInv /\ Subscribing!IInv => TypesOK
  BY DEF TypesOK, IInv, Observing!IInv, Subscribing!IInv
<1> QED
  BY <1>1, EachIsAlone, Invariance, ObserversInvariance, SubscriptionsInvariance, PTL

(* Compact: however loops nest and lists change under them, holes and      *)
(* reset callbacks are gone when the last loop is, no loop is counted      *)
(* twice or forgotten, and no iterator stands at an erased node.           *)
THEOREM HolesGoWithTheLastLoop == EachSpec => []ListsOutliveLoops
<1>1. Observing!IInv /\ Subscribing!IInv => ListsOutliveLoops
  BY DEF ListsOutliveLoops, Observing!IInv, Subscribing!IInv
<1> QED  BY <1>1, EachIsAlone, ObserversInvariance, SubscriptionsInvariance, PTL

(* FOR_EACH_OBSERVER: the list with its holes, indices and depth is a      *)
(* NotificationList, whose loops call whom they owe a call, once, in       *)
(* order, whoever joins, leaves or destroys the list in between.           *)
THEOREM ObserversAreCalled == EachSpec => CallsWhomItOwes
<1> QED  BY EachIsAlone, ObserversImplement, PTL DEF CallsWhomItOwes

(* CallbackListBase::Notify is such a list too, though whoever registers   *)
(* while a notification is at its end may be run by it or not.             *)
THEOREM CallbacksAreRun == EachSpec => RunsWhomItOwes
<1> QED  BY EachIsAlone, SubscriptionsImplement, PTL DEF RunsWhomItOwes
=============================================================================

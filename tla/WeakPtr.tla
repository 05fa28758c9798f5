------------------------------- MODULE WeakPtr -------------------------------
(***************************************************************************)
(* WeakPtr and WeakPtrFactory (memory/weak_ptr.h, .cc) over scoped_refptr  *)
(* and RefCountedThreadSafe (memory/ref_counted.h, .cc): an object hands   *)
(* out weak pointers on its own thread and may invalidate them there; the  *)
(* pointers are copied, passed on and dropped on any thread, so the Flag   *)
(* they share is deleted by whichever thread drops it last.                *)
(*                                                                         *)
(* Every scoped_refptr is an entry of ptr_: the ref_.flag_ of a WeakPtr,   *)
(* the owner's flag_, and of each thread the local old_ptr that operator=  *)
(* is about to Release.  Atomic increments and decrements are steps.       *)
(***************************************************************************)
EXTENDS Naturals, FiniteSets

CONSTANTS
    Threads,
    Home,       \* the thread of the owner
    Owner,      \* WeakReferenceOwner, the owner's reference to its flag
    Handles,    \* WeakPtr variables
    Flags,      \* memory for flags; that of a deleted one is used again
    NULL

Pointers == Handles \cup {Owner} \cup Threads

ASSUME WeakPtrAssumption ==
    /\ IsFiniteSet(Threads) /\ IsFiniteSet(Handles)
    /\ Home \in Threads /\ Owner \notin Threads \cup Handles
    /\ Threads \cap Handles = {} /\ NULL \notin Flags

VARIABLES
    ptr_,         \* of each scoped_refptr
    ref_count_, is_valid_,   \* of each flag
    live,         \* the flags that are allocated
    alive,        \* the owner exists
    holder,       \* the thread that has the WeakPtr variable
    pc,           \* of each thread: "idle", "release" or "delete"
    doomed,       \* the flag that a thread is deleting
    getting,      \* Home is between HasRefs and the end of GetRef
    fresh         \* history: the pointer was handed out, or copied from one
                  \* that was, and its owner has neither been destroyed nor
                  \* invalidated its pointers since

vars == <<ptr_, ref_count_, is_valid_, live, alive, holder, pc, doomed, getting, fresh>>

Init ==
    /\ ptr_ = [x \in Pointers |-> NULL]
    /\ ref_count_ = [f \in Flags |-> 0]
    /\ is_valid_ = [f \in Flags |-> FALSE]
    /\ live = {} /\ alive = TRUE
    /\ holder \in [Handles -> Threads]
    /\ pc = [t \in Threads |-> "idle"]
    /\ doomed = [t \in Threads |-> NULL]
    /\ getting = FALSE
    /\ fresh = [h \in Handles |-> FALSE]

flag_ == ptr_[Owner]
HasOneRef(f) == ref_count_[f] = 1
HasRefs == flag_ # NULL /\ ~HasOneRef(flag_)

(* The WeakPtr variables that GetRef's result may go to. *)
Empty == {h \in Handles : holder[h] = Home /\ ptr_[h] = NULL}

(* A thread that may begin an operation. *)
Ready(t) == pc[t] = "idle" /\ (t = Home => ~getting)
-----------------------------------------------------------------------------
(* Mutated forms, one plausible slip each; a property must fail when it    *)
(* takes the place of the definition it is named after.                    *)
StoreReleaseFirst(t, x, f) ==        \* the new pointer is not counted
    /\ UNCHANGED ref_count_
    /\ ptr_' = [ptr_ EXCEPT ![x] = f, ![t] = ptr_[x]]
    /\ pc' = [pc EXCEPT ![t] = IF ptr_[x] = NULL THEN "idle" ELSE "release"]

(* scoped_refptr::operator=, in thread t: AddRef what is stored, then have *)
(* old_ptr to Release.                                                     *)
Store(t, x, f) ==
    /\ ref_count_' = IF f = NULL THEN ref_count_ ELSE [ref_count_ EXCEPT ![f] = @ + 1]
    /\ ptr_' = [ptr_ EXCEPT ![x] = f, ![t] = ptr_[x]]
    /\ pc' = [pc EXCEPT ![t] = IF ptr_[x] = NULL THEN "idle" ELSE "release"]

(* RefCountedThreadSafe::Release: who brings the count to 0 deletes.       *)
ReleaseReadsAgain(t) ==              \* HasOneRef, then --ref_count_
    LET f == ptr_[t] IN
    /\ pc[t] = "release"
    /\ ref_count_' = [ref_count_ EXCEPT ![f] = @ - 1]
    /\ ptr_' = [ptr_ EXCEPT ![t] = NULL]
    /\ IF ref_count_[f] <= 2
       THEN pc' = [pc EXCEPT ![t] = "delete"] /\ doomed' = [doomed EXCEPT ![t] = f]
       ELSE pc' = [pc EXCEPT ![t] = "idle"] /\ UNCHANGED doomed
    /\ UNCHANGED <<is_valid_, live, alive, holder, getting, fresh>>

Release(t) ==
    LET f == ptr_[t] IN
    /\ pc[t] = "release"
    /\ ref_count_' = [ref_count_ EXCEPT ![f] = @ - 1]
    /\ ptr_' = [ptr_ EXCEPT ![t] = NULL]
    /\ IF ref_count_[f] = 1
       THEN pc' = [pc EXCEPT ![t] = "delete"] /\ doomed' = [doomed EXCEPT ![t] = f]
       ELSE pc' = [pc EXCEPT ![t] = "idle"] /\ UNCHANGED doomed
    /\ UNCHANGED <<is_valid_, live, alive, holder, getting, fresh>>

Delete(t) ==
    /\ pc[t] = "delete"
    /\ live' = live \ {doomed[t]}
    /\ doomed' = [doomed EXCEPT ![t] = NULL]
    /\ pc' = [pc EXCEPT ![t] = "idle"]
    /\ UNCHANGED <<ptr_, ref_count_, is_valid_, alive, holder, getting, fresh>>
-----------------------------------------------------------------------------
(* WeakReferenceOwner::GetRef: a new flag if nobody shares the old one,    *)
(* which is then released, ...                                             *)
NewFlag ==
    /\ \E f \in Flags \ live :
        /\ live' = live \cup {f}
        /\ is_valid_' = [is_valid_ EXCEPT ![f] = TRUE]
        /\ Store(Home, Owner, f)
    /\ getting' = TRUE
    /\ UNCHANGED <<alive, holder, doomed, fresh>>

GetRefAlwaysNew ==                   \* forgets to look at HasRefs
    /\ Ready(Home) /\ alive /\ Empty # {}
    /\ NewFlag

GetRef ==
    /\ Ready(Home) /\ alive /\ Empty # {}
    /\ IF HasRefs
       THEN /\ getting' = TRUE
            /\ UNCHANGED <<ptr_, ref_count_, is_valid_, live, alive, holder, pc, doomed, fresh>>
       ELSE NewFlag

(* ... then a reference to it goes into the new WeakPtr.                   *)
WeakReference(h) ==
    /\ getting /\ pc[Home] = "idle"
    /\ h \in Empty
    /\ Store(Home, h, flag_)
    /\ fresh' = [fresh EXCEPT ![h] = TRUE]
    /\ getting' = FALSE
    /\ UNCHANGED <<is_valid_, live, alive, holder, doomed>>

(* WeakReferenceOwner::Invalidate, for InvalidateWeakPtrs or in the        *)
(* owner's destructor.                                                     *)
Invalidate(lives) ==
    /\ Ready(Home) /\ alive
    /\ alive' = lives
    /\ fresh' = [h \in Handles |-> FALSE]
    /\ IF flag_ = NULL THEN UNCHANGED <<is_valid_, ptr_, ref_count_, pc>>
       ELSE /\ is_valid_' = [is_valid_ EXCEPT ![flag_] = FALSE]
            /\ Store(Home, Owner, NULL)
    /\ UNCHANGED <<live, holder, doomed, getting>>

(* A thread copies one of its WeakPtrs over another, ... *)
Assign(t, h, g) ==
    /\ Ready(t) /\ holder[h] = t /\ holder[g] = t
    /\ Store(t, h, ptr_[g])
    /\ fresh' = [fresh EXCEPT ![h] = fresh[g]]
    /\ UNCHANGED <<is_valid_, live, alive, holder, doomed, getting>>

(* ... drops one (WeakPtr::reset, or the end of its life), ... *)
Reset(t, h) ==
    /\ Ready(t) /\ holder[h] = t
    /\ Store(t, h, NULL)
    /\ fresh' = [fresh EXCEPT ![h] = FALSE]
    /\ UNCHANGED <<is_valid_, live, alive, holder, doomed, getting>>

(* ... or passes one on to another thread, in a task for instance. *)
Pass(t, h, u) ==
    /\ Ready(t) /\ holder[h] = t
    /\ holder' = [holder EXCEPT ![h] = u]
    /\ UNCHANGED <<ptr_, ref_count_, is_valid_, live, alive, pc, doomed, getting, fresh>>

Next ==
    \/ GetRef
    \/ \E h \in Handles : WeakReference(h)
    \/ \E lives \in BOOLEAN : Invalidate(lives)
    \/ \E t \in Threads :
        \/ Release(t) \/ Delete(t)
        \/ \E h \in Handles :
            \/ Reset(t, h)
            \/ \E g \in Handles : Assign(t, h, g)
            \/ \E u \in Threads : Pass(t, h, u)

Spec == Init /\ [][Next]_vars
-----------------------------------------------------------------------------
(* Types; and the steps of operator= and of GetRef agree with their data.  *)
TypeOK ==
    /\ ptr_ \in [Pointers -> Flags \cup {NULL}]
    /\ ref_count_ \in [Flags -> Nat] /\ is_valid_ \in [Flags -> BOOLEAN]
    /\ live \subseteq Flags /\ alive \in BOOLEAN
    /\ holder \in [Handles -> Threads]
    /\ pc \in [Threads -> {"idle", "release", "delete"}]
    /\ doomed \in [Threads -> Flags \cup {NULL}]
    /\ getting \in BOOLEAN /\ fresh \in [Handles -> BOOLEAN]

References(f) == {x \in Pointers : ptr_[x] = f}

(* Release: the count of a flag is the number of the references to it, in  *)
(* whichever threads; it exists as long as there is one, and once the last *)
(* is gone exactly one thread is there to delete it.                       *)
CountsAreReferences ==
    \A f \in Flags :
        /\ ref_count_[f] = Cardinality(References(f))
        /\ f \notin live => References(f) = {} /\ \A t \in Threads : doomed[t] # f
        /\ \A t \in Threads : doomed[t] = f =>
            References(f) = {} /\ \A u \in Threads : doomed[u] = f => u = t
        /\ f \in live /\ References(f) = {} => \E t \in Threads : doomed[t] = f

(* WeakPtr::get: a pointer is valid exactly from GetWeakPtr until its      *)
(* owner invalidates or dies, though the owner changes its flag when all   *)
(* pointers are gone (GetRef) and flags are deleted and their memory used  *)
(* again.                                                                  *)
ValidMeansFresh ==
    \A h \in Handles : ptr_[h] # NULL => (is_valid_[ptr_[h]] <=> fresh[h])

(* The strengthening that makes the two invariants inductive: a valid flag *)
(* is the owner's present one, and the fresh pointers are those that share *)
(* it.                                                                     *)
StepsMatch ==
    \A t \in Threads :
        /\ pc[t] = "release" <=> ptr_[t] # NULL
        /\ pc[t] = "delete" <=> doomed[t] # NULL

OwnerFlagIsValid ==
    /\ flag_ # NULL => is_valid_[flag_]
    /\ getting => flag_ # NULL

FreshOnesShare ==
    \A h \in Handles :
        /\ fresh[h] <=> ptr_[h] # NULL /\ ptr_[h] = flag_
        /\ ptr_[h] # NULL => (is_valid_[ptr_[h]] <=> ptr_[h] = flag_)

IInv ==
    /\ TypeOK
    /\ CountsAreReferences
    /\ StepsMatch
    /\ OwnerFlagIsValid
    /\ FreshOnesShare
=============================================================================

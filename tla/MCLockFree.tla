----------------------------- MODULE MCLockFree -----------------------------
(* What synchronizes without locks: a one-writer sequence lock, or lazy    *)
(* instances and singletons, is the subject of a behaviour.                *)
EXTENDS OneWriterSeqLock, Sequences, TLC

CONSTANTS Threads, Stray, Main, Instances, Uses, Leaky, Static, Free, A, B, C, S

VARIABLES subject, private_instance_, dead_, stack, lock_, stack_, phase, built,
          constructed, unregistered

lazy == <<private_instance_, dead_, stack, lock_, stack_, phase, built, constructed, unregistered>>

Lazy == INSTANCE LazyInstance

ASSUME LazyAssumption == Lazy!LazyInstanceAssumption

UsesDef == A :> {B} @@ B :> {S} @@ S :> {C} @@ C :> {}

EachInit == subject \in {"seqlock", "lazy"} /\ Init /\ Lazy!Init

Locking(A_) == subject = "seqlock" /\ A_ /\ UNCHANGED <<subject, lazy>>
Creating(A_) == subject = "lazy" /\ A_ /\ UNCHANGED <<subject, vars>>

EachNext == Locking(Next) \/ Creating(Lazy!Next)

EachSpec == EachInit /\ [][EachNext]_<<subject, vars, lazy>>

(* The fairness of the two specifications; the main thread is the writer,  *)
(* and readers are other threads.                                          *)
FairEachSpec ==
    /\ EachSpec
    /\ \A t \in Threads \cup {Main} :
        WF_<<subject, vars, lazy>>((t = Main /\ Locking(Writer))
                                   \/ (t \in Readers /\ Locking(Reader(t)))
                                   \/ Creating(Lazy!Step(t)))
    /\ WF_<<subject, vars, lazy>>(Creating(Lazy!Exit))

(* The types of both. *)
TypesOK == TypeOK /\ Lazy!TypeOK

(* "Get() and Pointer() will always return the same, completely            *)
(* initialized instance" (lazy_instance.h), and a destructor at exit finds *)
(* the instances it uses not destroyed yet (LIFO order).                   *)
UsedIsBuilt == Lazy!PointerIsBuilt /\ Lazy!DestroyedBeforeUsed

(* "The Type constructor will only ever be called once" (lazy_instance.h): *)
(* in every order of threads and of the exit, ...                          *)
ConstructedOnce == Lazy!ConstructedOnce

(* ... or but for instances that were used between their publication and   *)
(* their registration, and for every singleton in static memory.           *)
ConstructedOnceIfRegistered == Lazy!ConstructedOnceIfRegistered

(* Every call of Pointer returns, those of the losers of the race too, and *)
(* the exit ends.                                                          *)
CallsReturn == Lazy!PointerReturns /\ Lazy!ExitEnds
=============================================================================

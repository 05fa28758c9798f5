----------------------------- MODULE MCCallbacks ----------------------------
(* Weak pointers, observers and subscriptions: each behaviour has one of   *)
(* them for its subject.  The sets may share their values, which keeps the *)
(* symmetry small.                                                         *)
EXTENDS WeakPtr, TLC

CONSTANTS Observers, MaxSize, MaxDepth, Nodes, None, End

VARIABLES subject, observers_, notify_depth_, type_, listed, iterators,
          callbacks_, null, active_iterator_count_, running

observing == <<observers_, notify_depth_, type_, listed, iterators>>
subscribing == <<callbacks_, null, active_iterator_count_, running>>

Observing == INSTANCE ObserverList WITH Null <- NULL, alive <- listed
Subscribing == INSTANCE CallbackList WITH iterators <- running

ASSUME ListsAssumption ==
    Observing!ObserverListAssumption /\ Subscribing!CallbackListAssumption

Symmetry == UNION {Permutations(S) : S \in {Handles, Flags, Observers, Nodes}}

EachInit ==
    /\ subject \in {"pointers", "observers", "subscriptions"}
    /\ Init /\ Observing!Init /\ Subscribing!Init
    /\ subject # "pointers" => holder = [h \in Handles |-> Home]
    /\ subject # "observers" => type_ = "all"

EachNext ==
    /\ \/ subject = "pointers" /\ Next /\ UNCHANGED <<observing, subscribing>>
       \/ subject = "observers" /\ Observing!Next /\ UNCHANGED <<vars, subscribing>>
       \/ subject = "subscriptions" /\ Subscribing!Next /\ UNCHANGED <<vars, observing>>
    /\ UNCHANGED subject

EachSpec == EachInit /\ [][EachNext]_<<subject, vars, observing, subscribing>>

(* The types of the three. *)
TypesOK == TypeOK /\ Observing!TypeOK /\ Subscribing!TypeOK

(* What is removed while loops run leaves a hole, or its node, until the   *)
(* last of them ends, and every iterator stays valid.                      *)
ListsOutliveLoops == Observing!HolesOnlyInLoops /\ Subscribing!IteratorsAreValid

(* A notification calls the observers it owes a call, in their order, ...  *)
CallsWhomItOwes == Observing!CallsWhomItOwes

(* ... and Notify the callbacks.                                           *)
RunsWhomItOwes == Subscribing!RunsWhomItOwes
=============================================================================

---------------------------- MODULE ObserverList ----------------------------
(***************************************************************************)
(* ObserverListBase and its Iterator (base/observer_list.h), with the loop *)
(* of FOR_EACH_OBSERVER: a vector of observers in which those removed      *)
(* during a notification are nulled, and that is compacted when the        *)
(* outermost notification ends.  One thread; observers may do anything to  *)
(* the list while they are called, its destruction included, which the     *)
(* iterators' weak pointers notice.                                        *)
(***************************************************************************)
EXTENDS Filters

CONSTANTS
    Observers,
    Null,       \* a NULL pointer
    MaxSize,    \* bound: length of the vector
    MaxDepth    \* bound: nested notifications

ObserverListAssumption ==
    Null \notin Observers /\ MaxSize \in Nat /\ MaxDepth \in Nat

VARIABLES
    observers_,     \* the vector
    notify_depth_,
    type_,          \* "all": NOTIFY_ALL; "existing": NOTIFY_EXISTING_ONLY
    alive,          \* the list is not destroyed: its weak pointers are valid
    iterators       \* the iterators of the nested loops, innermost last,
                    \* each with the observer its loop is calling

vars == <<observers_, notify_depth_, type_, alive, iterators>>

NumericLimitsMax == MaxSize + 1

Types == {"all", "existing"}
Iterators == [index : Nat, max_index : Nat, obs : Observers \union {Null}]

Init ==
    /\ observers_ = <<>> /\ notify_depth_ = 0
    /\ type_ \in Types
    /\ alive = TRUE
    /\ iterators = <<>>
-----------------------------------------------------------------------------
NonNull(s) == Filter(s, Observers)
Positions(o) == {i \in DOMAIN observers_ : observers_[i] = o}
Least(S) == CHOOSE i \in S : \A j \in S : i <= j

Depth == Len(iterators)
It == iterators[Depth]

(* The client is at work: no loop runs, or it runs inside an observer.     *)
InClient == Depth > 0 => It.obs # Null

(* The index up to which an iterator looks. *)
Limit(it) == IF it.max_index < Len(observers_) THEN it.max_index ELSE Len(observers_)

(* Where GetNext's loop finds observers that the iterator has not passed.  *)
Pending(it) == {i \in it.index..Limit(it) : observers_[i] # Null}
-----------------------------------------------------------------------------
AddObserver(o) ==
    /\ alive /\ InClient /\ Len(observers_) < MaxSize
    /\ Positions(o) = {}
    /\ observers_' = Append(observers_, o)
    /\ UNCHANGED <<notify_depth_, type_, alive, iterators>>

(* Nulled while a notification runs, erased otherwise. *)
RemoveObserver(o) ==
    /\ alive /\ InClient
    /\ \E i \in Positions(o) :
        observers_' =
            IF notify_depth_ > 0 THEN [observers_ EXCEPT ![i] = Null]
            ELSE SubSeq(observers_, 1, i - 1) \o SubSeq(observers_, i + 1, Len(observers_))
    /\ UNCHANGED <<notify_depth_, type_, alive, iterators>>

Clear ==
    /\ alive /\ InClient
    /\ observers_' = IF notify_depth_ > 0 THEN [i \in DOMAIN observers_ |-> Null] ELSE <<>>
    /\ UNCHANGED <<notify_depth_, type_, alive, iterators>>

(* The destructor: weak pointers to the list become invalid. *)
Destroy ==
    /\ alive /\ InClient
    /\ alive' = FALSE
    /\ observers_' = <<>> /\ notify_depth_' = 0
    /\ UNCHANGED <<type_, iterators>>

(* FOR_EACH_OBSERVER up to the iterator's constructor. *)
ForEachObserver ==
    /\ alive /\ InClient /\ Depth < MaxDepth
    /\ observers_ # <<>>
    /\ iterators' = Append(iterators,
            [index |-> 1, obs |-> Null,
             max_index |-> IF type_ = "all" THEN NumericLimitsMax ELSE Len(observers_)])
    /\ notify_depth_' = notify_depth_ + 1
    /\ UNCHANGED <<observers_, type_, alive>>

(* GetNext finds an observer, which the loop calls. *)
GetNext ==
    /\ ~InClient /\ alive /\ Pending(It) # {}
    /\ LET i == Least(Pending(It)) IN
        iterators' = [iterators EXCEPT ![Depth].index = i + 1, ![Depth].obs = observers_[i]]
    /\ UNCHANGED <<observers_, notify_depth_, type_, alive>>

(* The observer's function returns. *)
ObserverReturns ==
    /\ Depth > 0 /\ It.obs # Null
    /\ iterators' = [iterators EXCEPT ![Depth].obs = Null]
    /\ UNCHANGED <<observers_, notify_depth_, type_, alive>>

Compact == observers_' = NonNull(observers_)

(* GetNext returns NULL and the iterator is destroyed: the one of the      *)
(* outermost loop compacts the list.                                       *)
LoopEndsCompacting ==
    /\ ~InClient /\ (alive => Pending(It) = {})
    /\ iterators' = SubSeq(iterators, 1, Depth - 1)
    /\ IF alive
       THEN notify_depth_' = notify_depth_ - 1 /\ Compact
       ELSE UNCHANGED <<notify_depth_, observers_>>
    /\ UNCHANGED <<type_, alive>>

LoopEndsUnchecked ==
    /\ ~InClient /\ (alive => Pending(It) = {})
    /\ iterators' = SubSeq(iterators, 1, Depth - 1)
    /\ notify_depth_' = notify_depth_ - 1
    /\ IF notify_depth_' = 0 THEN Compact ELSE UNCHANGED observers_
    /\ UNCHANGED <<type_, alive>>

LoopEndsNever ==
    /\ ~InClient /\ (alive => Pending(It) = {})
    /\ iterators' = SubSeq(iterators, 1, Depth - 1)
    /\ IF alive THEN notify_depth_' = notify_depth_ - 1 ELSE UNCHANGED notify_depth_
    /\ UNCHANGED <<observers_, type_, alive>>

LoopEnds ==
    /\ ~InClient /\ (alive => Pending(It) = {})
    /\ iterators' = SubSeq(iterators, 1, Depth - 1)
    /\ IF alive
       THEN /\ notify_depth_' = notify_depth_ - 1
            /\ IF notify_depth_' = 0 THEN Compact ELSE UNCHANGED observers_
       ELSE UNCHANGED <<notify_depth_, observers_>>
    /\ UNCHANGED <<type_, alive>>

Next ==
    \/ \E o \in Observers : AddObserver(o) \/ RemoveObserver(o)
    \/ Clear \/ Destroy
    \/ ForEachObserver \/ GetNext \/ ObserverReturns \/ LoopEnds

Spec == Init /\ [][Next]_vars
-----------------------------------------------------------------------------
(* Types of the vector and of the iterators; the depth is never negative,  *)
(* though loops outlive the list whose destructor they called.             *)
TypeOK ==
    /\ observers_ \in Seq(Observers \union {Null}) /\ Len(observers_) <= MaxSize
    /\ notify_depth_ \in 0..MaxDepth
    /\ type_ \in Types /\ alive \in BOOLEAN
    /\ iterators \in Seq(Iterators)

(* The vector has holes only while a notification runs: Compact is not     *)
(* missed when the outermost iterator goes, and notify_depth_, which       *)
(* decides who that is, counts the loops that run.                         *)
HolesOnlyInLoops ==
    /\ alive => notify_depth_ = Depth
    /\ (alive /\ Depth = 0) => Null \notin {observers_[i] : i \in DOMAIN observers_}

(* The observers a loop has still to call. *)
Owed(it) == IF alive THEN NonNull(SubSeq(observers_, it.index, Limit(it))) ELSE <<>>

Running == [i \in 1..Depth |-> [calling |-> iterators[i].obs, owed |-> Owed(iterators[i])]]

List == INSTANCE NotificationList WITH
    Members <- Observers, Nobody <- Null,
    members <- NonNull(observers_), running <- Running, policy <- type_

(* The overview's promise ("can be modified during iteration without       *)
(* invalidating the iterator") and those of the NotificationType comments: *)
(* every notification calls whom it owes a call, once, in order.           *)
CallsWhomItOwes == List!Spec

(* What makes these inductive: nobody is in the vector twice, the loops    *)
(* are within it, and those that were told where to stop stop there.       *)
NobodyTwice ==
    \A i, j \in DOMAIN observers_ : observers_[i] = observers_[j] => i = j \/ observers_[i] = Null

LoopsInRange ==
    /\ Depth <= MaxDepth
    /\ alive => \A n \in DOMAIN iterators :
        /\ iterators[n].index \in 1..(Len(observers_) + 1)
        /\ IF type_ = "all" THEN iterators[n].max_index = NumericLimitsMax
                            ELSE iterators[n].max_index <= Len(observers_)

IInv == TypeOK /\ HolesOnlyInLoops /\ NobodyTwice /\ LoopsInRange
=============================================================================

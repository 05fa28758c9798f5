---------------------------- MODULE CallbackList ----------------------------
(***************************************************************************)
(* CallbackListBase, its Iterator and Subscription, and CallbackList's     *)
(* Notify (base/callback_list.h): a linked list of callbacks in which      *)
(* those unsubscribed during a notification are reset, and that is         *)
(* compacted when the last active iterator goes.  One thread; callbacks    *)
(* may add, unsubscribe and notify.                                        *)
(***************************************************************************)
EXTENDS Filters

CONSTANTS
    Nodes,      \* nodes of the linked list; a node erased may be used again
    None,       \* no callback is called
    End,        \* callbacks_.end()
    MaxDepth    \* bound: nested notifications

CallbackListAssumption ==
    None \notin Nodes /\ End \notin Nodes /\ MaxDepth \in Nat

VARIABLES
    callbacks_,               \* the nodes, in the list's order
    null,                     \* the nodes whose callback was reset
    active_iterator_count_,
    iterators                 \* the iterators of the nested notifications,
                              \* innermost last: the node each stands at and
                              \* the callback being called

vars == <<callbacks_, null, active_iterator_count_, iterators>>

Iterators == [list_iter : Nodes \union {End}, cb : Nodes \union {None}]

Init ==
    /\ callbacks_ = <<>> /\ null = {}
    /\ active_iterator_count_ = 0
    /\ iterators = <<>>
-----------------------------------------------------------------------------
Listed == {callbacks_[i] : i \in DOMAIN callbacks_}
Position(n) == CHOOSE i \in DOMAIN callbacks_ : callbacks_[i] = n
NodeAt(i) == IF i \in DOMAIN callbacks_ THEN callbacks_[i] ELSE End
Set(s) == Filter(s, Nodes \ null)   \* those that are not reset

Depth == Len(iterators)
It == iterators[Depth]
InClient == Depth > 0 => It.cb # None

(* The list from the node an iterator stands at. *)
Rest(it) == IF it.list_iter \in Listed
            THEN SubSeq(callbacks_, Position(it.list_iter), Len(callbacks_))
            ELSE <<>>

(* Where GetNext's loop stops: the first callback that is not reset.       *)
Found(it) == {n \in Listed : /\ n \notin null /\ it.list_iter \in Listed
                             /\ Position(n) >= Position(it.list_iter)}
-----------------------------------------------------------------------------
Add(n) ==
    /\ InClient
    /\ n \in Nodes \ Listed
    /\ callbacks_' = Append(callbacks_, n)
    /\ UNCHANGED <<null, active_iterator_count_, iterators>>

(* ~Subscription *)
UnsubscribeErases(n) ==
    /\ InClient
    /\ n \in Listed \ null
    /\ callbacks_' = Filter(callbacks_, Nodes \ {n})
    /\ UNCHANGED <<null, active_iterator_count_, iterators>>

Unsubscribe(n) ==
    /\ InClient
    /\ n \in Listed \ null
    /\ IF active_iterator_count_ > 0
       THEN null' = null \union {n} /\ UNCHANGED callbacks_
       ELSE callbacks_' = Filter(callbacks_, Nodes \ {n}) /\ UNCHANGED null
    /\ UNCHANGED <<active_iterator_count_, iterators>>

(* Notify up to the construction of the iterator, which GetIterator        *)
(* returns by value.                                                       *)
NotifyUncounted ==
    /\ InClient /\ Depth < MaxDepth
    /\ iterators' = Append(iterators, [list_iter |-> NodeAt(1), cb |-> None])
    /\ UNCHANGED <<callbacks_, null, active_iterator_count_>>

Notify ==
    /\ InClient /\ Depth < MaxDepth
    /\ iterators' = Append(iterators, [list_iter |-> NodeAt(1), cb |-> None])
    /\ active_iterator_count_' = active_iterator_count_ + 1
    /\ UNCHANGED <<callbacks_, null>>

(* GetNext finds a callback, which Notify runs, and steps past it. *)
GetNextAnyNode ==
    /\ ~InClient /\ It.list_iter # End
    /\ iterators' = [iterators EXCEPT
            ![Depth] = [list_iter |-> NodeAt(Position(It.list_iter) + 1), cb |-> It.list_iter]]
    /\ UNCHANGED <<callbacks_, null, active_iterator_count_>>

GetNext ==
    /\ ~InClient
    /\ \E n \in Found(It) :
        /\ \A m \in Found(It) : Position(n) <= Position(m)
        /\ iterators' = [iterators EXCEPT
                ![Depth] = [list_iter |-> NodeAt(Position(n) + 1), cb |-> n]]
    /\ UNCHANGED <<callbacks_, null, active_iterator_count_>>

CallbackReturns ==
    /\ Depth > 0 /\ It.cb # None
    /\ iterators' = [iterators EXCEPT ![Depth].cb = None]
    /\ UNCHANGED <<callbacks_, null, active_iterator_count_>>

Compact == callbacks_' = Set(callbacks_) /\ null' = {}

(* GetNext returns NULL and the iterator is destroyed. *)
NotifyEnds ==
    /\ ~InClient /\ Found(It) = {}
    /\ iterators' = SubSeq(iterators, 1, Depth - 1)
    /\ active_iterator_count_' = active_iterator_count_ - 1
    /\ IF active_iterator_count_' = 0 THEN Compact ELSE UNCHANGED <<callbacks_, null>>

Next ==
    \/ \E n \in Nodes : Add(n) \/ Unsubscribe(n)
    \/ Notify \/ GetNext \/ CallbackReturns \/ NotifyEnds

Spec == Init /\ [][Next]_vars
-----------------------------------------------------------------------------
(* Types of the list and of the iterators; a reset node is in the list     *)
(* until Compact erases it.                                                *)
TypeOK ==
    /\ callbacks_ \in Seq(Nodes)
    /\ null \subseteq Listed
    /\ active_iterator_count_ \in 0..MaxDepth
    /\ iterators \in Seq(Iterators)

(* "Can be modified during iteration without invalidating the iterator"    *)
(* (callback_list.h): an active iterator stands at the end of the list or  *)
(* at a node that has not been erased, and the callback being called is    *)
(* still in its node; and the nodes kept for the sake of iterators go when *)
(* the last iterator goes, or the list's destructor would find them.       *)
IteratorsAreValid ==
    /\ \A i \in DOMAIN iterators :
        /\ iterators[i].list_iter \in Listed \union {End}
        /\ iterators[i].cb \in Listed \union {None}
    /\ iterators = <<>> => null = {} /\ active_iterator_count_ = 0

(* The callbacks an iterator has still to run. *)
Owed(it) == Set(Rest(it))
Running == [i \in 1..Depth |-> [calling |-> iterators[i].cb, owed |-> Owed(iterators[i])]]

List == INSTANCE NotificationList WITH
    Members <- Nodes, Nobody <- None,
    members <- Set(callbacks_),
    running <- Running, alive <- TRUE, policy <- "pending"

(* A notification runs each callback subscribed when it began, or added    *)
(* while there was another one to run, once and in order, unless its       *)
(* subscription is destroyed first.                                        *)
RunsWhomItOwes == List!Spec

(* What makes these inductive: a node is in the list once, and the count   *)
(* is that of the notifications that run.                                  *)
NodesOnce == \A i, j \in DOMAIN callbacks_ : callbacks_[i] = callbacks_[j] => i = j
LoopsAreCounted == active_iterator_count_ = Depth /\ Depth <= MaxDepth

IInv == TypeOK /\ IteratorsAreValid /\ NodesOnce /\ LoopsAreCounted
=============================================================================

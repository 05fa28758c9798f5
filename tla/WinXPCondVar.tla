----------------------------- MODULE WinXPCondVar -----------------------------
(***************************************************************************)
(* base::ConditionVariable where the system has none of its own: the       *)
(* WinXPCondVar of synchronization/condition_variable_win.cc.  Each waiter *)
(* gets an auto-reset event; Signal and Broadcast pick events under        *)
(* internal_lock_ and set them after they have released it; events are     *)
(* recycled.                                                               *)
(*                                                                         *)
(* Every section of internal_lock_ is one action.  The circular lists of   *)
(* class Event are sequences of event numbers: PushBack is Append,         *)
(* PopFront takes the head, PopBack the last, Extract unlinks an event     *)
(* from the list that has it, if one has.                                  *)
(***************************************************************************)
EXTENDS Naturals, Sequences, FiniteSets, SequencesExt

CONSTANTS Threads, NoThread,
          TimedThreads,  \* the threads that may wait with a deadline
          MaxWaits,      \* bound: calls of Wait and TimedWait
          MaxSignals     \* bound: calls of Signal and Broadcast

ASSUME CondVarAssumption ==
  /\ IsFiniteSet(Threads) /\ NoThread \notin Threads /\ TimedThreads \subseteq Threads
  /\ MaxWaits \in Nat /\ MaxSignals \in Nat

Events == 1 .. MaxWaits
NoEvent == 0

VARIABLES
  run_state_, user_lock_, waiting_list_,
  recycling_list_, recycling_list_size_, allocation_counter_,
  set,             \* the events that SetEvent has set and no wait has reset
  pc,
  waiting_event,   \* local of TimedWait
  reason,          \* why WaitForSingleObject returned: "event" or "timeout"
  handles,         \* local of Signal and Broadcast: the events still to set
  raced,           \* has a wait timed out on an event that was picked already
  waits, signals

listVars == <<waiting_list_, recycling_list_, recycling_list_size_, allocation_counter_>>
localVars == <<pc, waiting_event, reason, handles>>
vars == <<run_state_, user_lock_, listVars, set, localVars, raced, waits, signals>>

Init ==
  /\ run_state_ = "RUNNING" /\ user_lock_ = NoThread
  /\ waiting_list_ = <<>> /\ recycling_list_ = <<>>
  /\ recycling_list_size_ = 0 /\ allocation_counter_ = 0
  /\ set = {}
  /\ pc = [t \in Threads |-> "ready"]
  /\ waiting_event = [t \in Threads |-> NoEvent]
  /\ reason = [t \in Threads |-> "event"]
  /\ handles = [t \in Threads |-> <<>>]
  /\ raced = FALSE /\ waits = 0 /\ signals = 0

Goto(t, label) == pc' = [pc EXCEPT ![t] = label]
Elements(list) == {list[i] : i \in 1 .. Len(list)}

Extract(list, e) ==
  IF e \in Elements(list) THEN RemoveAt(list, CHOOSE i \in 1 .. Len(list) : list[i] = e)
  ELSE list
-----------------------------------------------------------------------------
(* Mutated forms, each one plausible slip in the definition it is named    *)
(* after; a property must fail when it takes that definition's place.      *)
GetEventUncounted(t) ==              \* allocation_counter_++ is forgotten
  IF recycling_list_size_ = 0
    THEN /\ waiting_event' = [waiting_event EXCEPT ![t] = allocation_counter_ + 1]
         /\ waiting_list_' = Append(waiting_list_, allocation_counter_ + 1)
         /\ UNCHANGED <<recycling_list_, recycling_list_size_, allocation_counter_>>
    ELSE /\ waiting_event' = [waiting_event EXCEPT ![t] = Head(recycling_list_)]
         /\ waiting_list_' = Append(waiting_list_, Head(recycling_list_))
         /\ recycling_list_' = Tail(recycling_list_)
         /\ recycling_list_size_' = recycling_list_size_ - 1
         /\ UNCHANGED allocation_counter_
GetEventNotListed(t) ==              \* a recycled event is not put on waiting_list_
  IF recycling_list_size_ = 0
    THEN /\ waiting_event' = [waiting_event EXCEPT ![t] = allocation_counter_ + 1]
         /\ waiting_list_' = Append(waiting_list_, allocation_counter_ + 1)
         /\ allocation_counter_' = allocation_counter_ + 1
         /\ UNCHANGED <<recycling_list_, recycling_list_size_>>
    ELSE /\ waiting_event' = [waiting_event EXCEPT ![t] = Head(recycling_list_)]
         /\ recycling_list_' = Tail(recycling_list_)
         /\ recycling_list_size_' = recycling_list_size_ - 1
         /\ UNCHANGED <<allocation_counter_, waiting_list_>>
RecycleEventNoExtract(e) ==          \* a timed-out event stays in waiting_list_
  /\ recycling_list_' = Append(recycling_list_, e)
  /\ recycling_list_size_' = recycling_list_size_ + 1
  /\ UNCHANGED <<waiting_list_, allocation_counter_>>
WakeNoReset(t) ==                    \* the event is created manual-reset
  /\ pc[t] = "waiting" /\ waiting_event[t] \in set
  /\ reason' = [reason EXCEPT ![t] = "event"]
  /\ Goto(t, "woken")
  /\ UNCHANGED <<run_state_, user_lock_, listVars, set, waiting_event, handles,
                 raced, waits, signals>>
SetEventOnce(t) ==                   \* Broadcast sets the first and is done
  /\ pc[t] \in {"setting", "lastSetting"}
  /\ set' = set \cup {Head(handles[t])}
  /\ handles' = [handles EXCEPT ![t] = <<>>]
  /\ Goto(t, IF pc[t] = "setting" THEN "ready" ELSE "sleeping")
  /\ UNCHANGED <<run_state_, user_lock_, listVars, waiting_event, reason, raced, waits, signals>>
LastBroadcastSkipped(t) ==           \* goes to sleep without waking anyone
  /\ pc[t] = "closing"
  /\ Goto(t, "sleeping")
  /\ UNCHANGED <<run_state_, user_lock_, listVars, set, waiting_event, reason, handles,
                 raced, waits, signals>>

(* The user's code around the calls: it takes and releases user_lock_.     *)
AcquireUserLock(t) ==
  /\ pc[t] = "ready" /\ user_lock_ = NoThread /\ run_state_ = "RUNNING"
  /\ user_lock_' = t
  /\ UNCHANGED <<run_state_, listVars, set, localVars, raced, waits, signals>>

ReleaseUserLock(t) ==
  /\ pc[t] = "ready" /\ user_lock_ = t
  /\ user_lock_' = NoThread
  /\ UNCHANGED <<run_state_, listVars, set, localVars, raced, waits, signals>>

(* GetEventForWaiting takes the oldest recycled event, or makes one.       *)
GetEventForWaiting(t) ==
  IF recycling_list_size_ = 0
    THEN /\ waiting_event' = [waiting_event EXCEPT ![t] = allocation_counter_ + 1]
         /\ waiting_list_' = Append(waiting_list_, allocation_counter_ + 1)
         /\ allocation_counter_' = allocation_counter_ + 1
         /\ UNCHANGED <<recycling_list_, recycling_list_size_>>
    ELSE /\ waiting_event' = [waiting_event EXCEPT ![t] = Head(recycling_list_)]
         /\ waiting_list_' = Append(waiting_list_, Head(recycling_list_))
         /\ recycling_list_' = Tail(recycling_list_)
         /\ recycling_list_size_' = recycling_list_size_ - 1
         /\ UNCHANGED allocation_counter_

RecycleEvent(e) ==
  /\ waiting_list_' = Extract(waiting_list_, e)
  /\ recycling_list_' = Append(Extract(recycling_list_, e), e)
  /\ recycling_list_size_' = recycling_list_size_ + 1
  /\ UNCHANGED allocation_counter_

(* TimedWait commits to the wait under internal_lock_, while it still has  *)
(* the user's lock; not when destruction is in progress.                   *)
TimedWait(t) ==
  /\ pc[t] = "ready" /\ user_lock_ = t /\ waits < MaxWaits
  /\ waits' = waits + 1
  /\ IF run_state_ # "RUNNING"
       THEN UNCHANGED <<listVars, pc, waiting_event>>
       ELSE GetEventForWaiting(t) /\ Goto(t, "unlock")
  /\ UNCHANGED <<run_state_, user_lock_, set, reason, handles, raced, signals>>

ReleaseAndWait(t) ==
  /\ pc[t] = "unlock"
  /\ user_lock_' = NoThread
  /\ Goto(t, "waiting")
  /\ UNCHANGED <<run_state_, listVars, set, waiting_event, reason, handles, raced, waits, signals>>

(* WaitForSingleObject: the event resets itself, or the time is over.      *)
Wake(t) ==
  /\ pc[t] = "waiting" /\ waiting_event[t] \in set
  /\ set' = set \ {waiting_event[t]}
  /\ reason' = [reason EXCEPT ![t] = "event"]
  /\ Goto(t, "woken")
  /\ UNCHANGED <<run_state_, user_lock_, listVars, waiting_event, handles, raced, waits, signals>>

TimeOut(t) ==
  /\ pc[t] = "waiting" /\ t \in TimedThreads
  /\ reason' = [reason EXCEPT ![t] = "timeout"]
  /\ Goto(t, "woken")
  /\ UNCHANGED <<run_state_, user_lock_, listVars, set, waiting_event, handles,
                 raced, waits, signals>>

Recycle(t) ==
  /\ pc[t] = "woken"
  /\ RecycleEvent(waiting_event[t])
  /\ raced' = (raced \/ (reason[t] = "timeout"
                         /\ waiting_event[t] \notin Elements(waiting_list_)))
  /\ waiting_event' = [waiting_event EXCEPT ![t] = NoEvent]
  /\ Goto(t, "acquire")
  /\ UNCHANGED <<run_state_, user_lock_, set, reason, handles, waits, signals>>

Reacquire(t) ==
  /\ pc[t] = "acquire" /\ user_lock_ = NoThread
  /\ user_lock_' = t
  /\ Goto(t, "ready")
  /\ UNCHANGED <<run_state_, listVars, set, waiting_event, reason, handles, raced, waits, signals>>

(* Signal picks the thread that went to sleep last, Broadcast all of them. *)
Signal(t) ==
  /\ pc[t] = "ready" /\ run_state_ = "RUNNING" /\ signals < MaxSignals
  /\ signals' = signals + 1
  /\ IF waiting_list_ = <<>>
       THEN UNCHANGED <<waiting_list_, handles, pc>>
       ELSE /\ waiting_list_' = Front(waiting_list_)
            /\ handles' = [handles EXCEPT ![t] = <<Last(waiting_list_)>>]
            /\ Goto(t, "setting")
  /\ UNCHANGED <<run_state_, user_lock_, recycling_list_, recycling_list_size_,
                 allocation_counter_, set, waiting_event, reason, raced, waits>>

TakeAll(t) ==
  /\ waiting_list_' = <<>>
  /\ handles' = [handles EXCEPT ![t] = waiting_list_]

Broadcast(t) ==
  /\ pc[t] = "ready" /\ run_state_ = "RUNNING" /\ signals < MaxSignals
  /\ signals' = signals + 1
  /\ TakeAll(t)
  /\ IF waiting_list_ = <<>> THEN UNCHANGED pc ELSE Goto(t, "setting")
  /\ UNCHANGED <<run_state_, user_lock_, recycling_list_, recycling_list_size_,
                 allocation_counter_, set, waiting_event, reason, raced, waits>>

SetEvent(t) ==
  /\ pc[t] \in {"setting", "lastSetting"}
  /\ set' = set \cup {Head(handles[t])}
  /\ handles' = [handles EXCEPT ![t] = Tail(@)]
  /\ IF Len(handles[t]) > 1 THEN UNCHANGED pc
     ELSE Goto(t, IF pc[t] = "setting" THEN "ready" ELSE "sleeping")
  /\ UNCHANGED <<run_state_, user_lock_, listVars, waiting_event, reason, raced, waits, signals>>
-----------------------------------------------------------------------------
(* The destructor, which no call of Signal or Broadcast may overlap.  With *)
(* every event recycled it is over at once; else it lets go of the lock,   *)
(* broadcasts, sleeps, and finds them recycled: the sleep is taken to be   *)
(* long enough for the threads that were woken.                            *)
Shutdown(t) ==
  /\ pc[t] = "ready" /\ run_state_ = "RUNNING" /\ user_lock_ # t
  /\ \A s \in Threads : pc[s] # "setting"
  /\ run_state_' = "SHUTDOWN"
  /\ Goto(t, IF recycling_list_size_ = allocation_counter_ THEN "destroyed" ELSE "closing")
  /\ UNCHANGED <<user_lock_, listVars, set, waiting_event, reason, handles, raced, waits, signals>>

LastBroadcast(t) ==
  /\ pc[t] = "closing"
  /\ TakeAll(t)
  /\ Goto(t, IF waiting_list_ = <<>> THEN "sleeping" ELSE "lastSetting")
  /\ UNCHANGED <<run_state_, user_lock_, recycling_list_, recycling_list_size_,
                 allocation_counter_, set, waiting_event, reason, raced, waits, signals>>

Destroy(t) ==
  /\ pc[t] = "sleeping" /\ recycling_list_size_ = allocation_counter_
  /\ Goto(t, "destroyed")
  /\ UNCHANGED <<run_state_, user_lock_, listVars, set, waiting_event, reason, handles,
                 raced, waits, signals>>
-----------------------------------------------------------------------------
(* What a thread does by itself once it is in a call. *)
Step(t) == ReleaseAndWait(t) \/ Wake(t) \/ Recycle(t) \/ SetEvent(t)
           \/ LastBroadcast(t) \/ Destroy(t)

Next ==
  \E t \in Threads :
    \/ AcquireUserLock(t) \/ ReleaseUserLock(t) \/ Reacquire(t)
    \/ TimedWait(t) \/ TimeOut(t) \/ Signal(t) \/ Broadcast(t) \/ Shutdown(t)
    \/ Step(t)

Spec == Init /\ [][Next]_vars

(* A thread inside a call runs on.  Nothing makes a thread call, let go of *)
(* the user's lock, or get it back, and no deadline has to pass.           *)
FairSpec == Spec /\ \A t \in Threads : WF_vars(Step(t))
-----------------------------------------------------------------------------
Labels == {"ready", "unlock", "waiting", "woken", "acquire", "setting", "closing",
           "lastSetting", "sleeping", "destroyed"}

Types ==
  /\ run_state_ \in {"RUNNING", "SHUTDOWN"}
  /\ user_lock_ \in Threads \cup {NoThread}
  /\ waiting_list_ \in Seq(Events) /\ recycling_list_ \in Seq(Events)
  /\ recycling_list_size_ \in Nat /\ allocation_counter_ \in 0 .. MaxWaits
  /\ set \subseteq Events
  /\ pc \in [Threads -> Labels]
  /\ waiting_event \in [Threads -> Events \cup {NoEvent}]
  /\ reason \in [Threads -> {"event", "timeout"}]
  /\ handles \in [Threads -> Seq(Events)]
  /\ raced \in BOOLEAN
  /\ waits \in 0 .. MaxWaits /\ signals \in 0 .. MaxSignals

InCall == {t \in Threads : pc[t] \in {"unlock", "waiting", "woken"}}
Picked == set \cup UNION {Elements(handles[t]) : t \in Threads}

HandedOut ==
  Elements(waiting_list_) \cup Elements(recycling_list_)
    \cup {waiting_event[t] : t \in InCall} \cup Picked

(* Types; and every event in use (listed, waited for, set, or about to be  *)
(* set) is one that GetEventForWaiting has made and counted in             *)
(* allocation_counter_, which the destructor compares with.                *)
TypeOK == Types /\ HandedOut \subseteq 1 .. allocation_counter_

(* No event is lost or shared: each one allocated is in the recycling list *)
(* or belongs to one thread inside TimedWait, and the two counters the     *)
(* destructor compares say so.  An event picked by Signal leaves the list  *)
(* but not its thread.                                                     *)
EventsAccounted ==
  /\ recycling_list_size_ = Len(recycling_list_)
  /\ 1 .. allocation_counter_ = Elements(recycling_list_) \cup {waiting_event[t] : t \in InCall}
  /\ \A t \in InCall : waiting_event[t] \notin Elements(recycling_list_)
  /\ \A s, t \in InCall : waiting_event[s] = waiting_event[t] => s = t
  /\ Elements(waiting_list_) \subseteq {waiting_event[t] : t \in InCall}
  /\ allocation_counter_ <= Cardinality(Threads)

(* A thread that waits can be found by the next Signal, from before it     *)
(* gives up the user's lock; or else it has been picked, and the event it  *)
(* waits for is set or is about to be.                                     *)
WaiterIsReachable ==
  \A t \in Threads :
    pc[t] \in {"unlock", "waiting"} =>
      \/ waiting_event[t] \in Elements(waiting_list_) \cup set
      \/ \E s \in Threads : waiting_event[t] \in Elements(handles[s])

(* FAQ 3 and 4: a wait returns without having been picked only after some  *)
(* wait has timed out on an event that Signal or Broadcast had picked.     *)
SpuriousOnlyAfterRace ==
  ~raced => \A t \in Threads :
              pc[t] = "waiting" /\ waiting_event[t] \in set =>
                waiting_event[t] \notin Elements(waiting_list_)

(* The strengthening that makes these inductive.  A wait makes one event   *)
(* at most; both lists hold an event once; a thread has events to set      *)
(* exactly while it is at it; and until two steps have raced, an event     *)
(* that was picked is in one place, still belongs to the thread it was     *)
(* picked for, and that thread is not in a list, nor has it been woken by  *)
(* it.                                                                     *)
ListsDistinct == IsInjective(waiting_list_) /\ IsInjective(recycling_list_)

HandlesMatch ==
  \A t \in Threads : handles[t] # <<>> <=> pc[t] \in {"setting", "lastSetting"}

PickedOnce ==
  /\ \A e \in Picked : /\ e \notin Elements(waiting_list_)
                       /\ \E t \in InCall : waiting_event[t] = e
  /\ \A t \in Threads :
       /\ IsInjective(handles[t])
       /\ Elements(handles[t]) \cap set = {}
       /\ \A s \in Threads \ {t} : Elements(handles[s]) \cap Elements(handles[t]) = {}
       /\ pc[t] = "woken" /\ reason[t] = "event" =>
            waiting_event[t] \notin Picked \cup Elements(waiting_list_)

IInv ==
  /\ Types
  /\ allocation_counter_ <= waits
  /\ EventsAccounted
  /\ WaiterIsReachable
  /\ ListsDistinct
  /\ HandlesMatch
  /\ ~raced => PickedOnce

(* A thread picked by Signal or Broadcast gets out of its wait: all that   *)
(* it can still wait for is the user's lock.  A destructor that comes too  *)
(* early still gets every thread out of its wait, and is then over.        *)
PickedThreadReturns ==
  /\ \A t \in Threads :
       pc[t] = "waiting" /\ waiting_event[t] \notin Elements(waiting_list_) ~> pc[t] = "acquire"
  /\ run_state_ = "SHUTDOWN" ~>
       /\ \A t \in Threads : pc[t] \notin {"unlock", "waiting", "woken"}
       /\ \E t \in Threads : pc[t] = "destroyed"
=============================================================================

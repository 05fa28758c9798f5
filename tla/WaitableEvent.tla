--------------------------- MODULE WaitableEvent ---------------------------
(***************************************************************************)
(* base::WaitableEvent on POSIX (synchronization/waitable_event_posix.cc): *)
(* events that threads signal, reset, test and wait for, one or many at a  *)
(* time.                                                                   *)
(*                                                                         *)
(* A step is what a thread does between two points where another thread    *)
(* can get in: a critical section whose lock is released at its end is one *)
(* action; a lock that stays held across steps is in lock_ (of an event)   *)
(* or in sw[t].held (of the SyncWaiter of thread t).  A SyncWaiter lives   *)
(* on the stack of the one wait its thread is in, so it is known by its    *)
(* thread.  Events are numbers: their addresses, which order the locking.  *)
(***************************************************************************)
EXTENDS Naturals, Sequences, SequencesExt

CONSTANTS Threads, Events,
          Manual,        \* the events built with manual_reset
          NoThread, NoEvent,
          MaxCalls,      \* bound: calls made in a behaviour
          MaxSpurious    \* bound: wakeups of a condition variable for no reason

ASSUME EventAssumption ==
  /\ Events \subseteq Nat /\ Manual \subseteq Events
  /\ NoThread \notin Threads /\ NoEvent \notin Events
  /\ MaxCalls \in Nat /\ MaxSpurious \in Nat

VARIABLES
  \* WaitableEventKernel, per event
  signaled_, lock_, waiters_,
  sw,        \* SyncWaiter of each thread: fired_, signaling_event_, its lock,
             \* and whether a Broadcast reached the thread waiting on its cv_
  \* locals of the call a thread is in
  pc, call,
  evs,       \* the events it was given
  todo,      \* those whose lock is to be taken, or released, next
  deadline,  \* of TimedWait: "never", "later" or "past"
  cursor,    \* SignalAll: position in the wait-list
  result,    \* the event its latest wait returned; NoEvent for false
  calls, spurious

kernelVars == <<signaled_, lock_, waiters_>>
localVars == <<pc, call, evs, todo, deadline, cursor, result>>
vars == <<kernelVars, sw, localVars, calls, spurious>>

SyncWaiter == [fired : BOOLEAN, event : Events \cup {NoEvent},
               held : BOOLEAN, woken : BOOLEAN]
NewWaiter == [fired |-> FALSE, event |-> NoEvent, held |-> TRUE, woken |-> FALSE]
NoWaiter == [NewWaiter EXCEPT !.held = FALSE]

Init ==
  /\ signaled_ \in [Events -> BOOLEAN]
  /\ lock_ = [e \in Events |-> NoThread]
  /\ waiters_ = [e \in Events |-> <<>>]
  /\ sw = [t \in Threads |-> NoWaiter]
  /\ pc = [t \in Threads |-> "idle"]
  /\ call = [t \in Threads |-> "none"]
  /\ evs = [t \in Threads |-> {}]
  /\ todo = [t \in Threads |-> {}]
  /\ deadline = [t \in Threads |-> "never"]
  /\ cursor = [t \in Threads |-> 1]
  /\ result = [t \in Threads |-> NoEvent]
  /\ calls = 0 /\ spurious = 0

Unlocked(e) == lock_[e] = NoThread
Goto(t, label) == pc' = [pc EXCEPT ![t] = label]
Call(t) == pc[t] = "idle" /\ calls < MaxCalls /\ calls' = calls + 1

(* A wait that finds the event signaled resets it unless it is manual. *)
Consume(e) == signaled_' = [signaled_ EXCEPT ![e] = e \in Manual]
-----------------------------------------------------------------------------
(* Mutated forms, each one plausible slip in the definition it is named    *)
(* after; a property must fail when it takes that definition's place.      *)
AcceptNoBroadcast(u, e) ==           \* the condition variable is forgotten
  /\ ~sw[u].held
  /\ IF sw[u].fired THEN UNCHANGED sw
     ELSE sw' = [sw EXCEPT ![u] = [@ EXCEPT !.fired = TRUE, !.event = e]]
SignalEndNoClear(t, e) ==            \* SignalAll leaves the list as it is
  /\ pc[t] = "fire" /\ evs[t] = {e} /\ cursor[t] > Len(waiters_[e])
  /\ signaled_' = [signaled_ EXCEPT ![e] = TRUE]
  /\ lock_' = [lock_ EXCEPT ![e] = NoThread]
  /\ Goto(t, "idle")
  /\ UNCHANGED <<waiters_, sw, call, evs, todo, deadline, cursor, result, calls, spurious>>
StopWaitingNoDisable(t, e) ==           \* a signal may still be spent on it
  /\ pc[t] = "check" /\ call[t] = "TimedWait" /\ evs[t] = {e}
  /\ sw[t].fired \/ deadline[t] = "past"
  /\ result' = [result EXCEPT ![t] = IF sw[t].fired THEN e ELSE NoEvent]
  /\ sw' = [sw EXCEPT ![t] = [@ EXCEPT !.held = FALSE]]
  /\ Goto(t, "leave")
  /\ todo' = [todo EXCEPT ![t] = {e}]
  /\ UNCHANGED <<kernelVars, call, evs, deadline, cursor, calls, spurious>>
StopWaitingEarly(t, e) ==            \* current_time < end_time
  /\ pc[t] = "check" /\ call[t] = "TimedWait" /\ evs[t] = {e}
  /\ sw[t].fired \/ deadline[t] = "later"
  /\ result' = [result EXCEPT ![t] = IF sw[t].fired THEN e ELSE NoEvent]
  /\ sw' = [sw EXCEPT ![t] = [@ EXCEPT !.fired = TRUE, !.held = FALSE]]
  /\ Goto(t, "leave")
  /\ todo' = [todo EXCEPT ![t] = {e}]
  /\ UNCHANGED <<kernelVars, call, evs, deadline, cursor, calls, spurious>>
FindSignaledKeepsLocks(t, e) ==      \* if (r) Release() is forgotten on the way out
  /\ pc[t] = "lock" /\ e \in todo[t] /\ (\A f \in todo[t] : e <= f) /\ Unlocked(e)
  /\ signaled_[e]
  /\ Consume(e)
  /\ result' = [result EXCEPT ![t] = e]
  /\ todo' = [todo EXCEPT ![t] = {}]
  /\ Goto(t, "idle")
  /\ UNCHANGED <<lock_, waiters_, sw, call, evs, deadline, cursor, calls, spurious>>
StopWaitingManyStays(t) ==           \* leaves the SyncWaiter in the lists
  /\ pc[t] = "check" /\ call[t] = "WaitMany" /\ sw[t].fired
  /\ result' = [result EXCEPT ![t] = sw[t].event]
  /\ sw' = [sw EXCEPT ![t] = [@ EXCEPT !.held = FALSE]]
  /\ Goto(t, "idle")
  /\ UNCHANGED <<kernelVars, call, evs, todo, deadline, cursor, calls, spurious>>
NextToLockUnsorted(t, e) == e \in todo[t]   \* the caller's own order

(* Reset and IsSignaled: one critical section each. *)
Reset(t, e) ==
  /\ Call(t) /\ Unlocked(e)
  /\ signaled_' = [signaled_ EXCEPT ![e] = FALSE]
  /\ UNCHANGED <<lock_, waiters_, sw, localVars, spurious>>

IsSignaled(t, e) ==
  /\ Call(t) /\ Unlocked(e)
  /\ result' = [result EXCEPT ![t] = IF signaled_[e] THEN e ELSE NoEvent]
  /\ IF signaled_[e] THEN Consume(e) ELSE UNCHANGED signaled_
  /\ UNCHANGED <<lock_, waiters_, sw, pc, call, evs, todo, deadline, cursor, spurious>>

(* Signal takes the lock of the event and returns at once if it is set. *)
Signal(t, e) ==
  /\ Call(t) /\ Unlocked(e)
  /\ IF signaled_[e]
       THEN UNCHANGED <<lock_, localVars>>
       ELSE /\ lock_' = [lock_ EXCEPT ![e] = t]
            /\ Goto(t, "fire")
            /\ call' = [call EXCEPT ![t] = "Signal"]
            /\ evs' = [evs EXCEPT ![t] = {e}]
            /\ cursor' = [cursor EXCEPT ![t] = 1]
            /\ UNCHANGED <<todo, deadline, result>>
  /\ UNCHANGED <<signaled_, waiters_, sw, spurious>>

(* SyncWaiter::Fire, under the lock of the SyncWaiter of u: one already    *)
(* fired, or disabled, refuses; else e is what woke it, and its cv_ is     *)
(* broadcast.                                                              *)
Accept(u, e) ==
  /\ ~sw[u].held
  /\ IF sw[u].fired
       THEN UNCHANGED sw
       ELSE sw' = [sw EXCEPT ![u] = [@ EXCEPT !.fired = TRUE, !.event = e,
                                              !.woken = pc[u] = "blocked"]]

(* The loops of SignalAll and SignalOne fire the waiter at the cursor.     *)
Fire(t, e) ==
  LET u == waiters_[e][cursor[t]]
  IN /\ pc[t] = "fire" /\ evs[t] = {e} /\ cursor[t] <= Len(waiters_[e])
     /\ Accept(u, e)
     /\ IF e \in Manual
          THEN cursor' = [cursor EXCEPT ![t] = @ + 1] /\ UNCHANGED pc
          ELSE Goto(t, IF sw[u].fired THEN "popRetry" ELSE "popReturn")
               /\ UNCHANGED cursor
     /\ UNCHANGED <<kernelVars, call, evs, todo, deadline, result, calls, spurious>>

(* SignalOne drops the waiter from the list only after it has fired it,    *)
(* and tries the next one if it refused.                                   *)
PopFront(t, e) ==
  /\ pc[t] \in {"popRetry", "popReturn"} /\ evs[t] = {e}
  /\ waiters_' = [waiters_ EXCEPT ![e] = Tail(@)]
  /\ IF pc[t] = "popRetry"
       THEN Goto(t, "fire") /\ UNCHANGED lock_
       ELSE Goto(t, "idle") /\ lock_' = [lock_ EXCEPT ![e] = NoThread]
  /\ UNCHANGED <<signaled_, sw, call, evs, todo, deadline, cursor, result, calls, spurious>>

(* The list is exhausted: SignalAll clears it, and the event becomes set.  *)
SignalEnd(t, e) ==
  /\ pc[t] = "fire" /\ evs[t] = {e} /\ cursor[t] > Len(waiters_[e])
  /\ waiters_' = [waiters_ EXCEPT ![e] = <<>>]
  /\ signaled_' = [signaled_ EXCEPT ![e] = TRUE]
  /\ lock_' = [lock_ EXCEPT ![e] = NoThread]
  /\ Goto(t, "idle")
  /\ UNCHANGED <<sw, call, evs, todo, deadline, cursor, result, calls, spurious>>
-----------------------------------------------------------------------------
(* TimedWait, up to the point where it holds only its SyncWaiter's lock.   *)
TimedWait(t, e, d) ==
  /\ Call(t) /\ Unlocked(e)
  /\ IF signaled_[e]
       THEN /\ Consume(e)
            /\ result' = [result EXCEPT ![t] = e]
            /\ UNCHANGED <<waiters_, sw, pc, call, evs, deadline>>
       ELSE /\ waiters_' = [waiters_ EXCEPT ![e] = Append(@, t)]
            /\ sw' = [sw EXCEPT ![t] = NewWaiter]
            /\ Goto(t, "check")
            /\ call' = [call EXCEPT ![t] = "TimedWait"]
            /\ evs' = [evs EXCEPT ![t] = {e}]
            /\ deadline' = [deadline EXCEPT ![t] = d]
            /\ UNCHANGED <<signaled_, result>>
  /\ UNCHANGED <<lock_, todo, cursor, spurious>>

(* Time passes. *)
Expire(t) ==
  /\ pc[t] \in {"check", "blocked"} /\ deadline[t] = "later"
  /\ deadline' = [deadline EXCEPT ![t] = "past"]
  /\ UNCHANGED <<kernelVars, sw, pc, call, evs, todo, cursor, result, calls, spurious>>

(* Fired or timed out: remember which, refuse later signals, let go of the *)
(* SyncWaiter's lock.                                                      *)
StopWaiting(t, e) ==
  /\ pc[t] = "check" /\ call[t] = "TimedWait" /\ evs[t] = {e}
  /\ sw[t].fired \/ deadline[t] = "past"
  /\ result' = [result EXCEPT ![t] = IF sw[t].fired THEN e ELSE NoEvent]
  /\ sw' = [sw EXCEPT ![t] = [@ EXCEPT !.fired = TRUE, !.held = FALSE]]
  /\ Goto(t, "leave")
  /\ todo' = [todo EXCEPT ![t] = {e}]
  /\ UNCHANGED <<kernelVars, call, evs, deadline, cursor, calls, spurious>>

(* ConditionVariable Wait and TimedWait release the lock and block, then   *)
(* come back with it: because of a Broadcast, of the deadline, or not.     *)
CvWait(t) ==
  /\ pc[t] = "check" /\ ~sw[t].fired
  /\ call[t] = "TimedWait" => deadline[t] # "past"
  /\ sw' = [sw EXCEPT ![t] = [@ EXCEPT !.held = FALSE, !.woken = FALSE]]
  /\ Goto(t, "blocked")
  /\ UNCHANGED <<kernelVars, call, evs, todo, deadline, cursor, result, calls, spurious>>

CvReturn(t) ==
  /\ pc[t] = "blocked" /\ ~sw[t].held
  /\ sw' = [sw EXCEPT ![t] = [@ EXCEPT !.held = TRUE]]
  /\ Goto(t, "check")
  /\ UNCHANGED <<kernelVars, call, evs, todo, deadline, cursor, result, calls>>

Wake(t) ==
  /\ sw[t].woken \/ deadline[t] = "past"
  /\ CvReturn(t)
  /\ UNCHANGED spurious

SpuriousWake(t) ==
  /\ spurious < MaxSpurious
  /\ CvReturn(t)
  /\ spurious' = spurious + 1
-----------------------------------------------------------------------------
(* WaitMany: EnqueueMany takes the locks in the order of addresses.        *)
WaitMany(t, E) ==
  /\ Call(t)
  /\ Goto(t, "lock")
  /\ call' = [call EXCEPT ![t] = "WaitMany"]
  /\ evs' = [evs EXCEPT ![t] = E]
  /\ todo' = [todo EXCEPT ![t] = E]
  /\ deadline' = [deadline EXCEPT ![t] = "never"]
  /\ UNCHANGED <<kernelVars, sw, cursor, result, spurious>>

NextToLock(t, e) == e \in todo[t] /\ \A f \in todo[t] : e <= f

LockForMany(t, e) == pc[t] = "lock" /\ NextToLock(t, e) /\ Unlocked(e)

FindSignaled(t, e) ==           \* stop here, with the locks below held
  /\ LockForMany(t, e) /\ signaled_[e]
  /\ Consume(e)
  /\ result' = [result EXCEPT ![t] = e]
  /\ todo' = [todo EXCEPT ![t] = evs[t] \ todo[t]]
  /\ Goto(t, IF todo[t] = evs[t] THEN "idle" ELSE "unwind")
  /\ UNCHANGED <<lock_, waiters_, sw, call, evs, deadline, cursor, calls, spurious>>

LockOne(t, e) ==                \* recurse with this lock held
  /\ LockForMany(t, e) /\ ~signaled_[e] /\ todo[t] # {e}
  /\ lock_' = [lock_ EXCEPT ![e] = t]
  /\ todo' = [todo EXCEPT ![t] = @ \ {e}]
  /\ UNCHANGED <<signaled_, waiters_, sw, pc, call, evs, deadline, cursor, result, calls, spurious>>

EnqueueAll(t, e) ==             \* all are locked and none is signaled
  /\ LockForMany(t, e) /\ ~signaled_[e] /\ todo[t] = {e}
  /\ lock_' = [lock_ EXCEPT ![e] = t]
  /\ waiters_' = [f \in Events |-> IF f \in evs[t] THEN Append(waiters_[f], t)
                                                   ELSE waiters_[f]]
  /\ sw' = [sw EXCEPT ![t] = NewWaiter]
  /\ todo' = [todo EXCEPT ![t] = evs[t]]
  /\ Goto(t, "unlock")
  /\ UNCHANGED <<signaled_, call, evs, deadline, cursor, result, calls, spurious>>

EnqueueMany(t, e) == FindSignaled(t, e) \/ LockOne(t, e) \/ EnqueueAll(t, e)

(* The locks are released from the highest address down: with the waiter   *)
(* enqueued before it checks fired_, or on the way out of EnqueueMany.     *)
ReleaseLock(t, e) ==
  /\ pc[t] \in {"unlock", "unwind"} /\ e \in todo[t] /\ \A f \in todo[t] : f <= e
  /\ lock_' = [lock_ EXCEPT ![e] = NoThread]
  /\ todo' = [todo EXCEPT ![t] = @ \ {e}]
  /\ IF todo[t] # {e} THEN UNCHANGED pc
     ELSE Goto(t, IF pc[t] = "unlock" THEN "check" ELSE "idle")
  /\ UNCHANGED <<signaled_, waiters_, sw, call, evs, deadline, cursor, result, calls, spurious>>

(* Fired: leave every list but that of the event which fired.              *)
StopWaitingMany(t) ==
  /\ pc[t] = "check" /\ call[t] = "WaitMany" /\ sw[t].fired
  /\ result' = [result EXCEPT ![t] = sw[t].event]
  /\ sw' = [sw EXCEPT ![t] = [@ EXCEPT !.held = FALSE]]
  /\ todo' = [todo EXCEPT ![t] = evs[t] \ {sw[t].event}]
  /\ Goto(t, IF evs[t] = {sw[t].event} THEN "idle" ELSE "leave")
  /\ UNCHANGED <<kernelVars, call, evs, deadline, cursor, calls, spurious>>

(* Dequeue under the lock of the event, for TimedWait and WaitMany; the    *)
(* caller's array gives the order.  After the last one the call returns.   *)
Dequeue(t, e) ==
  /\ pc[t] = "leave" /\ e \in todo[t] /\ Unlocked(e)
  /\ waiters_' = [waiters_ EXCEPT ![e] = RemoveFirst(@, t)]
  /\ todo' = [todo EXCEPT ![t] = @ \ {e}]
  /\ IF todo[t] = {e} THEN Goto(t, "idle") ELSE UNCHANGED pc
  /\ UNCHANGED <<signaled_, lock_, sw, call, evs, deadline, cursor, result, calls, spurious>>
-----------------------------------------------------------------------------
(* What a thread does by itself once it is in a call. *)
Step(t) ==
  \/ \E e \in Events : Fire(t, e) \/ PopFront(t, e) \/ SignalEnd(t, e)
  \/ CvWait(t) \/ Wake(t) \/ StopWaitingMany(t)
  \/ \E e \in Events : StopWaiting(t, e) \/ EnqueueMany(t, e) \/ ReleaseLock(t, e)
                      \/ Dequeue(t, e)

Start(t) ==
  \/ \E e \in Events : Reset(t, e) \/ IsSignaled(t, e) \/ Signal(t, e)
  \/ \E e \in Events, d \in {"never", "later"} : TimedWait(t, e, d)
  \/ \E E \in (SUBSET Events) \ {{}} : WaitMany(t, E)

Next == \E t \in Threads : Step(t) \/ Start(t) \/ Expire(t) \/ SpuriousWake(t)

Spec == Init /\ [][Next]_vars

(* A thread inside a call keeps running and time passes; nobody has to     *)
(* make another call, and no wakeup has to be spurious.                    *)
FairSpec == Spec /\ \A t \in Threads : WF_vars(Step(t)) /\ WF_vars(Expire(t))
-----------------------------------------------------------------------------
Labels == {"idle", "fire", "popRetry", "popReturn", "check", "blocked", "leave",
           "lock", "unwind", "unlock"}

(* Types; a SyncWaiter stores the event that fired it, or none.            *)
TypeOK ==
  /\ signaled_ \in [Events -> BOOLEAN]
  /\ lock_ \in [Events -> Threads \cup {NoThread}]
  /\ waiters_ \in [Events -> Seq(Threads)]
  /\ sw \in [Threads -> SyncWaiter]
  /\ pc \in [Threads -> Labels]
  /\ call \in [Threads -> {"none", "Signal", "TimedWait", "WaitMany"}]
  /\ evs \in [Threads -> SUBSET Events]
  /\ todo \in [Threads -> SUBSET Events]
  /\ deadline \in [Threads -> {"never", "later", "past"}]
  /\ cursor \in [Threads -> Nat \ {0}]
  /\ result \in [Threads -> Events \cup {NoEvent}]
  /\ calls \in 0 .. MaxCalls
  /\ spurious \in 0 .. MaxSpurious

(* A set event has no waiter: whoever enqueues looks at signaled_ under    *)
(* the same lock, and Signal sets it only with the list empty.  A waiter   *)
(* on a set event would sleep through a signal that was meant for it.      *)
SetEventHasNoWaiter == \A e \in Events : signaled_[e] => waiters_[e] = <<>>

(* The SyncWaiter a signaller is about to Fire is on the stack of a thread *)
(* that is still inside its wait, although WaitMany does not dequeue from  *)
(* the event that fired it and SignalOne pops only after Fire.             *)
FireReachesLiveWaiter ==
  \A t \in Threads, e \in Events :
    pc[t] = "fire" /\ evs[t] = {e} /\ cursor[t] <= Len(waiters_[e]) =>
      LET u == waiters_[e][cursor[t]]
      IN pc[u] \in {"check", "blocked", "leave", "unlock"} /\ e \in evs[u]

(* The strengthening that makes the two invariants above inductive.        *)
Signalling == {"fire", "popRetry", "popReturn"}

Holds(t, e) ==                \* t holds the lock of e between two steps
  \/ pc[t] \in Signalling /\ evs[t] = {e}
  \/ pc[t] = "lock" /\ e \in evs[t] \ todo[t]
  \/ pc[t] \in {"unlock", "unwind"} /\ e \in todo[t]

(* The lock of an event is held by a thread exactly while it signals that  *)
(* event or has it among those that EnqueueMany has locked: WaitMany gives *)
(* back each lock it took, also when it finds an event set on its way.     *)
LocksMatch == \A e \in Events, t \in Threads : lock_[e] = t <=> Holds(t, e)

InWait(t, e) ==               \* t is in a wait that has yet to leave the list of e
  \/ pc[t] \in {"unlock", "check", "blocked"} /\ e \in evs[t]
  \/ pc[t] = "leave" /\ e \in todo[t]

Passed(e, i) ==               \* a signaller has fired the i-th waiter of e
  \E s \in Threads :
    /\ lock_[e] = s
    /\ \/ pc[s] = "fire" /\ i < cursor[s]
       \/ pc[s] \in {"popRetry", "popReturn"} /\ i = 1

EntryLive(e, i) ==
  LET u == waiters_[e][i]
  IN \/ Passed(e, i)
     \/ InWait(u, e) /\ (sw[u].event # e \/ call[u] = "TimedWait")

EntriesLive == \A e \in Events : \A i \in 1 .. Len(waiters_[e]) : EntryLive(e, i)

EntriesDistinct ==
  \A e \in Events : \A i, j \in 1 .. Len(waiters_[e]) :
    waiters_[e][i] = waiters_[e][j] => i = j

LockedAreUnset ==             \* Signal and EnqueueMany hold locks of unset events
  \A e \in Events, t \in Threads :
    Holds(t, e) /\ pc[t] # "unwind" => ~signaled_[e]

Frame(t) ==                   \* the locals of a call agree with its step
  /\ pc[t] \in Signalling =>
       /\ \E e \in Events : evs[t] = {e}
       /\ \A e \in evs[t] : e \notin Manual => cursor[t] = 1
  /\ pc[t] \in {"popRetry", "popReturn"} =>
       \A e \in evs[t] : e \notin Manual /\ waiters_[e] # <<>>
  /\ todo[t] \subseteq evs[t]
  /\ pc[t] \in {"lock", "unlock", "unwind", "leave"} <=> todo[t] # {}
  /\ pc[t] \in {"check", "blocked"} =>
       \/ call[t] = "WaitMany" /\ evs[t] # {}
       \/ call[t] = "TimedWait" /\ \E e \in Events : evs[t] = {e}
  /\ pc[t] \in {"lock", "unlock", "unwind"} => call[t] = "WaitMany"

FramesMatch == \A t \in Threads : Frame(t)

IInv ==
  /\ TypeOK
  /\ LocksMatch
  /\ FramesMatch
  /\ LockedAreUnset
  /\ SetEventHasNoWaiter
  /\ EntriesLive
  /\ EntriesDistinct

(* A thread that is still to be released is in the wait-list of each of    *)
(* its events, so whichever is signalled first finds it.                   *)
Waiting(t) == pc[t] \in {"unlock", "check", "blocked"} /\ ~sw[t].fired

WaitersListed ==
  \A t \in Threads : Waiting(t) =>
    \A e \in evs[t] : \E i \in 1 .. Len(waiters_[e]) : waiters_[e][i] = t

PassedAreFired ==             \* a signaller leaves nobody behind it to be released
  \A e \in Events : \A i \in 1 .. Len(waiters_[e]) :
    Passed(e, i) => ~ (Waiting(waiters_[e][i]) /\ e \in evs[waiters_[e][i]])

FiredByItsEvent ==            \* signaling_event_ says which event released a wait
  \A t \in Threads :
    /\ pc[t] \in {"unlock", "check", "blocked"} =>
         IF sw[t].fired THEN sw[t].event \in evs[t] ELSE sw[t].event = NoEvent
    /\ pc[t] = "leave" => sw[t].fired

DeadlinesMatch ==             \* WaitMany has no deadline
  \A t \in Threads : pc[t] \in {"lock", "unlock", "unwind"} => deadline[t] = "never"

(* The invariant from which each step is one of EventSpec, or none.        *)
WaitInv ==
  /\ IInv
  /\ DeadlinesMatch
  /\ WaitersListed
  /\ PassedAreFired
  /\ FiredByItsEvent

(* What each thread is doing in the terms of EventSpec.                    *)
On == [t \in Threads |-> IF Waiting(t) THEN evs[t] ELSE {}]
Left == [t \in Threads |-> IF Waiting(t) THEN deadline[t] ELSE "never"]
TheOnly(E) == CHOOSE e \in E : TRUE
Sig == [t \in Threads |-> IF pc[t] \in {"fire", "popRetry"} THEN TheOnly(evs[t]) ELSE NoEvent]
Got == [t \in Threads |->
          IF pc[t] \in {"unlock", "check", "blocked"} THEN sw[t].event ELSE result[t]]

Abstract == INSTANCE EventSpec WITH set <- signaled_, on <- On, left <- Left,
                                    sig <- Sig, got <- Got

(* What the code promises, hiding locks, wait-lists and steps: a thread    *)
(* is blocked on its events until it is fired or its deadline has passed,  *)
(* and a signal releases whom EventSpec says.                              *)
AbstractSpec == Abstract!Spec

(* A fired thread returns from its wait (no lost wakeup), and so does one  *)
(* whose deadline is bound to pass.  And there is no cycle of lock waits:  *)
(* WaitMany gets all its locks or gives them back, though others wait on   *)
(* overlapping sets of events, and a Signal that has begun to Fire gets    *)
(* the lock of each SyncWaiter and returns.                                *)
CallsReturn ==
  \A t \in Threads :
    /\ pc[t] \in {"check", "blocked"} /\ (sw[t].fired \/ deadline[t] = "later")
       ~> pc[t] = "idle"
    /\ pc[t] = "lock" ~> pc[t] \in {"unlock", "unwind", "idle"}
    /\ pc[t] = "fire" ~> pc[t] = "idle"
=============================================================================

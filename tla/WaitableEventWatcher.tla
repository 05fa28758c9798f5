------------------------ MODULE WaitableEventWatcher ------------------------
(***************************************************************************)
(* WaitableEventWatcher (synchronization/waitable_event_watcher_posix.cc)  *)
(* over the kernels of WaitableEvents (waitable_event_posix.cc).  Watchers *)
(* belong to the thread of one MessageLoop, which is external: it runs its *)
(* tasks in order, and when it is destroyed it drops them and then tells   *)
(* its destruction observers.  Any thread signals, resets and deletes      *)
(* events.                                                                 *)
(*                                                                         *)
(* What StartWatching and StopWatching read before they take the kernel's  *)
(* lock belongs to the loop's thread, and Fire runs under that lock, so    *)
(* each operation is one step.  A watch is named by its number, which      *)
(* stands for the Flag made for it; AsyncWaiters are named by address, and *)
(* an address is used again as soon as its waiter is deleted.              *)
(***************************************************************************)
EXTENDS Filters, FiniteSets, SequencesExt

CONSTANTS
    Events,
    Manual,      \* the events with manual_reset_
    Watchers,
    Addresses,   \* memory for AsyncWaiters
    NULL,
    MaxWatches   \* bound: calls of StartWatching

WatcherAssumption == NULL \notin Events \cup Addresses /\ MaxWatches \in Nat

Watches == 1..MaxWatches

VARIABLES
    signaled_, waiters_,   \* of each kernel
    exists,        \* events that have not been deleted (kernels stay)
    waiter,        \* the flag_ of the AsyncWaiter at an address; 0 if free
    value,         \* the watches whose Flag is set
    cancel_flag_,  \* of each watcher, 0 for NULL, and ...
    waiter_, kernel_, message_loop_,
    tasks,         \* AsyncCallbackHelpers posted to the loop
    loop,          \* "up", "closing" or "down"
    watches,       \* number of watches begun
    stopped,       \* history: watches ended by StopWatching
    called         \* history: how often a watch's callback has run

watcherVars == <<cancel_flag_, waiter_, kernel_, message_loop_>>
vars == <<signaled_, waiters_, exists, waiter, value, watcherVars, tasks, loop,
          watches, stopped, called>>

Init ==
    /\ signaled_ \in [Events -> BOOLEAN]
    /\ waiters_ = [e \in Events |-> <<>>]
    /\ exists = Events
    /\ waiter = [a \in Addresses |-> 0]
    /\ value = {}
    /\ cancel_flag_ = [w \in Watchers |-> 0]
    /\ waiter_ = [w \in Watchers |-> NULL]
    /\ kernel_ = [w \in Watchers |-> NULL]
    /\ message_loop_ = [w \in Watchers |-> FALSE]
    /\ tasks = <<>> /\ loop = "up"
    /\ watches = 0
    /\ stopped = {}
    /\ called = [n \in Watches |-> 0]
-----------------------------------------------------------------------------
(* AsyncWaiter::Compare, for the first waiter of e that Dequeue may take.  *)
SameAddress(e, a, n) ==              \* Dequeue forgets the tag: the ABA
    {i \in DOMAIN waiters_[e] : waiters_[e][i] = a}

Compare(e, a, n) ==
    {i \in DOMAIN waiters_[e] : waiters_[e][i] = a /\ waiter[a] = n}

(* AsyncWaiter::Fire for the waiters at these addresses, in order: post    *)
(* unless the flag is set, and delete the waiter.                          *)
Fire(fired) ==
    /\ tasks' = tasks \o Filter([i \in DOMAIN fired |-> waiter[fired[i]]], Watches \ value)
    /\ waiter' = [a \in Addresses |-> IF a \in ToSet(fired) THEN 0 ELSE waiter[a]]

(* WaitableEvent::Signal, with SignalAll or SignalOne; each Fire succeeds. *)
SignalKeepsWaiters(e) ==                \* SignalAll forgets waiters_.clear()
    /\ e \in exists /\ ~signaled_[e]
    /\ Fire(waiters_[e])
    /\ signaled_' = [signaled_ EXCEPT ![e] = TRUE]
    /\ UNCHANGED <<waiters_, exists, value, watcherVars, loop, watches, stopped, called>>

Signal(e) ==
    /\ e \in exists /\ ~signaled_[e]
    /\ LET n == IF e \in Manual \/ waiters_[e] = <<>> THEN Len(waiters_[e]) ELSE 1
       IN  /\ Fire(SubSeq(waiters_[e], 1, n))
           /\ waiters_' = [waiters_ EXCEPT ![e] = SubSeq(@, n + 1, Len(@))]
           /\ signaled_' = [signaled_ EXCEPT ![e] = e \in Manual \/ n = 0]
    /\ UNCHANGED <<exists, value, watcherVars, loop, watches, stopped, called>>

(* WaitableEvent::Reset, and IsSignaled of an event with auto-reset.       *)
Reset(e) ==
    /\ e \in exists /\ signaled_[e]
    /\ signaled_' = [signaled_ EXCEPT ![e] = FALSE]
    /\ UNCHANGED <<waiters_, exists, waiter, value, watcherVars, tasks, loop, watches,
                   stopped, called>>

(* WaitableEvent::~WaitableEvent: a watcher keeps the kernel.              *)
DeleteEvent(e) ==
    /\ e \in exists
    /\ exists' = exists \ {e}
    /\ UNCHANGED <<signaled_, waiters_, waiter, value, watcherVars, tasks, loop, watches,
                   stopped, called>>
-----------------------------------------------------------------------------
(* StartWatching, by a task of the loop, whose callback this may be.  A    *)
(* watcher that still waits may not start again: DCHECK.                   *)
StartWatching(w, e) ==
    LET n == watches + 1
        over == cancel_flag_[w] # 0 /\ cancel_flag_[w] \in value
    IN
    /\ loop = "up" /\ e \in exists /\ watches < MaxWatches
    /\ cancel_flag_[w] = 0 \/ over
    /\ watches' = n
    /\ cancel_flag_' = [cancel_flag_ EXCEPT ![w] = n]
    /\ IF signaled_[e]
       THEN /\ signaled_' = [signaled_ EXCEPT ![e] = e \in Manual]
            /\ tasks' = Append(tasks, n)
            /\ message_loop_' = [message_loop_ EXCEPT ![w] = @ /\ ~over]
            /\ UNCHANGED <<waiters_, waiter, waiter_, kernel_>>
       ELSE /\ message_loop_' = [message_loop_ EXCEPT ![w] = TRUE]
            /\ kernel_' = [kernel_ EXCEPT ![w] = e]
            /\ \E a \in Addresses :
                /\ waiter[a] = 0
                /\ waiter' = [waiter EXCEPT ![a] = n]
                /\ waiter_' = [waiter_ EXCEPT ![w] = a]
                /\ waiters_' = [waiters_ EXCEPT ![e] = Append(@, a)]
            /\ UNCHANGED <<signaled_, tasks>>
    /\ UNCHANGED <<exists, value, loop, stopped, called>>

(* The part of StopWatching that ends watch n of w: nothing is left of it  *)
(* but a task that its flag silences.                                      *)
CancelTrustsDequeue(w, n) ==         \* case 3 forgets cancel_flag_->Set()
    LET found == IF kernel_[w] = NULL THEN {} ELSE Compare(kernel_[w], waiter_[w], n)
    IN
    IF found = {} THEN UNCHANGED <<value, waiters_, waiter>>
    ELSE /\ waiters_' = [waiters_ EXCEPT ![kernel_[w]] = RemoveAt(@, CHOOSE i \in found : TRUE)]
         /\ waiter' = [waiter EXCEPT ![waiter_[w]] = 0]
         /\ UNCHANGED value

Cancel(w, n) ==
    LET found == IF kernel_[w] = NULL THEN {} ELSE Compare(kernel_[w], waiter_[w], n)
    IN
    IF found = {} THEN value' = value \cup {n} /\ UNCHANGED <<waiters_, waiter>>
    ELSE /\ waiters_' = [waiters_ EXCEPT ![kernel_[w]] = RemoveAt(@, CHOOSE i \in found : TRUE)]
         /\ waiter' = [waiter EXCEPT ![waiter_[w]] = 0]
         /\ UNCHANGED value

StopWatching(w) ==
    LET n == cancel_flag_[w] IN
    /\ message_loop_' = [message_loop_ EXCEPT ![w] = FALSE]
    /\ cancel_flag_' = [cancel_flag_ EXCEPT ![w] = 0]
    /\ stopped' = IF n = 0 THEN stopped ELSE stopped \cup {n}
    /\ IF n = 0 \/ n \in value THEN UNCHANGED <<value, waiters_, waiter>>
                               ELSE Cancel(w, n)
    /\ UNCHANGED <<signaled_, exists, tasks, watches, called>>

(* A task of the loop calls StopWatching, or deletes the watcher and makes *)
(* another in its place; either may outlive the loop.                      *)
Stop(w) ==
    /\ loop # "closing"
    /\ cancel_flag_[w] # 0 \/ message_loop_[w]
    /\ StopWatching(w)
    /\ UNCHANGED <<waiter_, kernel_, loop>>

Delete(w) ==
    /\ loop # "closing"
    /\ StopWatching(w)
    /\ waiter_' = [waiter_ EXCEPT ![w] = NULL]
    /\ kernel_' = [kernel_ EXCEPT ![w] = NULL]
    /\ UNCHANGED loop

(* The loop runs AsyncCallbackHelper.                                      *)
RunTask ==
    LET n == Head(tasks) IN
    /\ loop = "up" /\ tasks # <<>>
    /\ tasks' = Tail(tasks)
    /\ value' = value \cup {n}
    /\ called' = IF n \in value THEN called ELSE [called EXCEPT ![n] = @ + 1]
    /\ UNCHANGED <<signaled_, waiters_, exists, waiter, watcherVars, loop, watches, stopped>>

(* ~MessageLoop drops its tasks and calls WillDestroyCurrentMessageLoop of *)
(* each observer; what is posted meanwhile never runs.                     *)
CloseLoop ==
    /\ loop = "up"
    /\ loop' = "closing" /\ tasks' = <<>>
    /\ UNCHANGED <<signaled_, waiters_, exists, waiter, value, watcherVars, watches, stopped, called>>

WillDestroyCurrentMessageLoop(w) ==
    /\ loop = "closing" /\ message_loop_[w]
    /\ StopWatching(w)
    /\ UNCHANGED <<waiter_, kernel_, loop>>

LoopGone ==
    /\ loop = "closing" /\ \A w \in Watchers : ~message_loop_[w]
    /\ loop' = "down" /\ tasks' = <<>>
    /\ UNCHANGED <<signaled_, waiters_, exists, waiter, value, watcherVars, watches, stopped, called>>

Next ==
    \/ \E e \in Events : Signal(e) \/ Reset(e) \/ DeleteEvent(e)
    \/ \E w \in Watchers, e \in Events : StartWatching(w, e)
    \/ \E w \in Watchers : Stop(w) \/ Delete(w) \/ WillDestroyCurrentMessageLoop(w)
    \/ RunTask \/ CloseLoop \/ LoopGone

Spec == Init /\ [][Next]_vars
-----------------------------------------------------------------------------
(* The places where watch n is still on its way to its callback.           *)
Places == UNION {{e} \X DOMAIN waiters_[e] : e \in Events}
Waiting(n) == {p \in Places : waiter[waiters_[p[1]][p[2]]] = n}
Posted(n) == {i \in DOMAIN tasks : tasks[i] = n}

(* The variables have their types, ...                                     *)
TypeOK ==
    /\ signaled_ \in [Events -> BOOLEAN] /\ exists \subseteq Events
    /\ waiters_ \in [Events -> Seq(Addresses)]
    /\ waiter \in [Addresses -> 0..MaxWatches]
    /\ value \subseteq Watches /\ stopped \subseteq Watches
    /\ cancel_flag_ \in [Watchers -> 0..MaxWatches]
    /\ waiter_ \in [Watchers -> Addresses \cup {NULL}]
    /\ kernel_ \in [Watchers -> Events \cup {NULL}]
    /\ message_loop_ \in [Watchers -> BOOLEAN]
    /\ tasks \in Seq(Watches)
    /\ loop \in {"up", "closing", "down"}
    /\ watches \in 0..MaxWatches /\ called \in [Watches -> Nat]

(* An AsyncWaiter on the list of an event, which is not signaled, belongs  *)
(* to the running watch of a watcher that holds its address and the kernel *)
(* and is told when the loop goes: nobody can signal into a watcher or a   *)
(* loop that is gone (Enqueue, Dequeue, Fire's delete), ...                *)
WaitersAreWatched ==
    \A e \in Events : \A a \in ToSet(waiters_[e]) :
        /\ ~signaled_[e] /\ loop # "down"
        /\ \E w \in Watchers :
            /\ cancel_flag_[w] = waiter[a] /\ waiter[a] \notin value
            /\ waiter_[w] = a /\ kernel_[w] = e /\ message_loop_[w]

(* ... and it is on one list, once, until it is deleted.                   *)
EveryWaiterHasItsWatcher ==
    /\ WaitersAreWatched
    /\ \A a \in Addresses : Cardinality({p \in Places : waiters_[p[1]][p[2]] = a})
                            = IF waiter[a] = 0 THEN 0 ELSE 1

(* A watch that was neither called nor stopped is on its event's list or   *)
(* in the loop's queue, and only once: StartWatching, Signal and           *)
(* StopWatching neither lose it nor double it.                             *)
WatchIsPendingOnce ==
    loop = "up" => \A n \in 1..watches :
        /\ Cardinality(Waiting(n)) + Cardinality(Posted(n)) <= 1
        /\ n \notin value => (n \in stopped) # (Waiting(n) \cup Posted(n) # {})

(* The callback of a watch runs once at most, and never after StopWatching *)
(* returned for it, wherever the signal, the task and the address of its   *)
(* waiter have got to: "we are assured that the delegate cannot be called  *)
(* after canceling".                                                       *)
StoppedIsSilent ==
    [][\A n \in Watches : called'[n] # called[n] => n \notin stopped /\ called[n] = 0]_vars

(* What makes these inductive: no address or task is twice in a list or in *)
(* the queue, flags are made in turn and held by one watcher each, a task  *)
(* that has been stopped is silenced, and what was begun is somewhere.     *)
Once(s) == \A i, j \in DOMAIN s : s[i] = s[j] => i = j

ListedOnce ==
    /\ \A e \in Events : Once(waiters_[e])
    /\ \A e, f \in Events : ToSet(waiters_[e]) \cap ToSet(waiters_[f]) # {} => e = f
    /\ \A a \in Addresses : waiter[a] # 0 <=> \E e \in Events : a \in ToSet(waiters_[e])

FlagsAreNew ==
    /\ value \cup stopped \subseteq 1..watches
    /\ \A w \in Watchers : cancel_flag_[w] <= watches /\ cancel_flag_[w] \notin stopped
    /\ \A v, w \in Watchers : cancel_flag_[v] = cancel_flag_[w] /\ cancel_flag_[v] # 0 => v = w
    /\ \A n \in Watches : called[n] # 0 => n \in value

TasksAreOnce ==
    /\ Once(tasks)
    /\ \A n \in ToSet(tasks) :
        /\ n <= watches /\ \A a \in Addresses : waiter[a] # n
        /\ n \in stopped => n \in value

NothingIsLost ==
    loop = "up" => \A n \in (1..watches) \ (stopped \cup value) :
        n \in ToSet(tasks) \/ \E a \in Addresses : waiter[a] = n

IInv ==
    /\ TypeOK /\ ListedOnce /\ WaitersAreWatched
    /\ FlagsAreNew /\ TasksAreOnce /\ NothingIsLost
=============================================================================

------------------------------ MODULE TraceLog ------------------------------
(***************************************************************************)
(* TraceLog (debug/trace_event_impl.cc): threads record events in buffers  *)
(* of their own and in the main buffer, and a flush collects them all.     *)
(* Every section under lock_ is a step; g_category_group_enabled and       *)
(* buffer_is_full_ are read without it.  One category stands for all.      *)
(*                                                                         *)
(* Message loops are external: a loop runs its tasks one at a time, in the *)
(* order they were posted, and the tasks of a closed loop never run.  The  *)
(* sampling thread, watched events and metadata events are left out.       *)
(***************************************************************************)
EXTENDS Naturals, Sequences, FiniteSets, SequencesExt

CONSTANTS
    Loops,       \* threads with a MessageLoop
    Bare,        \* threads without
    Owner,       \* the loop that calls Flush; it outlives the flushes
    OptionsUsed, \* of "until-full", "continuously", "echo"
    Capacity,    \* kTraceEventVectorBufferSize, kTraceEventRingBufferSize
    LocalSize,   \* kTraceEventThreadLocalBufferSize
    NULL,
    MaxEvents, MaxFlushes, MaxEnables   \* bounds

Threads == Loops \cup Bare
Events == 1..MaxEvents
Flushes == 1..MaxFlushes

ASSUME TraceLogAssumption ==
    /\ Owner \in Loops /\ Loops \cap Bare = {}
    /\ OptionsUsed \subseteq {"until-full", "continuously", "echo"}
    /\ Capacity \in Nat \ {0} /\ LocalSize \in Nat \ {0}
    /\ NULL \notin Seq(Events)
    /\ MaxEvents \in Nat /\ MaxFlushes \in Nat /\ MaxEnables \in Nat

VARIABLES
    enable_count_, enabled,        \* enabled: g_category_group_enabled
    trace_options_, dispatching_to_observer_list_,
    logged_events_, buffer_is_full_,
    flush_count_, flush_message_loop_proxy_, flush_output_callback_,
    thread_message_loops_,
    local,       \* thread_local_event_buffer_: its events, or NULL
    tasks,       \* of each loop: the flush a FlushCurrentThread or a
                 \* FinishFlush was posted for
    timers,      \* flushes whose OnFlushTimeout is pending
    pc,          \* of each thread: what it does, and for which flush
    recorded,    \* history: the number of events recorded
    delivered,   \* history: how often each event reached a callback
    ended,       \* history: how often each flush's callback was used
    due,         \* history: the events held when the flush began
    enables      \* bounds the calls of SetEnabled

enableVars == <<enable_count_, enabled, trace_options_, dispatching_to_observer_list_, enables>>
mainVars == <<logged_events_, buffer_is_full_>>
flushVars == <<flush_count_, flush_message_loop_proxy_, flush_output_callback_, timers,
               delivered, ended, due>>
vars == <<enableVars, mainVars, flushVars, thread_message_loops_, local, tasks, pc, recorded>>

Idle == <<"idle", 0>>

Init ==
    /\ enable_count_ = 0 /\ enabled = FALSE /\ enables = 0
    /\ trace_options_ = "until-full" /\ dispatching_to_observer_list_ = FALSE
    /\ logged_events_ = <<>> /\ buffer_is_full_ = FALSE
    /\ flush_count_ = 0 /\ flush_message_loop_proxy_ = FALSE /\ flush_output_callback_ = 0
    /\ thread_message_loops_ = {}
    /\ local = [t \in Loops |-> NULL]
    /\ tasks = [t \in Loops |-> <<>>]
    /\ timers = {}
    /\ pc = [t \in Threads |-> Idle]
    /\ recorded = 0
    /\ delivered = [e \in Events |-> 0]
    /\ ended = [f \in Flushes |-> 0]
    /\ due = {}
-----------------------------------------------------------------------------
(* AddEvent of the three buffers: a vector grows past its capacity, a ring *)
(* keeps one slot free and loses the oldest, the console keeps nothing.    *)
Logged(events) ==
    LET all == logged_events_ \o events IN
    IF trace_options_ = "echo" THEN <<>>
    ELSE IF trace_options_ = "until-full" \/ Len(all) < Capacity THEN all
    ELSE SubSeq(all, Len(all) - Capacity + 2, Len(all))

IsFull(log) == trace_options_ = "until-full" /\ Len(log) >= Capacity

(* AddEventToMainBufferWhileLocked of each and, once,                      *)
(* CheckIfBufferIsFullWhileLocked.                                         *)
FullByItsSize(events) ==             \* asks any buffer for its size
    /\ logged_events_' = Logged(events)
    /\ buffer_is_full_' = (buffer_is_full_ \/ Len(Logged(events)) + 1 >= Capacity)

AddToMainBuffer(events) ==
    /\ logged_events_' = Logged(events)
    /\ buffer_is_full_' = (buffer_is_full_ \/ IsFull(Logged(events)))

(* SetEnabled and SetDisabled, up to the unlock, and from the last         *)
(* observer's return.  The clients enable while no flush runs and disable  *)
(* no more often than they enabled (DCHECKs).                              *)
SetEnabled(t, o) ==
    LET new == o # trace_options_ IN
    /\ pc[t] = Idle /\ ~flush_message_loop_proxy_ /\ enables < MaxEnables
    /\ enables' = enables + 1
    /\ enable_count_' = enable_count_ + 1
    /\ IF enable_count_ > 0
       THEN /\ enabled' = TRUE
            /\ UNCHANGED <<trace_options_, dispatching_to_observer_list_, mainVars, pc>>
       ELSE /\ trace_options_' = o
            /\ logged_events_' = IF new THEN <<>> ELSE logged_events_
            /\ buffer_is_full_' = (buffer_is_full_ /\ ~new)
            /\ IF dispatching_to_observer_list_
               THEN UNCHANGED <<enabled, dispatching_to_observer_list_, pc>>
               ELSE /\ enabled' = TRUE /\ dispatching_to_observer_list_' = TRUE
                    /\ pc' = [pc EXCEPT ![t] = <<"dispatch", 0>>]
    /\ UNCHANGED <<flushVars, thread_message_loops_, local, tasks, recorded>>

SetDisabled(t) ==
    /\ pc[t] = Idle /\ enable_count_ > 0
    /\ enable_count_' = enable_count_ - 1
    /\ IF enable_count_ > 1 \/ dispatching_to_observer_list_
       THEN UNCHANGED <<enabled, dispatching_to_observer_list_, pc>>
       ELSE /\ enabled' = FALSE /\ dispatching_to_observer_list_' = TRUE
            /\ pc' = [pc EXCEPT ![t] = <<"dispatch", 0>>]
    /\ UNCHANGED <<trace_options_, enables, mainVars, flushVars, thread_message_loops_,
                   local, tasks, recorded>>

Dispatched(t) ==
    /\ pc[t][1] = "dispatch"
    /\ dispatching_to_observer_list_' = FALSE
    /\ pc' = [pc EXCEPT ![t] = Idle]
    /\ UNCHANGED <<enable_count_, enabled, trace_options_, enables, mainVars, flushVars,
                   thread_message_loops_, local, tasks, recorded>>
-----------------------------------------------------------------------------
(* AddTraceEvent: read the category's flag, make the buffer of a thread    *)
(* with a loop, read buffer_is_full_, add the event.                       *)
BeginEvent(t) ==
    /\ pc[t] = Idle /\ enabled
    /\ pc' = [pc EXCEPT ![t] = <<"begun", 0>>]
    /\ UNCHANGED <<enableVars, mainVars, flushVars, thread_message_loops_, local, tasks, recorded>>

MakeLocalBuffer(t) ==                \* ThreadLocalEventBuffer's constructor
    /\ t \in Loops /\ pc[t][1] = "begun" /\ local[t] = NULL
    /\ thread_message_loops_' = thread_message_loops_ \cup {t}
    /\ local' = [local EXCEPT ![t] = <<>>]
    /\ UNCHANGED <<enableVars, mainVars, flushVars, tasks, pc, recorded>>

CheckFull(t) ==
    /\ pc[t][1] = "begun" /\ (t \in Loops => local[t] # NULL)
    /\ pc' = [pc EXCEPT ![t] = IF buffer_is_full_ \/ recorded = MaxEvents THEN Idle
                               ELSE <<"add", 0>>]
    /\ UNCHANGED <<enableVars, mainVars, flushVars, thread_message_loops_, local, tasks, recorded>>

AddEvent(t) ==
    LET e == recorded + 1 IN
    /\ pc[t][1] = "add"
    /\ pc' = [pc EXCEPT ![t] = Idle]
    /\ IF recorded = MaxEvents THEN UNCHANGED <<mainVars, local, recorded>>
       ELSE /\ recorded' = e
            /\ IF t \in Bare THEN AddToMainBuffer(<<e>>) /\ UNCHANGED local
               ELSE IF Len(local[t]) + 1 < LocalSize
               THEN local' = [local EXCEPT ![t] = Append(@, e)] /\ UNCHANGED mainVars
               ELSE /\ AddToMainBuffer(Append(local[t], e))      \* FlushWhileLocked
                    /\ local' = [local EXCEPT ![t] = <<>>]
    /\ UNCHANGED <<enableVars, flushVars, thread_message_loops_, tasks>>

(* ~ThreadLocalEventBuffer, if there is one.                               *)
DeleteLeavesLoop(t) ==               \* does not erase the loop
    IF local[t] = NULL THEN UNCHANGED <<mainVars, local, thread_message_loops_>>
    ELSE /\ AddToMainBuffer(local[t])
         /\ local' = [local EXCEPT ![t] = NULL]
         /\ UNCHANGED thread_message_loops_

DeleteLocalBuffer(t) ==
    IF local[t] = NULL THEN UNCHANGED <<mainVars, local, thread_message_loops_>>
    ELSE /\ AddToMainBuffer(local[t])
         /\ local' = [local EXCEPT ![t] = NULL]
         /\ thread_message_loops_' = thread_message_loops_ \ {t}

(* A loop is destroyed: WillDestroyCurrentMessageLoop deletes the buffer.  *)
CloseLoop(t) ==
    /\ t # Owner /\ pc[t] = Idle
    /\ DeleteLocalBuffer(t)
    /\ pc' = [pc EXCEPT ![t] = <<"closed", 0>>]
    /\ tasks' = [tasks EXCEPT ![t] = <<>>]
    /\ UNCHANGED <<enableVars, flushVars, recorded>>
-----------------------------------------------------------------------------
(* Flush looks at enable_count_ (while the log is enabled it only runs the *)
(* callback with an empty string and returns: no state changes, no step),  *)
(* then, under lock_, asks every thread that has a buffer for it, or       *)
(* finishes by itself.                                                     *)
Flush ==
    /\ pc[Owner] = Idle /\ ~flush_message_loop_proxy_
    /\ enable_count_ = 0 /\ flush_count_ < MaxFlushes
    /\ pc' = [pc EXCEPT ![Owner] = <<"flush", flush_count_ + 1>>]
    /\ UNCHANGED <<enableVars, mainVars, flushVars, thread_message_loops_, local, tasks, recorded>>

Held == ToSet(logged_events_) \cup UNION {ToSet(local[t]) : t \in {u \in Loops : local[u] # NULL}}

BeginFlush(f) ==
    /\ pc[Owner] = <<"flush", f>>
    /\ flush_count_' = f
    /\ flush_message_loop_proxy_' = TRUE
    /\ flush_output_callback_' = f
    /\ due' = Held
    /\ IF thread_message_loops_ = {}
       THEN pc' = [pc EXCEPT ![Owner] = <<"finish", f>>] /\ UNCHANGED <<tasks, timers>>
       ELSE /\ tasks' = [t \in Loops |-> IF t \in thread_message_loops_
                                         THEN Append(tasks[t], <<"FlushCurrentThread", f>>)
                                         ELSE tasks[t]]
            /\ timers' = timers \cup {f}
            /\ pc' = [pc EXCEPT ![Owner] = Idle]
    /\ UNCHANGED <<enableVars, mainVars, delivered, ended, thread_message_loops_, local, recorded>>

(* FinishFlush.  The callback gets the events in batches, at least one.    *)
RunsAndKeeps(cb) ==                  \* does not reset flush_output_callback_
    /\ ended' = [f \in Flushes |-> ended[f] + IF f = cb THEN 1 ELSE 0]
    /\ UNCHANGED <<delivered, flush_output_callback_>>

RunCallback(cb) ==
    /\ ended' = [f \in Flushes |-> ended[f] + IF f = cb THEN 1 ELSE 0]
    /\ delivered' = [e \in Events |-> delivered[e] +
                        IF cb # 0 /\ Contains(logged_events_, e) THEN 1 ELSE 0]
    /\ flush_output_callback_' = 0

FinishFlush(f) ==
    /\ pc[Owner] = <<"finish", f>>
    /\ pc' = [pc EXCEPT ![Owner] = Idle]
    /\ IF f # flush_count_
       THEN UNCHANGED <<mainVars, flush_message_loop_proxy_, flush_output_callback_,
                        delivered, ended, due>>
       ELSE /\ logged_events_' = <<>> /\ buffer_is_full_' = FALSE
            /\ flush_message_loop_proxy_' = FALSE
            /\ due' = {}
            /\ RunCallback(flush_output_callback_)
    /\ UNCHANGED <<enableVars, flush_count_, timers, thread_message_loops_, local, tasks, recorded>>

(* A loop starts its next task; FlushCurrentThread and OnFlushTimeout      *)
(* look first whether they are late.                                       *)
LateIfNobody(f) == f # flush_count_ \/ thread_message_loops_ = {}

Late(f) == f # flush_count_ \/ ~flush_message_loop_proxy_

RunTask(t) ==
    LET f == tasks[t][1][2] IN
    /\ pc[t] = Idle /\ tasks[t] # <<>>
    /\ tasks' = [tasks EXCEPT ![t] = Tail(@)]
    /\ pc' = [pc EXCEPT ![t] = IF tasks[t][1][1] = "FinishFlush" THEN <<"finish", f>>
                               ELSE IF Late(f) THEN Idle ELSE <<"delete", f>>]
    /\ UNCHANGED <<enableVars, mainVars, flushVars, thread_message_loops_, local, recorded>>

OnFlushTimeout(f) ==
    /\ pc[Owner] = Idle /\ f \in timers
    /\ timers' = timers \ {f}
    /\ pc' = [pc EXCEPT ![Owner] = IF Late(f) THEN Idle ELSE <<"finish", f>>]
    /\ due' = IF Late(f) THEN due ELSE {}      \* nothing is promised any more
    /\ UNCHANGED <<enableVars, mainVars, flush_count_, flush_message_loop_proxy_,
                   flush_output_callback_, delivered, ended, thread_message_loops_, local,
                   tasks, recorded>>

(* The rest of FlushCurrentThread: delete the buffer, and if it was the    *)
(* last post FinishFlush.                                                  *)
DeleteInFlush(t) ==
    /\ pc[t][1] = "delete"
    /\ DeleteLocalBuffer(t)
    /\ pc' = [pc EXCEPT ![t] = <<"last?", pc[t][2]>>]
    /\ UNCHANGED <<enableVars, flushVars, tasks, recorded>>

OnlyLate(f) == Late(f)               \* does not ask for the other threads

NotLast(f) == Late(f) \/ thread_message_loops_ # {}

PostFinish(t) ==
    LET f == pc[t][2] IN
    /\ pc[t][1] = "last?"
    /\ pc' = [pc EXCEPT ![t] = Idle]
    /\ tasks' = IF NotLast(f) THEN tasks
                ELSE [tasks EXCEPT ![Owner] = Append(@, <<"FinishFlush", f>>)]
    /\ UNCHANGED <<enableVars, mainVars, flushVars, thread_message_loops_, local, recorded>>

Next ==
    \/ \E t \in Threads, o \in OptionsUsed : SetEnabled(t, o)
    \/ \E t \in Threads : \/ SetDisabled(t) \/ Dispatched(t)
                          \/ BeginEvent(t) \/ MakeLocalBuffer(t) \/ CheckFull(t) \/ AddEvent(t)
    \/ \E t \in Loops : CloseLoop(t) \/ RunTask(t) \/ DeleteInFlush(t) \/ PostFinish(t)
    \/ Flush
    \/ \E f \in Flushes : BeginFlush(f) \/ FinishFlush(f) \/ OnFlushTimeout(f)

Spec == Init /\ [][Next]_vars

(* The flushing thread goes on, and its loop runs delayed tasks when they  *)
(* are due.                                                                *)
FairSpec ==
    /\ Spec
    /\ \A f \in Flushes : WF_vars(BeginFlush(f)) /\ WF_vars(FinishFlush(f)) /\ SF_vars(OnFlushTimeout(f))
    /\ WF_vars(Dispatched(Owner)) /\ WF_vars(MakeLocalBuffer(Owner)) /\ WF_vars(CheckFull(Owner))
    /\ WF_vars(AddEvent(Owner)) /\ WF_vars(DeleteInFlush(Owner)) /\ WF_vars(PostFinish(Owner))
    /\ WF_vars(RunTask(Owner))
-----------------------------------------------------------------------------
EnablingTyped ==
    /\ enable_count_ \in 0..MaxEnables /\ enables \in 0..MaxEnables /\ enabled \in BOOLEAN
    /\ trace_options_ \in OptionsUsed \cup {"until-full"} /\ recorded \in 0..MaxEvents
    /\ dispatching_to_observer_list_ \in BOOLEAN
    /\ dispatching_to_observer_list_ <=> \E t \in Threads : pc[t][1] = "dispatch"
MainTyped ==
    /\ logged_events_ \in Seq(Events)
    /\ buffer_is_full_ \in BOOLEAN /\ (buffer_is_full_ => IsFull(logged_events_))
FlushTyped ==
    /\ flush_count_ \in 0..MaxFlushes /\ flush_output_callback_ \in 0..MaxFlushes
    /\ flush_message_loop_proxy_ \in BOOLEAN /\ timers \subseteq Flushes
LocalsMatch ==
    \A t \in Loops : /\ local[t] # NULL <=> t \in thread_message_loops_
                     /\ local[t] # NULL => Len(local[t]) < LocalSize /\ pc[t][1] # "closed"

(* The variables have their types; a loop is asked for its buffer exactly  *)
(* while it has one, and then it is alive; and the flag that silences them *)
(* all is up only while the main buffer is full.                           *)
TypeOK == EnablingTyped /\ MainTyped /\ FlushTyped /\ LocalsMatch

(* However the last thread, the timeout and the ends of threads meet, a    *)
(* flush calls back once, and an event is in one buffer or was handed out  *)
(* once, or is lost.                                                       *)
NothingTwice ==
    /\ \A f \in Flushes : ended[f] <= 1
    /\ \A e \in Events :
        Cardinality({i \in DOMAIN logged_events_ : logged_events_[i] = e})
        + Cardinality({t \in Loops : local[t] # NULL /\ Contains(local[t], e)})
        + delivered[e] <= 1

(* Unless it timed out, a flush hands out all that was in a buffer when it *)
(* began: no thread is left behind ("Flush all collected events").         *)
FlushIsComplete ==
    [][\A f \in Flushes : ended'[f] # ended[f] /\ trace_options_ = "until-full" =>
            \A e \in due : delivered'[e] > 0]_vars

(* What makes them inductive: who does what, and for which flush; where an *)
(* event may be, and whose it was; a flush and its callback; and that what *)
(* a flush promised stays in the buffers, and is in the main one by the    *)
(* time the last thread has answered.                                      *)
Steps == {"idle", "dispatch", "begun", "add", "flush", "finish", "delete", "last?", "closed"}
Tasks == {"FlushCurrentThread", "FinishFlush"} \X (0..MaxFlushes)

StepsMatch ==
    /\ pc \in [Threads -> Steps \X (0..MaxFlushes)] /\ tasks \in [Loops -> Seq(Tasks)]
    /\ enable_count_ <= enables
    /\ \A t, u \in Threads : pc[t][1] = "dispatch" /\ pc[u][1] = "dispatch" => t = u
    /\ \A t \in Loops : pc[t][1] = "add" => local[t] # NULL
    /\ pc[Owner][1] = "flush" => pc[Owner][2] = flush_count_ + 1

IsIn(e, t) == local[t] # NULL /\ Contains(local[t], e)

InOnePlace ==
    /\ local \in [Loops -> Seq(Events) \cup {NULL}] /\ delivered \in [Events -> 0..1]
    /\ IsInjective(logged_events_)
    /\ \A t \in Loops : local[t] # NULL => IsInjective(local[t])
    /\ \A e \in Events, t \in Loops : IsIn(e, t) =>
        ~Contains(logged_events_, e) /\ \A u \in Loops : IsIn(e, u) => t = u
    /\ \A e \in Events : delivered[e] = 1 \/ e > recorded =>
        ~Contains(logged_events_, e) /\ \A t \in Loops : ~IsIn(e, t)
    /\ \A e \in Events : e > recorded => delivered[e] = 0

CallsBackOnce ==
    /\ flush_output_callback_ \in {0, flush_count_} /\ ended \in [Flushes -> 0..1]
    /\ \A f \in Flushes : f > flush_count_ \/ f = flush_output_callback_ => ended[f] = 0

Finishing ==
    \/ pc[Owner] = <<"finish", flush_count_>>
    \/ Contains(tasks[Owner], <<"FinishFlush", flush_count_>>)

DueIsHeld ==
    /\ due \subseteq Events /\ (~flush_message_loop_proxy_ => due = {})
    /\ \A t \in Loops : \A i \in DOMAIN tasks[t] : tasks[t][i][2] <= flush_count_
    /\ trace_options_ = "until-full" => \A e \in due :
        \/ Contains(logged_events_, e)
        \/ ~Finishing /\ \E t \in Loops : IsIn(e, t)

IInv == TypeOK /\ StepsMatch /\ InOnePlace /\ CallsBackOnce /\ DueIsHeld

(* Every flush ends, whichever threads answer, close or hang.              *)
FlushEnds == flush_message_loop_proxy_ ~> ~flush_message_loop_proxy_

(* trace_event_impl.h:398: all collected events are flushed to the output  *)
(* callback.  An event that a vector buffer holds leaves it for a callback.*)
CollectedIsFlushed ==
    [][\A e \in ToSet(logged_events_) :
          trace_options_ = "until-full" /\ trace_options_' = trace_options_
          => Contains(logged_events_', e) \/ delivered'[e] > 0]_vars
=============================================================================

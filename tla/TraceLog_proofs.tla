---------------------------- MODULE TraceLog_proofs ----------------------------
(* Proofs about TraceLog, for any threads, buffer sizes and bounds.        *)
EXTENDS TraceLog, SequenceTheorems, FiniteSetTheorems, TLAPS

(* What a sequence contains, and whether it contains it twice, after       *)
(* Append and after Tail.                                                  *)
LEMMA EmptyContains == IsInjective(<<>>) /\ \A e : ~Contains(<<>>, e)
  BY DEF IsInjective, Contains

LEMMA AppendContains ==
  ASSUME NEW S, NEW s \in Seq(S), NEW x \in S
  PROVE  /\ Append(s, x) \in Seq(S)
         /\ \A e : Contains(Append(s, x), e) <=> Contains(s, e) \/ e = x
         /\ IsInjective(s) /\ ~Contains(s, x) => IsInjective(Append(s, x))
  BY AppendProperties, LenProperties DEF Contains, IsInjective

LEMMA TailContains ==
  ASSUME NEW S, NEW s \in Seq(S), s # <<>>
  PROVE  /\ Tail(s) \in Seq(S) /\ s[1] \in S
         /\ \A e : Contains(s, e) <=> e = s[1] \/ Contains(Tail(s), e)
<1>1. /\ Tail(s) \in Seq(S) /\ Len(s) \in Nat \ {0} /\ Len(Tail(s)) = Len(s) - 1
      /\ \A i \in 1 .. Len(Tail(s)) : Tail(s)[i] = s[i + 1]
  BY HeadTailProperties, EmptySeq, LenProperties
<1>2. s[1] \in S  BY <1>1, ElementOfSeq
<1>3. ASSUME NEW e, Contains(s, e), e # s[1] PROVE Contains(Tail(s), e)
  <2>1. PICK i \in 1 .. Len(s) : s[i] = e  BY <1>3 DEF Contains
  <2>2. i - 1 \in 1 .. Len(Tail(s)) /\ Tail(s)[i - 1] = e  BY <2>1, <1>3, <1>1
  <2> QED  BY <2>2 DEF Contains
<1>4. ASSUME NEW e, Contains(Tail(s), e) PROVE Contains(s, e)
  <2>1. PICK i \in 1 .. Len(Tail(s)) : Tail(s)[i] = e  BY <1>4 DEF Contains
  <2>2. i + 1 \in 1 .. Len(s) /\ s[i + 1] = e  BY <2>1, <1>1
  <2> QED  BY <2>2 DEF Contains
<1>5. Contains(s, s[1])  BY <1>1 DEF Contains
<1> QED  BY <1>1, <1>2, <1>3, <1>4, <1>5

(* The main buffer after it took the events q: none of them twice, none    *)
(* that was not there or in q, and all of these if it is a vector.         *)
LEMMA LoggedContains ==
  ASSUME logged_events_ \in Seq(Events), IsInjective(logged_events_),
         NEW q \in Seq(Events), IsInjective(q),
         \A e \in Events : Contains(q, e) => ~Contains(logged_events_, e)
  PROVE  /\ Logged(q) \in Seq(Events) /\ IsInjective(Logged(q))
         /\ \A e : Contains(Logged(q), e) => Contains(logged_events_, e) \/ Contains(q, e)
         /\ trace_options_ = "until-full" =>
              /\ Len(Logged(q)) >= Len(logged_events_)
              /\ \A e : Contains(logged_events_, e) \/ Contains(q, e) => Contains(Logged(q), e)
<1> DEFINE log == logged_events_
           all == log \o q
<1>1. /\ Len(log) \in Nat /\ Len(q) \in Nat /\ DOMAIN log = 1 .. Len(log) /\ DOMAIN q = 1 .. Len(q)
      /\ \A i \in 1 .. Len(log) : log[i] \in Events
      /\ \A i \in 1 .. Len(q) : q[i] \in Events
  BY LenProperties, ElementOfSeq
<1>2. /\ all \in Seq(Events) /\ Len(all) = Len(log) + Len(q) /\ DOMAIN all = 1 .. Len(all)
      /\ \A i \in 1 .. Len(all) : all[i] = IF i <= Len(log) THEN log[i] ELSE q[i - Len(log)]
  BY ConcatProperties, LenProperties
<1>3. \A i \in 1 .. Len(all) : all[i] \in Events  BY <1>2, ElementOfSeq
<1>4. \A i \in 1 .. Len(log), j \in 1 .. Len(q) : log[i] # q[j]
  BY <1>1 DEF Contains
<1>5. IsInjective(all)
  <2>1. SUFFICES ASSUME NEW i \in 1 .. Len(all), NEW j \in 1 .. Len(all), all[i] = all[j] PROVE i = j
    BY <1>2 DEF IsInjective
  <2>2. CASE i <= Len(log) /\ j <= Len(log)
    <3>1. i \in 1 .. Len(log) /\ j \in 1 .. Len(log) /\ log[i] = log[j]  BY <2>1, <2>2, <1>1, <1>2
    <3> QED  BY <3>1, <1>1 DEF IsInjective
  <2>3. CASE i > Len(log) /\ j > Len(log)
    <3>1. i - Len(log) \in 1 .. Len(q) /\ j - Len(log) \in 1 .. Len(q)  BY <2>3, <1>1, <1>2
    <3>2. q[i - Len(log)] = q[j - Len(log)]  BY <2>1, <2>3, <1>1, <1>2
    <3>3. i - Len(log) = j - Len(log)  BY <3>1, <3>2, <1>1 DEF IsInjective
    <3> QED  BY <3>3, <1>1
  <2>4. CASE i <= Len(log) /\ j > Len(log)
    <3>1. i \in 1 .. Len(log) /\ j - Len(log) \in 1 .. Len(q)  BY <2>4, <1>1, <1>2
    <3> QED  BY <3>1, <2>1, <2>4, <1>2, <1>4
  <2>5. CASE i > Len(log) /\ j <= Len(log)
    <3>1. j \in 1 .. Len(log) /\ i - Len(log) \in 1 .. Len(q)  BY <2>5, <1>1, <1>2
    <3> QED  BY <3>1, <2>1, <2>5, <1>2, <1>4
  <2> QED  BY <2>2, <2>3, <2>4, <2>5, <1>1
<1>6. \A e : Contains(all, e) => Contains(log, e) \/ Contains(q, e)
  <2>1. SUFFICES ASSUME NEW i \in 1 .. Len(all) PROVE Contains(log, all[i]) \/ Contains(q, all[i])
    BY DEF Contains
  <2>2. CASE i <= Len(log)  BY <2>2, <1>1, <1>2 DEF Contains
  <2>3. CASE i > Len(log)
    <3>1. i - Len(log) \in 1 .. Len(q) /\ all[i] = q[i - Len(log)]  BY <2>3, <1>1, <1>2
    <3> QED  BY <3>1 DEF Contains
  <2> QED  BY <2>2, <2>3, <1>1
<1>7. \A e : Contains(log, e) \/ Contains(q, e) => Contains(all, e)
  <2>1. ASSUME NEW i \in 1 .. Len(log) PROVE Contains(all, log[i])
    <3>1. i \in 1 .. Len(all) /\ all[i] = log[i]  BY <1>1, <1>2
    <3> QED  BY <3>1 DEF Contains
  <2>2. ASSUME NEW i \in 1 .. Len(q) PROVE Contains(all, q[i])
    <3>1. Len(log) + i \in 1 .. Len(all) /\ all[Len(log) + i] = q[i]  BY <1>1, <1>2
    <3> QED  BY <3>1 DEF Contains
  <2> QED  BY <2>1, <2>2 DEF Contains
<1>8. CASE Logged(q) = all  BY <1>8, <1>2, <1>1, <1>5, <1>6, <1>7
<1>9. CASE Logged(q) = <<>> /\ trace_options_ # "until-full"  BY <1>9, EmptyContains, EmptySeq
<1>10. CASE Logged(q) = SubSeq(all, Len(all) - Capacity + 2, Len(all))
            /\ trace_options_ # "until-full" /\ ~(Len(all) < Capacity)
  <2> DEFINE m == Len(all) - Capacity + 2
             sub == SubSeq(all, m, Len(all))
  <2>1. m \in Int /\ Len(all) \in Nat /\ m >= 2  BY <1>10, <1>1, <1>2, TraceLogAssumption
  <2>2. /\ sub \in Seq(Events) /\ Len(sub) = IF m <= Len(all) THEN Len(all) - m + 1 ELSE 0
        /\ \A i \in 1 .. Len(all) - m + 1 : sub[i] = all[m + i - 1]
    <3>1. \A i \in m .. Len(all) : all[i] \in Events  BY <1>3, <2>1
    <3> HIDE DEF all, m
    <3> QED  BY <2>1, <3>1, SubSeqProperties
  <2>3. /\ DOMAIN sub = 1 .. Len(sub)
        /\ \A i \in 1 .. Len(sub) : m + i - 1 \in 1 .. Len(all) /\ sub[i] = all[m + i - 1]
    <3>1. DOMAIN sub = 1 .. Len(sub)  BY <2>2, LenProperties
    <3> HIDE DEF sub, m, all
    <3> QED  BY <3>1, <2>1, <2>2
  <2>4. IsInjective(sub)
    <3> HIDE DEF sub, m, all
    <3>1. SUFFICES ASSUME NEW i \in 1 .. Len(sub), NEW j \in 1 .. Len(sub), sub[i] = sub[j]
                   PROVE i = j
      BY <2>3 DEF IsInjective
    <3>2. m + i - 1 = m + j - 1  BY <3>1, <2>3, <1>2, <1>5 DEF IsInjective
    <3> QED  BY <3>2, <2>1
  <2>5. \A e : Contains(sub, e) => Contains(all, e)
    <3> HIDE DEF sub, m, all
    <3> QED  BY <2>3 DEF Contains
  <2> QED  BY <2>2, <2>4, <2>5, <1>6, <1>10
<1> QED  BY <1>8, <1>9, <1>10 DEF Logged

LEMMA AddsToMain ==
  ASSUME TypeOK, IsInjective(logged_events_),
         NEW q \in Seq(Events), IsInjective(q),
         \A e \in Events : Contains(q, e) => ~Contains(logged_events_, e),
         AddToMainBuffer(q), UNCHANGED trace_options_
  PROVE  /\ logged_events_' \in Seq(Events) /\ IsInjective(logged_events_')
         /\ buffer_is_full_' \in BOOLEAN /\ (buffer_is_full_' => IsFull(logged_events_)')
         /\ \A e : Contains(logged_events_', e) => Contains(logged_events_, e) \/ Contains(q, e)
         /\ trace_options_ = "until-full" =>
              \A e : Contains(logged_events_, e) \/ Contains(q, e) => Contains(logged_events_', e)
<1>1. /\ logged_events_ \in Seq(Events) /\ buffer_is_full_ \in BOOLEAN
      /\ buffer_is_full_ => trace_options_ = "until-full" /\ Len(logged_events_) >= Capacity
  BY DEF TypeOK, MainTyped, IsFull
<1>2. logged_events_' = Logged(q)  BY DEF AddToMainBuffer
<1>3. /\ Logged(q) \in Seq(Events) /\ IsInjective(Logged(q))
      /\ \A e : Contains(Logged(q), e) => Contains(logged_events_, e) \/ Contains(q, e)
      /\ trace_options_ = "until-full" =>
              /\ Len(Logged(q)) >= Len(logged_events_)
              /\ \A e : Contains(logged_events_, e) \/ Contains(q, e) => Contains(Logged(q), e)
  BY <1>1, LoggedContains
<1>4. buffer_is_full_' \in BOOLEAN  BY DEF AddToMainBuffer
<1>5. ASSUME buffer_is_full_' PROVE trace_options_ = "until-full" /\ Len(Logged(q)) >= Capacity
  <2>1. buffer_is_full_ \/ IsFull(Logged(q))  BY <1>5 DEF AddToMainBuffer
  <2>2. Len(Logged(q)) \in Nat /\ Len(logged_events_) \in Nat /\ Capacity \in Nat
    BY <1>1, <1>3, LenProperties, TraceLogAssumption
  <2> QED  BY <2>1, <2>2, <1>1, <1>3 DEF IsFull
<1> QED  BY <1>2, <1>3, <1>4, <1>5 DEF IsFull

(* Deleting the buffer of a thread moves its events to the main buffer.    *)
LEMMA DeletesBuffer ==
  ASSUME TypeOK, InOnePlace, NEW t \in Loops, DeleteLocalBuffer(t),
         UNCHANGED <<trace_options_, recorded, delivered>>
  PROVE  /\ logged_events_' \in Seq(Events)
         /\ buffer_is_full_' \in BOOLEAN /\ (buffer_is_full_' => IsFull(logged_events_)')
         /\ local' = [local EXCEPT ![t] = NULL]
         /\ thread_message_loops_' \in {thread_message_loops_, thread_message_loops_ \ {t}}
         /\ t \notin thread_message_loops_'
         /\ InOnePlace'
         /\ trace_options_ = "until-full" => \A e \in Events :
              Contains(logged_events_, e) \/ IsIn(e, t) => Contains(logged_events_', e)
<1> USE DEF InOnePlace
<1>1. /\ local \in [Loops -> Seq(Events) \cup {NULL}]
      /\ (local[t] # NULL) <=> (t \in thread_message_loops_)
  BY DEF TypeOK, LocalsMatch
<1>2. CASE local[t] = NULL
  <2>1. UNCHANGED <<mainVars, local, thread_message_loops_>>  BY <1>2 DEF DeleteLocalBuffer
  <2>2. local' = [local EXCEPT ![t] = NULL]  BY <2>1, <1>1, <1>2
  <2> QED  BY <2>1, <2>2, <1>1, <1>2 DEF TypeOK, MainTyped, mainVars, IsFull, IsIn
<1>3. CASE local[t] # NULL
  <2> DEFINE q == local[t]
  <2>1. /\ AddToMainBuffer(q) /\ local' = [local EXCEPT ![t] = NULL]
        /\ thread_message_loops_' = thread_message_loops_ \ {t}
    BY <1>3 DEF DeleteLocalBuffer
  <2>2. /\ q \in Seq(Events) /\ IsInjective(q) /\ \A e \in Events : Contains(q, e) <=> IsIn(e, t)
        /\ \A e \in Events : Contains(q, e) => ~Contains(logged_events_, e)
    BY <1>1, <1>3 DEF IsIn
  <2>3. /\ logged_events_' \in Seq(Events) /\ IsInjective(logged_events_')
        /\ buffer_is_full_' \in BOOLEAN /\ (buffer_is_full_' => IsFull(logged_events_)')
        /\ \A e : Contains(logged_events_', e) => Contains(logged_events_, e) \/ Contains(q, e)
        /\ trace_options_ = "until-full" =>
             \A e : Contains(logged_events_, e) \/ Contains(q, e) => Contains(logged_events_', e)
    <3> HIDE DEF q
    <3> QED  BY <2>1, <2>2, AddsToMain
  <2>4. \A e \in Events, u \in Loops : IsIn(e, u)' <=> IsIn(e, u) /\ u # t
    BY <2>1, <1>1 DEF IsIn
  <2>5. InOnePlace'
    <3>1. /\ local' \in [Loops -> Seq(Events) \cup {NULL}] /\ delivered' \in [Events -> 0..1]
          /\ IsInjective(logged_events_')
          /\ \A u \in Loops : local'[u] # NULL => IsInjective(local'[u])
      BY <2>1, <2>3, <1>1
    <3>2. \A e \in Events : Contains(logged_events_', e) => Contains(logged_events_, e) \/ IsIn(e, t)
      BY <2>2, <2>3
    <3>3. \A e \in Events, u \in Loops : IsIn(e, u)' =>
            ~Contains(logged_events_', e) /\ \A v \in Loops : IsIn(e, v)' => u = v
      BY <3>2, <2>4
    <3>4. \A e \in Events : delivered'[e] = 1 \/ e > recorded' =>
            ~Contains(logged_events_', e) /\ \A u \in Loops : ~IsIn(e, u)'
      BY <3>2, <2>4
    <3>5. \A e \in Events : e > recorded' => delivered'[e] = 0  OBVIOUS
    <3> HIDE DEF InOnePlace
    <3> QED  BY <3>1, <3>3, <3>4, <3>5 DEF InOnePlace
  <2>6. t \notin thread_message_loops_'  BY <2>1
  <2> QED  BY <2>1, <2>2, <2>3, <2>5, <2>6
<1> QED  BY <1>2, <1>3

LEMMA Bounds ==
  /\ MaxEvents \in Nat /\ MaxFlushes \in Nat /\ MaxEnables \in Nat
  /\ Events \subseteq Nat /\ Flushes \subseteq 1 .. MaxFlushes /\ 0 \notin Flushes
  /\ Owner \in Loops /\ Loops \subseteq Threads /\ Bare \subseteq Threads
BY TraceLogAssumption DEF Events, Flushes, Threads

LEMMA InitIsOK == Init => IInv
<1> SUFFICES ASSUME Init PROVE IInv  OBVIOUS
<1> USE Bounds, EmptyContains DEF Init
<1>1. <<>> \in Seq(Events) /\ <<>> \in Seq(Tasks)  BY EmptySeq
<1>2. TypeOK
  <2>1. \A t \in Threads : pc[t][1] = "idle"  BY DEF Idle
  <2>2. ~\E t \in Threads : pc[t][1] = "dispatch"  BY <2>1
  <2>3. /\ enable_count_ \in 0 .. MaxEnables /\ enables \in 0 .. MaxEnables
        /\ recorded \in 0 .. MaxEvents
        /\ flush_count_ \in 0 .. MaxFlushes /\ flush_output_callback_ \in 0 .. MaxFlushes
    OBVIOUS
  <2>4. ~dispatching_to_observer_list_ /\ ~buffer_is_full_ /\ enabled \in BOOLEAN
        /\ flush_message_loop_proxy_ \in BOOLEAN /\ buffer_is_full_ \in BOOLEAN
        /\ dispatching_to_observer_list_ \in BOOLEAN
    OBVIOUS
  <2>5. \A t \in Loops : local[t] = NULL /\ t \notin thread_message_loops_  OBVIOUS
  <2>6. timers \subseteq Flushes /\ trace_options_ \in OptionsUsed \cup {"until-full"}  OBVIOUS
  <2>7. logged_events_ \in Seq(Events)  BY <1>1
  <2> HIDE DEF Init
  <2> QED  BY <2>2, <2>3, <2>4, <2>5, <2>6, <2>7 DEF TypeOK, EnablingTyped, MainTyped, FlushTyped, LocalsMatch
<1>3. StepsMatch  BY <1>1 DEF StepsMatch, Idle, Steps
<1>4. InOnePlace  BY DEF InOnePlace, IsIn
<1>5. CallsBackOnce  BY DEF CallsBackOnce
<1>6. DueIsHeld  BY <1>1, EmptySeq, LenProperties DEF DueIsHeld
<1> QED  BY <1>2, <1>3, <1>4, <1>5, <1>6 DEF IInv
-----------------------------------------------------------------------------
(* Steps that do not touch what a part of the invariant is about.          *)
LEMMA Frames ==
  ASSUME IInv
  PROVE  /\ UNCHANGED <<enable_count_, enabled, enables, trace_options_, recorded,
                        dispatching_to_observer_list_, pc>> => EnablingTyped'
         /\ UNCHANGED <<logged_events_, buffer_is_full_, trace_options_>> => MainTyped'
         /\ UNCHANGED <<flush_count_, flush_output_callback_, flush_message_loop_proxy_, timers>>
              => FlushTyped'
         /\ UNCHANGED <<local, thread_message_loops_>>
              /\ (\A t \in Loops : pc'[t][1] = "closed" => pc[t][1] = "closed") => LocalsMatch'
         /\ UNCHANGED <<local, delivered, logged_events_, recorded>> => InOnePlace'
         /\ UNCHANGED <<flush_output_callback_, flush_count_, ended>> => CallsBackOnce'
         /\ UNCHANGED <<due, flush_message_loop_proxy_, flush_count_, trace_options_,
                        logged_events_, local, tasks>>
              /\ (pc'[Owner] # pc[Owner] => pc'[Owner][1] # "finish") => DueIsHeld'
<1> USE DEF IInv
<1>1. UNCHANGED <<local, delivered, logged_events_, recorded>> => InOnePlace'
  BY DEF InOnePlace, IsIn
<1>2. UNCHANGED <<flush_output_callback_, flush_count_, ended>> => CallsBackOnce'
  BY DEF CallsBackOnce
<1>3. ASSUME UNCHANGED <<due, flush_message_loop_proxy_, flush_count_, trace_options_,
                        logged_events_, local, tasks>>,
             pc'[Owner] # pc[Owner] => pc'[Owner][1] # "finish"
      PROVE  DueIsHeld'
  <2>1. Finishing' => Finishing  BY <1>3 DEF Finishing
  <2>2. \A e, t : IsIn(e, t)' <=> IsIn(e, t)  BY <1>3 DEF IsIn
  <2> QED  BY <1>3, <2>1, <2>2 DEF DueIsHeld
<1> HIDE DEF IInv
<1>4. EnablingTyped /\ MainTyped /\ FlushTyped /\ LocalsMatch  BY DEF IInv, TypeOK
<1>5. UNCHANGED <<enable_count_, enabled, enables, trace_options_, recorded,
                  dispatching_to_observer_list_, pc>> => EnablingTyped'
  BY <1>4 DEF EnablingTyped
<1>6. UNCHANGED <<logged_events_, buffer_is_full_, trace_options_>> => MainTyped'
  BY <1>4 DEF MainTyped, IsFull
<1>7. UNCHANGED <<flush_count_, flush_output_callback_, flush_message_loop_proxy_, timers>>
      => FlushTyped'
  BY <1>4 DEF FlushTyped
<1>8. UNCHANGED <<local, thread_message_loops_>>
        /\ (\A t \in Loops : pc'[t][1] = "closed" => pc[t][1] = "closed") => LocalsMatch'
  BY <1>4 DEF LocalsMatch
<1> QED  BY <1>1, <1>2, <1>3, <1>5, <1>6, <1>7, <1>8

(* A thread goes from one step to another, neither of which is a dispatch  *)
(* to the observers.                                                       *)
LEMMA Goes ==
  ASSUME IInv, NEW t \in Threads, NEW v \in Steps \X (0 .. MaxFlushes),
         pc' = [pc EXCEPT ![t] = v], pc[t][1] # "dispatch", v[1] # "dispatch",
         recorded' \in 0 .. MaxEvents,
         UNCHANGED <<enable_count_, enabled, enables, trace_options_, dispatching_to_observer_list_>>
  PROVE  /\ \A u \in Threads : pc'[u] = IF u = t THEN v ELSE pc[u]
         /\ EnablingTyped'
         /\ tasks' \in [Loops -> Seq(Tasks)]
            /\ (\A u \in Loops : pc'[u][1] = "add" => local'[u] # NULL)
            /\ (pc'[Owner][1] = "flush" => pc'[Owner][2] = flush_count_' + 1)
            => StepsMatch'
<1> USE Bounds
<1>1. \A u \in Threads : pc'[u] = IF u = t THEN v ELSE pc[u]  BY DEF IInv, StepsMatch
<1>2. EnablingTyped'
  <2>1. (\E u \in Threads : pc'[u][1] = "dispatch") <=> (\E u \in Threads : pc[u][1] = "dispatch")
    BY <1>1
  <2>2. EnablingTyped  BY DEF IInv, TypeOK
  <2> QED  BY <2>1, <2>2 DEF EnablingTyped
<1>3. ASSUME /\ tasks' \in [Loops -> Seq(Tasks)]
             /\ (\A u \in Loops : pc'[u][1] = "add" => local'[u] # NULL)
             /\ (pc'[Owner][1] = "flush" => pc'[Owner][2] = flush_count_' + 1)
      PROVE  StepsMatch'
  <2>1. pc' \in [Threads -> Steps \X (0 .. MaxFlushes)]  BY DEF IInv, StepsMatch
  <2>2. \A u, w \in Threads : pc'[u][1] = "dispatch" /\ pc'[w][1] = "dispatch" => u = w
    BY <1>1 DEF IInv, StepsMatch
  <2>3. enable_count_' <= enables'  BY DEF IInv, StepsMatch
  <2> QED  BY <1>3, <2>1, <2>2, <2>3 DEF StepsMatch
<1> QED  BY <1>1, <1>2, <1>3

(* Who dispatches to the observers is alone.                               *)
LEMMA Dispatches ==
  ASSUME IInv, NEW t \in Threads,
         UNCHANGED <<local, tasks, flush_count_>>, enable_count_' <= enables',
         \/ UNCHANGED <<dispatching_to_observer_list_, pc>>
         \/ /\ ~dispatching_to_observer_list_ /\ dispatching_to_observer_list_' = TRUE
            /\ pc[t] = Idle /\ pc' = [pc EXCEPT ![t] = <<"dispatch", 0>>]
  PROVE  /\ StepsMatch'
         /\ dispatching_to_observer_list_' \in BOOLEAN
         /\ dispatching_to_observer_list_' <=> \E u \in Threads : pc'[u][1] = "dispatch"
         /\ \A u \in Threads : pc'[u][1] = "closed" => pc[u][1] = "closed"
         /\ pc'[Owner] # pc[Owner] => pc'[Owner][1] # "finish"
<1> USE Bounds DEF IInv
<1>1. CASE UNCHANGED <<dispatching_to_observer_list_, pc>>
  <2>1. StepsMatch'  BY <1>1 DEF StepsMatch
  <2>2. /\ dispatching_to_observer_list_' \in BOOLEAN
        /\ dispatching_to_observer_list_' <=> \E u \in Threads : pc'[u][1] = "dispatch"
    BY <1>1 DEF TypeOK, EnablingTyped
  <2> QED  BY <1>1, <2>1, <2>2
<1>2. CASE /\ ~dispatching_to_observer_list_ /\ dispatching_to_observer_list_' = TRUE
           /\ pc[t] = Idle /\ pc' = [pc EXCEPT ![t] = <<"dispatch", 0>>]
  <2>1. \A u \in Threads : pc'[u] = IF u = t THEN <<"dispatch", 0>> ELSE pc[u]
    BY <1>2 DEF StepsMatch
  <2>2. \A u \in Threads : pc[u][1] # "dispatch"  BY <1>2 DEF TypeOK, EnablingTyped
  <2>3. pc' \in [Threads -> Steps \X (0 .. MaxFlushes)]  BY <1>2 DEF Steps, StepsMatch
  <2>4. StepsMatch'
    <3>1. tasks' \in [Loops -> Seq(Tasks)]  BY DEF StepsMatch
    <3>2. \A u \in Loops : pc'[u][1] = "add" => local'[u] # NULL  BY <2>1 DEF StepsMatch
    <3>3. pc'[Owner][1] = "flush" => pc'[Owner][2] = flush_count_' + 1  BY <2>1 DEF StepsMatch
    <3>4. \A u, w \in Threads : pc'[u][1] = "dispatch" /\ pc'[w][1] = "dispatch" => u = w
      BY <2>1, <2>2
    <3> QED  BY <2>3, <3>1, <3>2, <3>3, <3>4 DEF StepsMatch
  <2>5. \E u \in Threads : pc'[u][1] = "dispatch"  BY <2>1
  <2> QED  BY <1>2, <2>1, <2>4, <2>5
<1> QED  BY <1>1, <1>2

LEMMA SetEnabledStep ==
  ASSUME IInv, NEW t \in Threads, NEW o \in OptionsUsed, SetEnabled(t, o)
  PROVE  IInv'
<1> USE Bounds DEF IInv
<1>1. /\ enable_count_ \in 0 .. MaxEnables /\ enables \in 0 .. MaxEnables
      /\ enable_count_ <= enables
      /\ pc[t] = Idle /\ ~flush_message_loop_proxy_ /\ enables < MaxEnables
      /\ enables' = enables + 1 /\ enable_count_' = enable_count_ + 1
      /\ UNCHANGED <<flushVars, thread_message_loops_, local, tasks, recorded>>
  BY DEF SetEnabled, TypeOK, EnablingTyped, StepsMatch
<1>2. \/ UNCHANGED <<dispatching_to_observer_list_, pc>>
      \/ /\ ~dispatching_to_observer_list_ /\ dispatching_to_observer_list_' = TRUE
         /\ pc[t] = Idle /\ pc' = [pc EXCEPT ![t] = <<"dispatch", 0>>]
  BY DEF SetEnabled
<1>3. \/ UNCHANGED <<trace_options_, mainVars>>
      \/ trace_options_' = o /\ logged_events_' = <<>> /\ buffer_is_full_' = FALSE
  BY DEF SetEnabled, TypeOK, MainTyped, mainVars
<1>4. enabled' \in BOOLEAN
  BY DEF SetEnabled, TypeOK, EnablingTyped
<1>5. /\ StepsMatch'
      /\ dispatching_to_observer_list_' \in BOOLEAN
      /\ dispatching_to_observer_list_' <=> \E u \in Threads : pc'[u][1] = "dispatch"
      /\ \A u \in Threads : pc'[u][1] = "closed" => pc[u][1] = "closed"
      /\ pc'[Owner] # pc[Owner] => pc'[Owner][1] # "finish"
  <2>1. enable_count_' <= enables' /\ UNCHANGED <<local, tasks, flush_count_>>
    BY <1>1 DEF flushVars
  <2> QED  BY <1>2, <2>1, Dispatches
<1>6. TypeOK'
  <2>1. enable_count_' \in 0 .. MaxEnables /\ enables' \in 0 .. MaxEnables  BY <1>1
  <2>2. /\ trace_options_' \in OptionsUsed \cup {"until-full"}
        /\ logged_events_' \in Seq(Events)
        /\ buffer_is_full_' \in BOOLEAN /\ (buffer_is_full_' => IsFull(logged_events_)')
    <3>1. CASE UNCHANGED <<trace_options_, mainVars>>  BY <3>1 DEF TypeOK, EnablingTyped, MainTyped, mainVars, IsFull
    <3>2. CASE trace_options_' = o /\ logged_events_' = <<>> /\ buffer_is_full_' = FALSE
      BY <3>2, EmptySeq DEF IsFull
    <3> QED  BY <1>3, <3>1, <3>2
  <2>3. EnablingTyped'  BY <1>1, <1>4, <1>5, <2>1, <2>2 DEF TypeOK, EnablingTyped
  <2>4. MainTyped'  BY <2>2 DEF MainTyped
  <2>5. FlushTyped' /\ LocalsMatch'  BY <1>1, <1>5, Frames DEF flushVars
  <2> QED  BY <2>3, <2>4, <2>5 DEF TypeOK
<1>7. InOnePlace'
  <2>1. /\ \A e : Contains(logged_events_', e) => Contains(logged_events_, e)
        /\ IsInjective(logged_events_')
    BY <1>3, EmptyContains DEF InOnePlace, mainVars
  <2>2. \A e, u : IsIn(e, u)' <=> IsIn(e, u)  BY <1>1 DEF IsIn
  <2> QED  BY <1>1, <2>1, <2>2 DEF InOnePlace, flushVars
<1>8. CallsBackOnce'  BY <1>1, Frames DEF flushVars
<1>9. DueIsHeld'  BY <1>1 DEF DueIsHeld, flushVars
<1> QED  BY <1>5, <1>6, <1>7, <1>8, <1>9

LEMMA SetDisabledStep ==
  ASSUME IInv, NEW t \in Threads, SetDisabled(t)
  PROVE  IInv'
<1> USE Bounds DEF IInv
<1>1. /\ enable_count_ \in 0 .. MaxEnables /\ enables \in 0 .. MaxEnables
      /\ enable_count_ <= enables
      /\ enable_count_ > 0 /\ enable_count_' = enable_count_ - 1
      /\ UNCHANGED <<trace_options_, enables, mainVars, flushVars, thread_message_loops_, local,
                     tasks, recorded>>
  BY DEF SetDisabled, TypeOK, EnablingTyped, StepsMatch
<1>2. \/ UNCHANGED <<dispatching_to_observer_list_, pc>>
      \/ /\ ~dispatching_to_observer_list_ /\ dispatching_to_observer_list_' = TRUE
         /\ pc[t] = Idle /\ pc' = [pc EXCEPT ![t] = <<"dispatch", 0>>]
  BY DEF SetDisabled
<1>3. enabled' \in BOOLEAN  BY DEF SetDisabled, TypeOK, EnablingTyped
<1>4. /\ StepsMatch'
      /\ dispatching_to_observer_list_' \in BOOLEAN
      /\ dispatching_to_observer_list_' <=> \E u \in Threads : pc'[u][1] = "dispatch"
      /\ \A u \in Threads : pc'[u][1] = "closed" => pc[u][1] = "closed"
      /\ pc'[Owner] # pc[Owner] => pc'[Owner][1] # "finish"
  <2>1. enable_count_' <= enables' /\ UNCHANGED <<local, tasks, flush_count_>>
    BY <1>1 DEF flushVars
  <2> QED  BY <1>2, <2>1, Dispatches
<1>5. TypeOK'
  <2>1. enable_count_' \in 0 .. MaxEnables /\ enables' \in 0 .. MaxEnables  BY <1>1
  <2>2. EnablingTyped'  BY <1>1, <1>3, <1>4, <2>1 DEF TypeOK, EnablingTyped
  <2>3. MainTyped' /\ FlushTyped' /\ LocalsMatch'  BY <1>1, <1>4, Frames DEF flushVars, mainVars
  <2> QED  BY <2>2, <2>3 DEF TypeOK
<1>6. InOnePlace' /\ CallsBackOnce' /\ DueIsHeld'
  BY <1>1, <1>4, Frames DEF flushVars, mainVars
<1> QED  BY <1>4, <1>5, <1>6

LEMMA DispatchedStep ==
  ASSUME IInv, NEW t \in Threads, Dispatched(t)
  PROVE  IInv'
<1> USE Bounds DEF IInv, Dispatched, flushVars, mainVars
<1>1. \A u \in Threads : pc'[u] = IF u = t THEN Idle ELSE pc[u]  BY DEF StepsMatch
<1>2. TypeOK'
  <2>1. ~\E u \in Threads : pc'[u][1] = "dispatch"  BY <1>1 DEF StepsMatch, Idle
  <2>2. dispatching_to_observer_list_' = FALSE  OBVIOUS
  <2>3. EnablingTyped'  BY <2>1, <2>2 DEF TypeOK, EnablingTyped
  <2>4. \A u \in Loops : pc'[u][1] = "closed" => pc[u][1] = "closed"  BY <1>1 DEF Idle
  <2>5. MainTyped' /\ FlushTyped' /\ LocalsMatch'  BY <2>4, Frames
  <2> QED  BY <2>3, <2>5 DEF TypeOK
<1>3. StepsMatch'  BY <1>1 DEF StepsMatch, Idle, Steps
<1>4. pc'[Owner] # pc[Owner] => pc'[Owner][1] # "finish"  BY <1>1 DEF Idle
<1>5. InOnePlace' /\ CallsBackOnce' /\ DueIsHeld'  BY <1>4, Frames
<1> QED  BY <1>2, <1>3, <1>5
-----------------------------------------------------------------------------
(* A thread's steps outside lock_ change nothing but what it does next.    *)
LEMMA OnlyGoes ==
  ASSUME IInv, NEW t \in Threads, NEW v \in Steps \X (0 .. MaxFlushes),
         pc' = [pc EXCEPT ![t] = v],
         pc[t][1] # "dispatch", v[1] \notin {"dispatch", "closed"},
         v[1] = "add" => (t \in Loops => local[t] # NULL),
         v[1] = "flush" => t = Owner /\ v[2] = flush_count_ + 1,
         v[1] # "finish" \/ t # Owner,
         UNCHANGED <<enableVars, mainVars, flushVars, thread_message_loops_, local, tasks, recorded>>
  PROVE  IInv'
<1> USE Bounds
<1>1. UNCHANGED <<enable_count_, enabled, enables, trace_options_, dispatching_to_observer_list_,
                  logged_events_, buffer_is_full_, flush_count_, flush_output_callback_,
                  flush_message_loop_proxy_, timers, delivered, ended, due,
                  thread_message_loops_, local, tasks, recorded>>
  BY DEF enableVars, mainVars, flushVars
<1>2. recorded' \in 0 .. MaxEvents  BY <1>1 DEF IInv, TypeOK, EnablingTyped
<1>3. /\ \A u \in Threads : pc'[u] = IF u = t THEN v ELSE pc[u]
      /\ EnablingTyped'
      /\ tasks' \in [Loops -> Seq(Tasks)]
         /\ (\A u \in Loops : pc'[u][1] = "add" => local'[u] # NULL)
         /\ (pc'[Owner][1] = "flush" => pc'[Owner][2] = flush_count_' + 1)
         => StepsMatch'
  BY <1>1, <1>2, Goes
<1>4. StepsMatch'
  <2>1. tasks' \in [Loops -> Seq(Tasks)]  BY <1>1 DEF IInv, StepsMatch
  <2>2. \A u \in Loops : pc'[u][1] = "add" => local'[u] # NULL
    BY <1>1, <1>3 DEF IInv, StepsMatch
  <2>3. pc'[Owner][1] = "flush" => pc'[Owner][2] = flush_count_' + 1
    BY <1>1, <1>3 DEF IInv, StepsMatch
  <2> QED  BY <1>3, <2>1, <2>2, <2>3
<1>5. MainTyped' /\ FlushTyped' /\ LocalsMatch' /\ InOnePlace' /\ CallsBackOnce' /\ DueIsHeld'
  <2>1. \A u \in Loops : pc'[u][1] = "closed" => pc[u][1] = "closed"  BY <1>3
  <2>2. pc'[Owner] # pc[Owner] => pc'[Owner][1] # "finish"  BY <1>3
  <2> QED  BY <1>1, <2>1, <2>2, Frames
<1> QED  BY <1>3, <1>4, <1>5 DEF IInv, TypeOK

LEMMA BeginEventStep ==
  ASSUME IInv, NEW t \in Threads, BeginEvent(t)
  PROVE  IInv'
<1> DEFINE v == <<"begun", 0>>
<1>1. v \in Steps \X (0 .. MaxFlushes) /\ v[1] = "begun"  BY Bounds DEF Steps
<1>2. pc' = [pc EXCEPT ![t] = v] /\ pc[t][1] = "idle"  BY DEF BeginEvent, Idle
<1>3. UNCHANGED <<enableVars, mainVars, flushVars, thread_message_loops_, local, tasks, recorded>>
  BY DEF BeginEvent
<1> HIDE DEF v
<1> QED  BY <1>1, <1>2, <1>3, OnlyGoes

LEMMA CheckFullStep ==
  ASSUME IInv, NEW t \in Threads, CheckFull(t)
  PROVE  IInv'
<1> DEFINE v == IF buffer_is_full_ \/ recorded = MaxEvents THEN Idle ELSE <<"add", 0>>
<1>1. v \in Steps \X (0 .. MaxFlushes) /\ v[1] \in {"idle", "add"}  BY Bounds DEF Steps, Idle
<1>2. pc' = [pc EXCEPT ![t] = v] /\ pc[t][1] = "begun"  BY DEF CheckFull
<1>3. UNCHANGED <<enableVars, mainVars, flushVars, thread_message_loops_, local, tasks, recorded>>
  BY DEF CheckFull
<1>4. t \in Loops => local[t] # NULL  BY DEF CheckFull
<1> HIDE DEF v
<1> QED  BY <1>1, <1>2, <1>3, <1>4, OnlyGoes

LEMMA FlushStep ==
  ASSUME IInv, Flush
  PROVE  IInv'
<1> DEFINE v == <<"flush", flush_count_ + 1>>
<1>1. v \in Steps \X (0 .. MaxFlushes) /\ v[1] = "flush" /\ v[2] = flush_count_ + 1
  BY Bounds DEF Steps, Flush, IInv, TypeOK, FlushTyped
<1>2. pc' = [pc EXCEPT ![Owner] = v] /\ pc[Owner][1] = "idle"  BY DEF Flush, Idle
<1>3. UNCHANGED <<enableVars, mainVars, flushVars, thread_message_loops_, local, tasks, recorded>>
  BY DEF Flush
<1> HIDE DEF v
<1> QED  BY <1>1, <1>2, <1>3, OnlyGoes, Bounds

LEMMA MakeLocalBufferStep ==
  ASSUME IInv, NEW t \in Threads, MakeLocalBuffer(t)
  PROVE  IInv'
<1> USE Bounds DEF IInv
<1>1. /\ t \in Loops /\ pc[t][1] = "begun" /\ local[t] = NULL
      /\ thread_message_loops_' = thread_message_loops_ \cup {t}
      /\ local' = [local EXCEPT ![t] = <<>>]
      /\ UNCHANGED <<enableVars, mainVars, flushVars, tasks, pc, recorded>>
  BY DEF MakeLocalBuffer
<1>2. <<>> \in Seq(Events) /\ <<>> # NULL /\ Len(<<>>) = 0 /\ LocalSize \in Nat \ {0}
  BY EmptySeq, TraceLogAssumption
<1>3. \A u \in Loops : local'[u] = IF u = t THEN <<>> ELSE local[u]  BY <1>1 DEF InOnePlace
<1>4. \A e \in Events, u \in Loops : IsIn(e, u)' <=> IsIn(e, u)
  BY <1>1, <1>3, EmptyContains DEF IsIn
<1>5. TypeOK'
  <2>1. LocalsMatch'  BY <1>1, <1>2, <1>3 DEF TypeOK, LocalsMatch
  <2>2. EnablingTyped' /\ MainTyped' /\ FlushTyped'
    BY <1>1, Frames DEF mainVars, enableVars, flushVars
  <2> QED  BY <2>1, <2>2 DEF TypeOK
<1>6. StepsMatch'  BY <1>1, <1>2, <1>3 DEF StepsMatch, enableVars, flushVars
<1>7. InOnePlace'
  <2>1. /\ local' \in [Loops -> Seq(Events) \cup {NULL}]
        /\ \A u \in Loops : local'[u] # NULL => IsInjective(local'[u])
    BY <1>1, <1>2, <1>3, EmptyContains DEF InOnePlace
  <2> QED  BY <1>1, <1>4, <2>1 DEF InOnePlace, mainVars, flushVars
<1>8. CallsBackOnce'  BY <1>1, Frames DEF flushVars
<1>9. DueIsHeld'
  <2>1. Finishing' <=> Finishing  BY <1>1 DEF Finishing, flushVars
  <2> QED  BY <1>1, <1>4, <2>1 DEF DueIsHeld, flushVars, mainVars, enableVars
<1> QED  BY <1>5, <1>6, <1>7, <1>8, <1>9
-----------------------------------------------------------------------------
(* The next event is new to every buffer, and goes into one of them.       *)
LEMMA AddEventStep ==
  ASSUME IInv, NEW t \in Threads, AddEvent(t)
  PROVE  IInv'
<1> USE Bounds
<1> DEFINE e == recorded + 1
<1>1. /\ pc[t][1] = "add" /\ pc' = [pc EXCEPT ![t] = Idle]
      /\ UNCHANGED <<enableVars, flushVars, thread_message_loops_, tasks>>
  BY DEF AddEvent
<1>2. Idle \in Steps \X (0 .. MaxFlushes) /\ Idle[1] = "idle"  BY DEF Idle, Steps
<1>3. t \in Loops => local[t] # NULL  BY <1>1 DEF IInv, StepsMatch
<1>4. CASE recorded = MaxEvents
  <2>1. UNCHANGED <<mainVars, local, recorded>>  BY <1>4 DEF AddEvent
  <2> QED  BY <1>1, <1>2, <2>1, OnlyGoes
<1>5. CASE recorded # MaxEvents
  <2>1. recorded' = e /\ e \in Events /\ recorded' \in 0 .. MaxEvents
    BY <1>5 DEF AddEvent, Events, IInv, TypeOK, EnablingTyped
  <2>2. ~Contains(logged_events_, e) /\ (\A u \in Loops : ~IsIn(e, u)) /\ delivered[e] = 0
    <3>1. e > recorded  BY DEF IInv, TypeOK, EnablingTyped
    <3> HIDE DEF e
    <3> QED  BY <2>1, <3>1 DEF IInv, InOnePlace
  <2>4. /\ logged_events_ \in Seq(Events) /\ IsInjective(logged_events_)
        /\ local \in [Loops -> Seq(Events) \cup {NULL}]
        /\ \A u \in Loops : local[u] # NULL => IsInjective(local[u])
    BY DEF IInv, TypeOK, MainTyped, InOnePlace
  <2>5. \/ /\ t \notin Loops /\ AddToMainBuffer(<<e>>) /\ UNCHANGED local
        \/ /\ t \in Loops /\ Len(local[t]) + 1 < LocalSize
           /\ local' = [local EXCEPT ![t] = Append(@, e)] /\ UNCHANGED mainVars
        \/ /\ t \in Loops /\ AddToMainBuffer(Append(local[t], e))
           /\ local' = [local EXCEPT ![t] = <<>>]
    BY <1>5, TraceLogAssumption DEF AddEvent, Threads
  <2>6. /\ \A u \in Threads : pc'[u] = IF u = t THEN Idle ELSE pc[u]
        /\ EnablingTyped'
        /\ tasks' \in [Loops -> Seq(Tasks)]
            /\ (\A u \in Loops : pc'[u][1] = "add" => local'[u] # NULL)
            /\ (pc'[Owner][1] = "flush" => pc'[Owner][2] = flush_count_' + 1)
            => StepsMatch'
    BY <1>1, <1>2, <2>1, Goes DEF enableVars
  \* What the three cases have to show.
  <2>7. SUFFICES
          /\ MainTyped' /\ IsInjective(logged_events_')
          /\ local' \in [Loops -> Seq(Events) \cup {NULL}]
          /\ \A u \in Loops :
               /\ local'[u] # NULL <=> local[u] # NULL
               /\ local'[u] # NULL => IsInjective(local'[u]) /\ Len(local'[u]) < LocalSize
          /\ \A d \in Events, u \in Loops : IsIn(d, u)' => IsIn(d, u) \/ (d = e /\ u = t)
          /\ \A d \in Events : Contains(logged_events_', d) =>
               \/ Contains(logged_events_, d)
               \/ t \in Loops /\ IsIn(d, t) /\ ~IsIn(d, t)'
               \/ d = e /\ \A u \in Loops : ~IsIn(d, u)'
          /\ trace_options_ = "until-full" => \A d \in Events :
               /\ Contains(logged_events_, d) => Contains(logged_events_', d)
               /\ \A u \in Loops : IsIn(d, u) => IsIn(d, u)' \/ Contains(logged_events_', d)
    <3>1. LocalsMatch'  BY <2>7, <2>6, <1>1, <1>2 DEF LocalsMatch, IInv, TypeOK
    <3>2. FlushTyped' /\ CallsBackOnce'  BY <1>1, Frames DEF flushVars
    <3>3. StepsMatch'
      <4>1. tasks' \in [Loops -> Seq(Tasks)]  BY <1>1 DEF IInv, StepsMatch
      <4>2. \A u \in Loops : pc'[u][1] = "add" => local'[u] # NULL
        BY <2>7, <2>6, <1>2 DEF IInv, StepsMatch
      <4>3. pc'[Owner][1] = "flush" => pc'[Owner][2] = flush_count_' + 1
        BY <1>1, <2>6, <1>2 DEF IInv, StepsMatch, flushVars
      <4> QED  BY <2>6, <4>1, <4>2, <4>3
    <3>4. InOnePlace'
      <4>1. delivered' = delivered  BY <1>1 DEF flushVars
      <4>2. \A d \in Events, u \in Loops : IsIn(d, u)' =>
              ~Contains(logged_events_', d) /\ \A w \in Loops : IsIn(d, w)' => u = w
        BY <2>7, <2>2 DEF IInv, InOnePlace
      <4>3. \A d \in Events : delivered'[d] = 1 \/ d > recorded' =>
              d # e /\ (delivered[d] = 1 \/ d > recorded)
        <5> HIDE DEF e
        <5>1. e = recorded + 1 /\ recorded \in Nat  BY DEF e, IInv, TypeOK, EnablingTyped
        <5> QED  BY <2>1, <2>2, <4>1, <5>1 DEF Events
      <4>4. \A d \in Events : delivered'[d] = 1 \/ d > recorded' =>
              ~Contains(logged_events_', d) /\ \A u \in Loops : ~IsIn(d, u)'
        BY <2>7, <4>3 DEF IInv, InOnePlace
      <4>5. \A d \in Events : d > recorded' => delivered'[d] = 0
        BY <2>1, <4>1 DEF IInv, InOnePlace, TypeOK, EnablingTyped
      <4> QED  BY <2>7, <4>1, <4>2, <4>4, <4>5 DEF IInv, InOnePlace
    <3>5. DueIsHeld'
      <4>1. Finishing' => Finishing  BY <1>1, <2>6, <1>2 DEF Finishing, flushVars
      <4>2. UNCHANGED <<due, flush_message_loop_proxy_, flush_count_, tasks, trace_options_>>
        BY <1>1 DEF flushVars, enableVars
      <4> QED  BY <2>7, <4>1, <4>2 DEF IInv, DueIsHeld
    <3> QED  BY <2>6, <2>7, <3>1, <3>2, <3>3, <3>4, <3>5 DEF IInv, TypeOK
  <2>8. UNCHANGED trace_options_  BY <1>1 DEF enableVars
  <2>9. CASE t \notin Loops /\ AddToMainBuffer(<<e>>) /\ UNCHANGED local
    <3> DEFINE q == <<e>>
    <3>1. q \in Seq(Events) /\ IsInjective(q) /\ \A d : Contains(q, d) <=> d = e
      BY <2>1 DEF IsInjective, Contains
    <3>2. \A d : IsIn(d, t)' <=> IsIn(d, t)  BY <2>9 DEF IsIn
    <3>3. \A d, u : IsIn(d, u)' <=> IsIn(d, u)  BY <2>9 DEF IsIn
    <3>4. AddToMainBuffer(q) /\ TypeOK  BY <2>9 DEF IInv
    <3> HIDE DEF q
    <3>5. /\ logged_events_' \in Seq(Events) /\ IsInjective(logged_events_')
          /\ buffer_is_full_' \in BOOLEAN /\ (buffer_is_full_' => IsFull(logged_events_)')
          /\ \A d : Contains(logged_events_', d) => Contains(logged_events_, d) \/ Contains(q, d)
          /\ trace_options_ = "until-full" =>
              \A d : Contains(logged_events_, d) \/ Contains(q, d) => Contains(logged_events_', d)
      BY <2>2, <2>4, <2>8, <3>1, <3>4, AddsToMain
    <3>6. MainTyped'  BY <3>5 DEF MainTyped
    <3>7. \A u \in Loops : Len(local[u]) < LocalSize \/ local[u] = NULL
      BY DEF IInv, TypeOK, LocalsMatch
    <3> HIDE DEF e
    <3> QED  BY <2>2, <2>4, <2>9, <3>1, <3>3, <3>5, <3>6, <3>7
  <2>10. CASE t \in Loops /\ Len(local[t]) + 1 < LocalSize
            /\ local' = [local EXCEPT ![t] = Append(@, e)] /\ UNCHANGED mainVars
    <3> DEFINE q == Append(local[t], e)
    <3>1. local[t] \in Seq(Events) /\ local[t] # NULL  BY <1>3, <2>4, <2>10
    <3>2. ~Contains(local[t], e)  BY <2>2, <2>10, <3>1 DEF IsIn
    <3>3. /\ q \in Seq(Events) /\ IsInjective(q)
          /\ \A d : Contains(q, d) <=> Contains(local[t], d) \/ d = e
          /\ Len(q) = Len(local[t]) + 1
      BY <3>1, <3>2, <2>1, <2>4, <2>10, AppendContains, AppendProperties
    <3>4. q # NULL  BY <3>3, TraceLogAssumption
    <3>5. \A u \in Loops : local'[u] = IF u = t THEN q ELSE local[u]  BY <2>4, <2>10
    <3>6. local' \in [Loops -> Seq(Events) \cup {NULL}]  BY <2>4, <2>10, <3>3
    <3> HIDE DEF q, e
    <3>7. \A d \in Events, u \in Loops : IsIn(d, u)' <=> IsIn(d, u) \/ (d = e /\ u = t)
      BY <3>1, <3>3, <3>4, <3>5 DEF IsIn
    <3>8. MainTyped' /\ logged_events_' = logged_events_  BY <2>8, <2>10, Frames DEF mainVars
    <3>9. \A u \in Loops : Len(local[u]) < LocalSize \/ local[u] = NULL
      BY DEF IInv, TypeOK, LocalsMatch
    <3> QED  BY <2>4, <2>10, <3>1, <3>3, <3>4, <3>5, <3>6, <3>7, <3>8, <3>9
  <2>11. CASE t \in Loops /\ AddToMainBuffer(Append(local[t], e))
            /\ local' = [local EXCEPT ![t] = <<>>]
    <3> DEFINE q == Append(local[t], e)
    <3>1. local[t] \in Seq(Events) /\ local[t] # NULL  BY <1>3, <2>4, <2>11
    <3>2. ~Contains(local[t], e)  BY <2>2, <2>11, <3>1 DEF IsIn
    <3>3. /\ q \in Seq(Events) /\ IsInjective(q)
          /\ \A d : Contains(q, d) <=> Contains(local[t], d) \/ d = e
      BY <3>1, <3>2, <2>1, <2>4, <2>11, AppendContains
    <3>4. \A d \in Events : Contains(q, d) => ~Contains(logged_events_, d)
      BY <3>1, <3>3, <2>2, <2>11 DEF IInv, InOnePlace, IsIn
    <3>5. \A u \in Loops : local'[u] = IF u = t THEN <<>> ELSE local[u]  BY <2>4, <2>11
    <3>6. <<>> \in Seq(Events) /\ <<>> # NULL /\ Len(<<>>) = 0 /\ LocalSize \in Nat \ {0}
      BY EmptySeq, TraceLogAssumption
    <3>7. local' \in [Loops -> Seq(Events) \cup {NULL}]  BY <2>4, <2>11, <3>6
    <3>8. AddToMainBuffer(q) /\ TypeOK  BY <2>11 DEF IInv
    <3> HIDE DEF q, e
    <3>9. \A d \in Events, u \in Loops : IsIn(d, u)' <=> IsIn(d, u) /\ u # t
      BY <3>5, EmptyContains DEF IsIn
    <3>10. /\ logged_events_' \in Seq(Events) /\ IsInjective(logged_events_')
           /\ buffer_is_full_' \in BOOLEAN /\ (buffer_is_full_' => IsFull(logged_events_)')
           /\ \A d : Contains(logged_events_', d) => Contains(logged_events_, d) \/ Contains(q, d)
           /\ trace_options_ = "until-full" =>
               \A d : Contains(logged_events_, d) \/ Contains(q, d) => Contains(logged_events_', d)
      BY <2>4, <2>8, <3>3, <3>4, <3>8, AddsToMain
    <3>11. MainTyped'  BY <3>10 DEF MainTyped
    <3>12. \A u \in Loops : Len(local[u]) < LocalSize \/ local[u] = NULL
      BY DEF IInv, TypeOK, LocalsMatch
    <3>13. \A d \in Events : Contains(q, d) => IsIn(d, t) \/ d = e  BY <3>1, <3>3 DEF IsIn
    <3>14. \A d \in Events : IsIn(d, t) => Contains(q, d)  BY <3>3 DEF IsIn
    <3>15. \A u \in Loops :
               /\ local'[u] # NULL <=> local[u] # NULL
               /\ local'[u] # NULL => IsInjective(local'[u]) /\ Len(local'[u]) < LocalSize
      BY <2>4, <3>1, <3>5, <3>6, <3>12, EmptyContains
    <3>16. \A d \in Events : Contains(logged_events_', d) =>
               \/ Contains(logged_events_, d)
               \/ t \in Loops /\ IsIn(d, t) /\ ~IsIn(d, t)'
               \/ d = e /\ \A u \in Loops : ~IsIn(d, u)'
      <4>1. SUFFICES ASSUME NEW d \in Events, Contains(logged_events_', d),
                            ~Contains(logged_events_, d)
                     PROVE  \/ t \in Loops /\ IsIn(d, t) /\ ~IsIn(d, t)'
                            \/ d = e /\ \A u \in Loops : ~IsIn(d, u)'
        OBVIOUS
      <4>2. IsIn(d, t) \/ d = e  BY <4>1, <3>10, <3>13
      <4>3. ~IsIn(d, t)' /\ \A u \in Loops : IsIn(d, u)' => IsIn(d, u)  BY <3>9, <2>11
      <4> QED  BY <4>2, <4>3, <2>2, <2>11
    <3>17. trace_options_ = "until-full" => \A d \in Events :
               /\ Contains(logged_events_, d) => Contains(logged_events_', d)
               /\ \A u \in Loops : IsIn(d, u) => IsIn(d, u)' \/ Contains(logged_events_', d)
      <4>1. SUFFICES ASSUME trace_options_ = "until-full", NEW d \in Events
                     PROVE  /\ Contains(logged_events_, d) => Contains(logged_events_', d)
                            /\ \A u \in Loops : IsIn(d, u) =>
                                  IsIn(d, u)' \/ Contains(logged_events_', d)
        OBVIOUS
      <4>2. Contains(logged_events_, d) \/ Contains(q, d) => Contains(logged_events_', d)
        BY <4>1, <3>10
      <4>3. \A u \in Loops : IsIn(d, u) => IsIn(d, u)' \/ u = t  BY <3>9
      <4> QED  BY <4>2, <4>3, <3>14
    <3> QED  BY <3>7, <3>9, <3>10, <3>11, <3>15, <3>16, <3>17
  <2> QED  BY <2>5, <2>9, <2>10, <2>11
<1> QED  BY <1>4, <1>5
-----------------------------------------------------------------------------
(* Deleting a buffer, when the thread's loop is destroyed or a flush asks  *)
(* for it: the events a flush has promised are then in the main buffer.    *)
LEMMA DeleteStep ==
  ASSUME IInv, NEW t \in Loops, DeleteLocalBuffer(t), NEW v \in Steps \X (0 .. MaxFlushes),
         pc' = [pc EXCEPT ![t] = v],
         pc[t][1] # "dispatch", v[1] \in {"last?", "closed"},
         \/ tasks' = tasks
         \/ t # Owner /\ tasks' = [tasks EXCEPT ![t] = <<>>],
         UNCHANGED <<enableVars, flushVars, recorded>>
  PROVE  IInv'
<1> USE Bounds
<1>1. UNCHANGED <<enable_count_, enabled, enables, trace_options_, dispatching_to_observer_list_,
                  flush_count_, flush_output_callback_, flush_message_loop_proxy_, timers,
                  delivered, ended, due, recorded>>
  BY DEF enableVars, flushVars
<1>2. /\ \A u \in Threads : pc'[u] = IF u = t THEN v ELSE pc[u]
      /\ EnablingTyped'
      /\ tasks' \in [Loops -> Seq(Tasks)]
         /\ (\A u \in Loops : pc'[u][1] = "add" => local'[u] # NULL)
         /\ (pc'[Owner][1] = "flush" => pc'[Owner][2] = flush_count_' + 1)
         => StepsMatch'
  <2>1. recorded' \in 0 .. MaxEvents  BY <1>1 DEF IInv, TypeOK, EnablingTyped
  <2> QED  BY <1>1, <2>1, Goes
<1>3. /\ logged_events_' \in Seq(Events)
      /\ buffer_is_full_' \in BOOLEAN /\ (buffer_is_full_' => IsFull(logged_events_)')
      /\ local' = [local EXCEPT ![t] = NULL]
      /\ thread_message_loops_' \in {thread_message_loops_, thread_message_loops_ \ {t}}
      /\ t \notin thread_message_loops_'
      /\ InOnePlace'
      /\ trace_options_ = "until-full" => \A e \in Events :
           Contains(logged_events_, e) \/ IsIn(e, t) => Contains(logged_events_', e)
  <2>1. TypeOK /\ InOnePlace /\ UNCHANGED <<trace_options_, recorded, delivered>>
    BY <1>1 DEF IInv
  <2> QED  BY <2>1, DeletesBuffer
<1>4. \A u \in Loops : local'[u] = IF u = t THEN NULL ELSE local[u]
  BY <1>3 DEF IInv, InOnePlace
<1>5. \A u \in Loops : /\ tasks'[u] = tasks[u] \/ (u # Owner /\ tasks'[u] = <<>>)
                      /\ tasks'[u] \in Seq(Tasks)
  BY EmptySeq DEF IInv, StepsMatch
<1>6. StepsMatch'
  <2>1. tasks' \in [Loops -> Seq(Tasks)]
    <3>1. <<>> \in Seq(Tasks) /\ tasks \in [Loops -> Seq(Tasks)]
      BY EmptySeq DEF IInv, StepsMatch
    <3>2. [tasks EXCEPT ![t] = <<>>] \in [Loops -> Seq(Tasks)]  BY <3>1
    <3> QED  BY <3>1, <3>2
  <2>2. \A u \in Loops : pc'[u][1] = "add" => local'[u] # NULL
    BY <1>2, <1>4 DEF IInv, StepsMatch
  <2>3. pc'[Owner][1] = "flush" => pc'[Owner][2] = flush_count_' + 1
    BY <1>1, <1>2 DEF IInv, StepsMatch
  <2> QED  BY <1>2, <2>1, <2>2, <2>3
<1>7. TypeOK'
  <2>1. MainTyped'  BY <1>3 DEF MainTyped
  <2>2. FlushTyped'  BY <1>1, Frames
  <2>3. LocalsMatch'  BY <1>2, <1>3, <1>4 DEF IInv, TypeOK, LocalsMatch
  <2> QED  BY <1>2, <2>1, <2>2, <2>3 DEF TypeOK
<1>8. CallsBackOnce'  BY <1>1, Frames
<1>9. DueIsHeld'
  <2>1. Finishing' => Finishing  BY <1>1, <1>2, <1>5 DEF Finishing
  <2>2. \A u \in Loops : \A i \in DOMAIN tasks'[u] : tasks'[u][i][2] <= flush_count_
    <3>1. SUFFICES ASSUME NEW u \in Loops, tasks'[u] = <<>>
                   PROVE  \A i \in DOMAIN tasks'[u] : tasks'[u][i][2] <= flush_count_
      BY <1>5 DEF IInv, DueIsHeld
    <3>2. DOMAIN tasks'[u] = {}  BY <3>1
    <3> QED  BY <3>2
  <2>3. ASSUME trace_options_ = "until-full", NEW e \in due
        PROVE  Contains(logged_events_', e) \/ (~Finishing' /\ \E u \in Loops : IsIn(e, u)')
    <3>1. e \in Events  BY <2>3 DEF IInv, DueIsHeld
    <3>2. CASE Contains(logged_events_, e) \/ IsIn(e, t)  BY <3>1, <3>2, <1>3, <2>3
    <3>3. CASE ~Contains(logged_events_, e) /\ ~IsIn(e, t)
      <4>1. PICK u \in Loops : ~Finishing /\ IsIn(e, u)  BY <2>3, <3>3 DEF IInv, DueIsHeld
      <4>2. IsIn(e, u)'  BY <4>1, <3>3, <1>4 DEF IsIn
      <4> QED  BY <4>1, <4>2, <2>1
    <3> QED  BY <3>2, <3>3
  <2> QED  BY <1>1, <2>2, <2>3 DEF IInv, DueIsHeld
<1> QED  BY <1>3, <1>6, <1>7, <1>8, <1>9 DEF IInv

LEMMA CloseLoopStep ==
  ASSUME IInv, NEW t \in Loops, CloseLoop(t)
  PROVE  IInv'
<1> DEFINE v == <<"closed", 0>>
<1>1. v \in Steps \X (0 .. MaxFlushes) /\ v[1] = "closed"  BY Bounds DEF Steps
<1>2. pc' = [pc EXCEPT ![t] = v] /\ pc[t][1] = "idle"  BY DEF CloseLoop, Idle
<1>3. /\ t # Owner /\ tasks' = [tasks EXCEPT ![t] = <<>>] /\ DeleteLocalBuffer(t)
      /\ UNCHANGED <<enableVars, flushVars, recorded>>
  BY DEF CloseLoop
<1> HIDE DEF v
<1> QED  BY <1>1, <1>2, <1>3, DeleteStep

LEMMA DeleteInFlushStep ==
  ASSUME IInv, NEW t \in Loops, DeleteInFlush(t)
  PROVE  IInv'
<1> DEFINE v == <<"last?", pc[t][2]>>
<1>1. v \in Steps \X (0 .. MaxFlushes) /\ v[1] = "last?"
  BY Bounds DEF Steps, IInv, StepsMatch
<1>2. pc' = [pc EXCEPT ![t] = v] /\ pc[t][1] = "delete"  BY DEF DeleteInFlush
<1>3. /\ tasks' = tasks /\ DeleteLocalBuffer(t)
      /\ UNCHANGED <<enableVars, flushVars, recorded>>
  BY DEF DeleteInFlush
<1> HIDE DEF v
<1> QED  BY <1>1, <1>2, <1>3, DeleteStep
-----------------------------------------------------------------------------
(* A flush begins: what is held is in the main buffer, or in that of a     *)
(* thread that is asked for it.                                            *)
LEMMA BeginFlushStep ==
  ASSUME IInv, NEW f \in Flushes, BeginFlush(f)
  PROVE  IInv'
<1> USE Bounds
<1> DEFINE v == IF thread_message_loops_ = {} THEN <<"finish", f>> ELSE Idle
<1>1. v \in Steps \X (0 .. MaxFlushes) /\ v[1] \in {"finish", "idle"}  BY DEF Steps, Idle
<1>2. /\ pc[Owner] = <<"flush", f>> /\ flush_count_' = f /\ flush_message_loop_proxy_' = TRUE
      /\ flush_output_callback_' = f /\ due' = Held /\ pc' = [pc EXCEPT ![Owner] = v]
      /\ timers' \in {timers, timers \cup {f}}
      /\ UNCHANGED <<enable_count_, enabled, enables, trace_options_, dispatching_to_observer_list_,
                     mainVars, delivered, ended, thread_message_loops_, local, recorded>>
  BY DEF BeginFlush, enableVars
<1>3. pc[Owner][1] = "flush" /\ f = flush_count_ + 1
  BY <1>2 DEF IInv, StepsMatch
<1>4. /\ \A u \in Threads : pc'[u] = IF u = Owner THEN v ELSE pc[u]
      /\ EnablingTyped'
      /\ tasks' \in [Loops -> Seq(Tasks)]
         /\ (\A u \in Loops : pc'[u][1] = "add" => local'[u] # NULL)
         /\ (pc'[Owner][1] = "flush" => pc'[Owner][2] = flush_count_' + 1)
         => StepsMatch'
  <2>1. recorded' \in 0 .. MaxEvents  BY <1>2 DEF IInv, TypeOK, EnablingTyped
  <2> HIDE DEF v
  <2> QED  BY <1>1, <1>2, <1>3, <2>1, Goes
<1>5. \A u \in Loops : /\ tasks[u] \in Seq(Tasks)
                       /\ \/ tasks'[u] = tasks[u]
                          \/ tasks'[u] = Append(tasks[u], <<"FlushCurrentThread", f>>)
  BY DEF BeginFlush, IInv, StepsMatch
<1>6. \A u \in Loops : /\ tasks'[u] \in Seq(Tasks)
                       /\ \A g : Contains(tasks'[u], <<"FinishFlush", g>>)
                                 => Contains(tasks[u], <<"FinishFlush", g>>)
                       /\ \A i \in DOMAIN tasks'[u] : tasks'[u][i][2] <= f
  <2>1. SUFFICES ASSUME NEW u \in Loops
                 PROVE  /\ tasks'[u] \in Seq(Tasks)
                        /\ \A g : Contains(tasks'[u], <<"FinishFlush", g>>)
                                 => Contains(tasks[u], <<"FinishFlush", g>>)
                        /\ \A i \in DOMAIN tasks'[u] : tasks'[u][i][2] <= f
    OBVIOUS
  <2> DEFINE x == <<"FlushCurrentThread", f>>
             q == Append(tasks[u], x)
  <2>2. x \in Tasks /\ x[2] = f /\ \A g : x # <<"FinishFlush", g>>  BY DEF Tasks
  <2>3. flush_count_ \in Nat /\ \A i \in DOMAIN tasks[u] : tasks[u][i][2] <= flush_count_
    BY DEF IInv, TypeOK, FlushTyped, DueIsHeld
  <2>4. \A i \in DOMAIN tasks[u] : tasks[u][i][2] \in Nat
    BY <1>5, LenProperties, ElementOfSeq DEF Tasks
  <2>5. \A i \in DOMAIN tasks[u] : tasks[u][i][2] <= f  BY <1>3, <2>3, <2>4
  <2> HIDE DEF x
  <2>6. /\ q \in Seq(Tasks) /\ DOMAIN q = 1 .. Len(tasks[u]) + 1
        /\ DOMAIN tasks[u] = 1 .. Len(tasks[u]) /\ Len(tasks[u]) \in Nat
        /\ \A i \in 1 .. Len(tasks[u]) : q[i] = tasks[u][i]
        /\ q[Len(tasks[u]) + 1] = x
    BY <1>5, <2>2, AppendProperties, LenProperties
  <2>7. \A g : Contains(q, <<"FinishFlush", g>>) => Contains(tasks[u], <<"FinishFlush", g>>)
    BY <1>5, <2>2, AppendContains
  <2> HIDE DEF q
  <2>8. \A i \in DOMAIN q : q[i][2] <= f  BY <2>2, <2>5, <2>6
  <2>9. tasks'[u] = tasks[u] \/ tasks'[u] = q  BY <1>5 DEF q, x
  <2>10. CASE tasks'[u] = tasks[u]  BY <2>10, <1>5, <2>5
  <2>11. CASE tasks'[u] = q  BY <2>11, <2>6, <2>7, <2>8
  <2> QED  BY <2>9, <2>10, <2>11
<1>7. TypeOK'
  <2>1. MainTyped'  BY <1>2, Frames DEF mainVars
  <2>2. FlushTyped'  BY <1>2 DEF IInv, TypeOK, FlushTyped
  <2>3. \A u \in Loops : pc'[u][1] = "closed" => pc[u][1] = "closed"  BY <1>1, <1>4
  <2>4. LocalsMatch'  BY <1>2, <2>3, Frames
  <2> QED  BY <1>4, <2>1, <2>2, <2>4 DEF TypeOK
<1>8. StepsMatch'
  <2>1. tasks' \in [Loops -> Seq(Tasks)]  BY <1>6 DEF BeginFlush, IInv, StepsMatch
  <2>2. \A u \in Loops : pc'[u][1] = "add" => local'[u] # NULL
    BY <1>1, <1>2, <1>4 DEF IInv, StepsMatch
  <2>3. pc'[Owner][1] # "flush"  BY <1>1, <1>4
  <2> QED  BY <1>4, <2>1, <2>2, <2>3
<1>9. InOnePlace'  BY <1>2, Frames DEF mainVars
<1>10. CallsBackOnce'  BY <1>2, <1>3 DEF IInv, CallsBackOnce, TypeOK, FlushTyped
<1>11. DueIsHeld'
  <2>1. \A e : e \in Held <=> Contains(logged_events_, e) \/ \E u \in Loops : IsIn(e, u)
    <3>1. \A e : e \in ToSet(logged_events_) <=> Contains(logged_events_, e)
      BY LenProperties DEF ToSet, Contains, IInv, TypeOK, MainTyped
    <3>2. \A u \in Loops : local[u] # NULL => \A e : e \in ToSet(local[u]) <=> Contains(local[u], e)
      BY LenProperties DEF ToSet, Contains, IInv, InOnePlace
    <3> QED  BY <3>1, <3>2 DEF Held, IsIn
  <2>2. Held \subseteq Events
    <3>1. \A e : Contains(logged_events_, e) => e \in Events
      BY ElementOfSeq DEF Contains, IInv, TypeOK, MainTyped
    <3>2. \A u \in Loops : local[u] # NULL => \A e : Contains(local[u], e) => e \in Events
      BY ElementOfSeq DEF Contains, IInv, InOnePlace
    <3> QED  BY <2>1, <3>1, <3>2 DEF IsIn
  <2>3. \A e, u : IsIn(e, u)' <=> IsIn(e, u)  BY <1>2 DEF IsIn
  <2>4. ~Contains(tasks'[Owner], <<"FinishFlush", f>>)
    <3>1. SUFFICES ASSUME Contains(tasks[Owner], <<"FinishFlush", f>>) PROVE FALSE  BY <1>6
    <3>2. PICK i \in DOMAIN tasks[Owner] : tasks[Owner][i] = <<"FinishFlush", f>>
      BY <3>1, <1>5, LenProperties DEF Contains
    <3>3. tasks[Owner][i][2] = f /\ f <= flush_count_  BY <3>2 DEF IInv, DueIsHeld
    <3> QED  BY <3>3, <1>3 DEF IInv, TypeOK, FlushTyped
  <2>5. Finishing' => \A u \in Loops : local[u] = NULL
    <3>1. Finishing' => thread_message_loops_ = {}
      BY <1>2, <1>4, <2>4 DEF Finishing, Idle
    <3> QED  BY <3>1 DEF IInv, TypeOK, LocalsMatch
  <2>6. \A e \in due' :
          Contains(logged_events_', e) \/ (~Finishing' /\ \E u \in Loops : IsIn(e, u)')
    BY <1>2, <2>1, <2>3, <2>5 DEF mainVars, IsIn
  <2>7. flush_message_loop_proxy_' /\ due' \subseteq Events  BY <1>2, <2>2
  <2>8. \A u \in Loops : \A i \in DOMAIN tasks'[u] : tasks'[u][i][2] <= flush_count_'
    <3>1. flush_count_' = f  BY <1>2
    <3>2. \A u \in Loops : \A i \in DOMAIN tasks'[u] : tasks'[u][i][2] <= f  BY <1>6
    <3> QED  BY ONLY <3>1, <3>2
  <2> QED  BY <2>6, <2>7, <2>8 DEF DueIsHeld
<1> QED  BY <1>7, <1>8, <1>9, <1>10, <1>11 DEF IInv

(* A flush finishes: whoever finishes first takes the callback with it.    *)
LEMMA FinishFlushStep ==
  ASSUME IInv, NEW f \in Flushes, FinishFlush(f)
  PROVE  IInv'
<1> USE Bounds
<1>1. /\ pc[Owner] = <<"finish", f>> /\ pc[Owner][1] = "finish" /\ pc' = [pc EXCEPT ![Owner] = Idle]
      /\ UNCHANGED <<enableVars, flush_count_, timers, thread_message_loops_, local, tasks, recorded>>
  BY DEF FinishFlush
<1>2. Idle \in Steps \X (0 .. MaxFlushes) /\ Idle[1] = "idle"  BY DEF Idle, Steps
<1>3. CASE f # flush_count_
  <2>1. UNCHANGED <<mainVars, flushVars>>  BY <1>1, <1>3 DEF FinishFlush, flushVars, mainVars
  <2> QED  BY <1>1, <1>2, <2>1, OnlyGoes
<1>4. CASE f = flush_count_
  <2> DEFINE cb == flush_output_callback_
  <2>1. /\ logged_events_' = <<>> /\ buffer_is_full_' = FALSE
        /\ flush_message_loop_proxy_' = FALSE /\ due' = {} /\ RunCallback(cb)
    BY <1>4 DEF FinishFlush
  <2>2. UNCHANGED <<enable_count_, enabled, enables, trace_options_, dispatching_to_observer_list_,
                    flush_count_, timers, thread_message_loops_, local, tasks, recorded>>
    BY <1>1 DEF enableVars
  <2>3. /\ \A u \in Threads : pc'[u] = IF u = Owner THEN Idle ELSE pc[u]
        /\ EnablingTyped'
        /\ tasks' \in [Loops -> Seq(Tasks)]
           /\ (\A u \in Loops : pc'[u][1] = "add" => local'[u] # NULL)
           /\ (pc'[Owner][1] = "flush" => pc'[Owner][2] = flush_count_' + 1)
           => StepsMatch'
    <3>1. recorded' \in 0 .. MaxEvents  BY <2>2 DEF IInv, TypeOK, EnablingTyped
    <3> QED  BY <1>1, <1>2, <2>2, <3>1, Goes
  <2>4. TypeOK'
    <3>1. MainTyped'  BY <2>1, EmptySeq DEF MainTyped
    <3>2. FlushTyped'
      <4>1. flush_output_callback_' = 0  BY <2>1 DEF RunCallback
      <4>2. flush_message_loop_proxy_' \in BOOLEAN  BY <2>1
      <4> QED  BY <2>2, <4>1, <4>2 DEF IInv, TypeOK, FlushTyped
    <3>3. \A u \in Loops : pc'[u][1] = "closed" => pc[u][1] = "closed"  BY <1>2, <2>3
    <3>4. LocalsMatch'  BY <2>2, <3>3, Frames
    <3> QED  BY <2>3, <3>1, <3>2, <3>4 DEF TypeOK
  <2>5. StepsMatch'
    <3>1. tasks' \in [Loops -> Seq(Tasks)]  BY <2>2 DEF IInv, StepsMatch
    <3>2. \A u \in Loops : pc'[u][1] = "add" => local'[u] # NULL
      BY <1>2, <2>2, <2>3 DEF IInv, StepsMatch
    <3>3. pc'[Owner][1] # "flush"  BY <1>2, <2>3
    <3> QED  BY <2>3, <3>1, <3>2, <3>3
  <2>6. InOnePlace'
    <3>1. \A e, u : IsIn(e, u)' <=> IsIn(e, u)  BY <2>2 DEF IsIn
    <3>2. ~\E e : Contains(logged_events_', e)  BY <2>1, EmptyContains
    <3>3. IsInjective(logged_events_')  BY <2>1, EmptyContains
    <3>4. /\ delivered' \in [Events -> 0 .. 1]
          /\ \A e \in Events : delivered'[e] # 0 => delivered[e] # 0 \/ Contains(logged_events_, e)
      BY <2>1 DEF RunCallback, IInv, InOnePlace
    <3>5. \A e \in Events, u \in Loops : IsIn(e, u) => ~Contains(logged_events_, e) /\ delivered[e] = 0
      BY DEF IInv, InOnePlace
    <3>6. \A e \in Events : e > recorded => delivered[e] = 0 /\ ~Contains(logged_events_, e)
                                              /\ \A u \in Loops : ~IsIn(e, u)
      BY DEF IInv, InOnePlace
    <3>7. \A e \in Events : delivered'[e] = 1 \/ e > recorded' =>
            ~Contains(logged_events_', e) /\ \A u \in Loops : ~IsIn(e, u)'
      BY <2>2, <3>1, <3>2, <3>4, <3>5, <3>6
    <3>8. \A e \in Events : e > recorded' => delivered'[e] = 0  BY <2>2, <3>4, <3>6
    <3>9. /\ local' \in [Loops -> Seq(Events) \cup {NULL}]
          /\ \A u \in Loops : local'[u] # NULL => IsInjective(local'[u])
      BY <2>2 DEF IInv, InOnePlace
    <3>10. \A e \in Events, u \in Loops : IsIn(e, u)' =>
            ~Contains(logged_events_', e) /\ \A w \in Loops : IsIn(e, w)' => u = w
      BY <3>1, <3>2 DEF IInv, InOnePlace
    <3> QED  BY <3>3, <3>4, <3>7, <3>8, <3>9, <3>10 DEF InOnePlace
  <2>7. CallsBackOnce'
    <3>1. cb \in {0, flush_count_} /\ ended \in [Flushes -> 0 .. 1]
          /\ \A g \in Flushes : g > flush_count_ \/ g = cb => ended[g] = 0
      BY DEF IInv, CallsBackOnce
    <3>2. /\ ended' = [g \in Flushes |-> ended[g] + IF g = cb THEN 1 ELSE 0]
          /\ flush_output_callback_' = 0
      BY <2>1 DEF RunCallback
    <3>3. flush_count_ \in Nat  BY DEF IInv, TypeOK, FlushTyped
    <3> QED  BY <2>2, <3>1, <3>2, <3>3 DEF CallsBackOnce
  <2>8. DueIsHeld'
    <3>1. due' = {} /\ UNCHANGED <<tasks, flush_count_>>  BY <2>1, <2>2
    <3> QED  BY <3>1 DEF IInv, DueIsHeld
  <2> QED  BY <2>4, <2>5, <2>6, <2>7, <2>8 DEF IInv
<1> QED  BY <1>3, <1>4

LEMMA OnFlushTimeoutStep ==
  ASSUME IInv, NEW f \in Flushes, OnFlushTimeout(f)
  PROVE  IInv'
<1> USE Bounds
<1> DEFINE v == IF Late(f) THEN Idle ELSE <<"finish", f>>
<1>1. v \in Steps \X (0 .. MaxFlushes) /\ v[1] \in {"finish", "idle"}  BY DEF Steps, Idle
<1>2. /\ pc[Owner][1] = "idle" /\ pc' = [pc EXCEPT ![Owner] = v] /\ timers' = timers \ {f}
      /\ UNCHANGED <<enable_count_, enabled, enables, trace_options_, dispatching_to_observer_list_,
                     mainVars, flush_count_, flush_message_loop_proxy_, flush_output_callback_,
                     delivered, ended, thread_message_loops_, local, tasks, recorded>>
  BY DEF OnFlushTimeout, Idle, enableVars
<1>3. (v = Idle /\ due' = due) \/ due' = {}  BY DEF OnFlushTimeout
<1>4. /\ \A u \in Threads : pc'[u] = IF u = Owner THEN v ELSE pc[u]
      /\ EnablingTyped'
      /\ tasks' \in [Loops -> Seq(Tasks)]
         /\ (\A u \in Loops : pc'[u][1] = "add" => local'[u] # NULL)
         /\ (pc'[Owner][1] = "flush" => pc'[Owner][2] = flush_count_' + 1)
         => StepsMatch'
  <2>1. recorded' \in 0 .. MaxEvents  BY <1>2 DEF IInv, TypeOK, EnablingTyped
  <2> HIDE DEF v
  <2> QED  BY <1>1, <1>2, <2>1, Goes
<1> HIDE DEF v
<1>5. TypeOK'
  <2>1. MainTyped'  BY <1>2, Frames DEF mainVars
  <2>2. FlushTyped'  BY <1>2 DEF IInv, TypeOK, FlushTyped
  <2>3. \A u \in Loops : pc'[u][1] = "closed" => pc[u][1] = "closed"  BY <1>1, <1>4
  <2>4. LocalsMatch'  BY <1>2, <2>3, Frames
  <2> QED  BY <1>4, <2>1, <2>2, <2>4 DEF TypeOK
<1>6. StepsMatch'
  <2>1. tasks' \in [Loops -> Seq(Tasks)]  BY <1>2 DEF IInv, StepsMatch
  <2>2. \A u \in Loops : pc'[u][1] = "add" => local'[u] # NULL
    BY <1>1, <1>2, <1>4 DEF IInv, StepsMatch
  <2>3. pc'[Owner][1] # "flush"  BY <1>1, <1>4
  <2> QED  BY <1>4, <2>1, <2>2, <2>3
<1>7. InOnePlace' /\ CallsBackOnce'  BY <1>2, Frames DEF mainVars
<1>8. DueIsHeld'
  <2>1. CASE v = Idle /\ due' = due
    <3>1. pc'[Owner][1] # "finish"  BY <2>1, <1>4 DEF Idle
    <3> QED  BY <2>1, <1>2, <3>1, Frames DEF mainVars
  <2>2. CASE due' = {}  BY <2>2, <1>2 DEF IInv, DueIsHeld
  <2> QED  BY <1>3, <2>1, <2>2
<1> QED  BY <1>5, <1>6, <1>7, <1>8 DEF IInv
-----------------------------------------------------------------------------
(* A loop starts its next task: a FinishFlush that is its owner's turn now *)
(* was one that waited.                                                    *)
LEMMA RunTaskStep ==
  ASSUME IInv, NEW t \in Loops, RunTask(t)
  PROVE  IInv'
<1> USE Bounds
<1> DEFINE x == tasks[t][1]
           f == x[2]
           v == IF x[1] = "FinishFlush" THEN <<"finish", f>>
                ELSE IF Late(f) THEN Idle ELSE <<"delete", f>>
<1>1. /\ tasks[t] \in Seq(Tasks) /\ tasks[t] # <<>> /\ pc[t][1] = "idle"
      /\ tasks' = [tasks EXCEPT ![t] = Tail(@)] /\ pc' = [pc EXCEPT ![t] = v]
      /\ UNCHANGED <<enableVars, mainVars, flushVars, thread_message_loops_, local, recorded>>
  BY DEF RunTask, Idle, IInv, StepsMatch
<1>2. UNCHANGED <<enable_count_, enabled, enables, trace_options_, dispatching_to_observer_list_,
                  logged_events_, buffer_is_full_, flush_count_, flush_output_callback_,
                  flush_message_loop_proxy_, timers, delivered, ended, due,
                  thread_message_loops_, local, recorded>>
  BY <1>1 DEF enableVars, mainVars, flushVars
<1>3. /\ x \in Tasks /\ Tail(tasks[t]) \in Seq(Tasks)
      /\ \A e : Contains(tasks[t], e) <=> e = x \/ Contains(Tail(tasks[t]), e)
  BY <1>1, TailContains
<1>4. v \in Steps \X (0 .. MaxFlushes) /\ v[1] \in {"finish", "idle", "delete"}
  BY <1>3 DEF Steps, Idle, Tasks
<1>5. v[1] = "finish" => v = <<"finish", f>> /\ x = <<"FinishFlush", f>>
  BY <1>3 DEF Idle, Tasks
<1> HIDE DEF v, f, x
<1>6. /\ \A u \in Threads : pc'[u] = IF u = t THEN v ELSE pc[u]
      /\ EnablingTyped'
      /\ tasks' \in [Loops -> Seq(Tasks)]
         /\ (\A u \in Loops : pc'[u][1] = "add" => local'[u] # NULL)
         /\ (pc'[Owner][1] = "flush" => pc'[Owner][2] = flush_count_' + 1)
         => StepsMatch'
  <2>1. recorded' \in 0 .. MaxEvents  BY <1>2 DEF IInv, TypeOK, EnablingTyped
  <2> QED  BY <1>1, <1>2, <1>4, <2>1, Goes
<1>7. \A u \in Loops : tasks'[u] = IF u = t THEN Tail(tasks[t]) ELSE tasks[u]
  BY <1>1 DEF IInv, StepsMatch
<1>8. TypeOK'
  <2>1. MainTyped' /\ FlushTyped'  BY <1>2, Frames
  <2>2. \A u \in Loops : pc'[u][1] = "closed" => pc[u][1] = "closed"  BY <1>4, <1>6
  <2>3. LocalsMatch'  BY <1>2, <2>2, Frames
  <2> QED  BY <1>6, <2>1, <2>3 DEF TypeOK
<1>9. StepsMatch'
  <2>1. tasks' \in [Loops -> Seq(Tasks)]  BY <1>1, <1>3 DEF IInv, StepsMatch
  <2>2. \A u \in Loops : pc'[u][1] = "add" => local'[u] # NULL
    BY <1>2, <1>4, <1>6 DEF IInv, StepsMatch
  <2>3. pc'[Owner][1] = "flush" => pc'[Owner][2] = flush_count_' + 1
    BY <1>2, <1>4, <1>6 DEF IInv, StepsMatch
  <2> QED  BY <1>6, <2>1, <2>2, <2>3
<1>10. InOnePlace' /\ CallsBackOnce'  BY <1>2, Frames
<1>11. DueIsHeld'
  <2>1. Finishing' => Finishing
    <3>1. ASSUME pc'[Owner] = <<"finish", flush_count_>> PROVE Finishing
      <4>1. CASE t # Owner  BY <4>1, <3>1, <1>6 DEF Finishing
      <4>2. CASE t = Owner
        <5>1. v = <<"finish", flush_count_>>  BY <4>2, <3>1, <1>6
        <5>2. x = <<"FinishFlush", flush_count_>>  BY <5>1, <1>5
        <5> QED  BY <4>2, <5>2, <1>3 DEF Finishing
      <4> QED  BY <4>1, <4>2
    <3>2. ASSUME Contains(tasks'[Owner], <<"FinishFlush", flush_count_>>) PROVE Finishing
      BY <3>2, <1>3, <1>7 DEF Finishing
    <3> QED  BY <3>1, <3>2, <1>2 DEF Finishing
  <2>2. \A u \in Loops : \A i \in DOMAIN tasks'[u] : tasks'[u][i][2] <= flush_count_
    <3>1. \A u \in Loops : \A i \in DOMAIN tasks[u] : tasks[u][i][2] <= flush_count_
      BY DEF IInv, DueIsHeld
    <3>2. \A i \in DOMAIN Tail(tasks[t]) : i + 1 \in DOMAIN tasks[t]
                                            /\ Tail(tasks[t])[i] = tasks[t][i + 1]
      BY <1>1, <1>3, HeadTailProperties, LenProperties, EmptySeq
    <3> QED  BY <3>1, <3>2, <1>7
  <2>3. \A e, u : IsIn(e, u)' <=> IsIn(e, u)  BY <1>2 DEF IsIn
  <2> QED  BY <1>2, <2>1, <2>2, <2>3 DEF IInv, DueIsHeld
<1> QED  BY <1>8, <1>9, <1>10, <1>11 DEF IInv

(* FinishFlush is posted when no thread has a buffer, and with it what the *)
(* flush promised.                                                         *)
LEMMA PostFinishStep ==
  ASSUME IInv, NEW t \in Loops, PostFinish(t)
  PROVE  IInv'
<1> USE Bounds
<1> DEFINE f == pc[t][2]
           x == <<"FinishFlush", f>>
<1>1. /\ pc[t][1] = "last?" /\ pc' = [pc EXCEPT ![t] = Idle]
      /\ UNCHANGED <<enableVars, mainVars, flushVars, thread_message_loops_, local, recorded>>
  BY DEF PostFinish
<1>2. Idle \in Steps \X (0 .. MaxFlushes) /\ Idle[1] = "idle"  BY DEF Idle, Steps
<1>3. CASE NotLast(f)
  <2>1. tasks' = tasks  BY <1>3 DEF PostFinish
  <2> QED  BY <1>1, <1>2, <2>1, OnlyGoes
<1>4. CASE ~NotLast(f)
  <2>1. /\ thread_message_loops_ = {} /\ f = flush_count_
        /\ tasks' = [tasks EXCEPT ![Owner] = Append(@, x)]
    BY <1>4 DEF NotLast, Late, PostFinish
  <2>2. UNCHANGED <<enable_count_, enabled, enables, trace_options_, dispatching_to_observer_list_,
                    logged_events_, buffer_is_full_, flush_count_, flush_output_callback_,
                    flush_message_loop_proxy_, timers, delivered, ended, due,
                    thread_message_loops_, local, recorded>>
    BY <1>1 DEF enableVars, mainVars, flushVars
  <2>3. /\ \A u \in Threads : pc'[u] = IF u = t THEN Idle ELSE pc[u]
        /\ EnablingTyped'
        /\ tasks' \in [Loops -> Seq(Tasks)]
           /\ (\A u \in Loops : pc'[u][1] = "add" => local'[u] # NULL)
           /\ (pc'[Owner][1] = "flush" => pc'[Owner][2] = flush_count_' + 1)
           => StepsMatch'
    <3>1. recorded' \in 0 .. MaxEvents  BY <2>2 DEF IInv, TypeOK, EnablingTyped
    <3> QED  BY <1>1, <1>2, <2>2, <3>1, Goes
  <2>4. tasks \in [Loops -> Seq(Tasks)] /\ x \in Tasks
    BY DEF IInv, StepsMatch, Tasks
  <2>5. TypeOK'
    <3>1. MainTyped' /\ FlushTyped'  BY <2>2, Frames
    <3>2. \A u \in Loops : pc'[u][1] = "closed" => pc[u][1] = "closed"  BY <1>2, <2>3
    <3>3. LocalsMatch'  BY <2>2, <3>2, Frames
    <3> QED  BY <2>3, <3>1, <3>3 DEF TypeOK
  <2>6. StepsMatch'
    <3>1. tasks' \in [Loops -> Seq(Tasks)]
      <4> HIDE DEF x
      <4>1. Append(tasks[Owner], x) \in Seq(Tasks)  BY <2>4, AppendProperties
      <4> QED  BY <2>1, <2>4, <4>1
    <3>2. \A u \in Loops : pc'[u][1] = "add" => local'[u] # NULL
      BY <1>2, <2>2, <2>3 DEF IInv, StepsMatch
    <3>3. pc'[Owner][1] = "flush" => pc'[Owner][2] = flush_count_' + 1
      BY <1>2, <2>2, <2>3 DEF IInv, StepsMatch
    <3> QED  BY <2>3, <3>1, <3>2, <3>3
  <2>7. InOnePlace' /\ CallsBackOnce'  BY <2>2, Frames
  <2>8. DueIsHeld'
    <3>1. \A u \in Loops : local[u] = NULL  BY <2>1 DEF IInv, TypeOK, LocalsMatch
    <3>2. trace_options_ = "until-full" => \A e \in due : Contains(logged_events_, e)
      BY <3>1 DEF IInv, DueIsHeld, IsIn
    <3>3. x[2] <= flush_count_  BY <2>1 DEF IInv, TypeOK, FlushTyped
    <3>4. \A u \in Loops : \A i \in DOMAIN tasks'[u] : tasks'[u][i][2] <= flush_count_
      <4>1. \A u \in Loops : \A i \in DOMAIN tasks[u] : tasks[u][i][2] <= flush_count_
        BY DEF IInv, DueIsHeld
      <4> DEFINE q == Append(tasks[Owner], x)
      <4> HIDE DEF x
      <4>2. /\ q \in Seq(Tasks) /\ DOMAIN q = 1 .. Len(tasks[Owner]) + 1
            /\ DOMAIN tasks[Owner] = 1 .. Len(tasks[Owner]) /\ Len(tasks[Owner]) \in Nat
            /\ \A i \in 1 .. Len(tasks[Owner]) : q[i] = tasks[Owner][i]
            /\ q[Len(tasks[Owner]) + 1] = x
        BY <2>4, AppendProperties, LenProperties
      <4> HIDE DEF q
      <4>3. \A i \in DOMAIN q : q[i][2] <= flush_count_  BY <3>3, <4>1, <4>2
      <4>4. \A u \in Loops : tasks'[u] = IF u = Owner THEN q ELSE tasks[u]
        BY <2>1, <2>4 DEF q
      <4> QED  BY <4>1, <4>3, <4>4
    <3> QED  BY <2>2, <3>2, <3>4 DEF IInv, DueIsHeld
  <2> QED  BY <2>5, <2>6, <2>7, <2>8 DEF IInv
<1> QED  BY <1>3, <1>4
-----------------------------------------------------------------------------
(* A step of the threads, or none at all.                                  *)
LEMMA NextKeeps == IInv /\ [Next]_vars => IInv'
<1> SUFFICES ASSUME IInv, [Next]_vars PROVE IInv'  OBVIOUS
<1>1. ASSUME NEW t \in Threads, NEW o \in OptionsUsed, SetEnabled(t, o) PROVE IInv'
  BY <1>1, SetEnabledStep
<1>2. ASSUME NEW t \in Threads,
             \/ SetDisabled(t) \/ Dispatched(t)
             \/ BeginEvent(t) \/ MakeLocalBuffer(t) \/ CheckFull(t) \/ AddEvent(t)
      PROVE  IInv'
  BY <1>2, SetDisabledStep, DispatchedStep, BeginEventStep, MakeLocalBufferStep, CheckFullStep,
     AddEventStep
<1>3. ASSUME NEW t \in Loops, CloseLoop(t) \/ RunTask(t) \/ DeleteInFlush(t) \/ PostFinish(t)
      PROVE  IInv'
  BY <1>3, CloseLoopStep, RunTaskStep, DeleteInFlushStep, PostFinishStep
<1>4. CASE Flush  BY <1>4, FlushStep
<1>5. ASSUME NEW f \in Flushes, BeginFlush(f) \/ FinishFlush(f) \/ OnFlushTimeout(f) PROVE IInv'
  BY <1>5, BeginFlushStep, FinishFlushStep, OnFlushTimeoutStep
<1>6. CASE UNCHANGED vars
  <2>1. UNCHANGED <<enable_count_, enabled, enables, trace_options_, dispatching_to_observer_list_,
                    logged_events_, buffer_is_full_, flush_count_, flush_output_callback_,
                    flush_message_loop_proxy_, timers, delivered, ended, due,
                    thread_message_loops_, local, tasks, pc, recorded>>
    BY <1>6 DEF vars, enableVars, mainVars, flushVars
  <2>2. TypeOK'
    BY <2>1 DEF IInv, TypeOK, EnablingTyped, MainTyped, FlushTyped, LocalsMatch, IsFull
  <2>3. StepsMatch'  BY <2>1 DEF IInv, StepsMatch
  <2>4. InOnePlace' /\ CallsBackOnce' /\ DueIsHeld'
    BY <2>1 DEF IInv, InOnePlace, CallsBackOnce, DueIsHeld, Finishing, IsIn
  <2> QED  BY <2>2, <2>3, <2>4 DEF IInv
<1> QED  BY <1>1, <1>2, <1>3, <1>4, <1>5, <1>6 DEF Next

(* What the sections under lock_, the tasks of the loops and their ends    *)
(* keep true of the buffers and of a flush.                                *)
THEOREM Invariance == Spec => []IInv
<1> QED  BY InitIsOK, NextKeeps, PTL DEF Spec

(* TraceLog's state is of its types, thread_message_loops_ names just the  *)
(* threads that have a buffer, none of them closed, and buffer_is_full_    *)
(* is up for a full vector only.                                           *)
THEOREM TypeCorrect == Spec => []TypeOK
<1>1. IInv => TypeOK  BY DEF IInv
<1> QED  BY <1>1, Invariance, PTL

(* A sequence without repetitions holds an event at one place at most.     *)
LEMMA PlacesOf ==
  ASSUME NEW s, IsInjective(s), NEW e
  PROVE  LET I == {i \in DOMAIN s : s[i] = e} IN I = {} \/ Cardinality(I) = 1
<1> DEFINE I == {i \in DOMAIN s : s[i] = e}
<1>1. CASE I # {}
  <2>1. PICK i \in DOMAIN s : i \in I  BY <1>1
  <2>2. I = {i}  BY <2>1 DEF IsInjective
  <2> QED  BY <2>2, FS_Singleton
<1> QED  BY <1>1

(* The events of IInv, counted.                                            *)
LEMMA CountedOnce == IInv => NothingTwice
<1> SUFFICES ASSUME IInv PROVE NothingTwice  OBVIOUS
<1>1. ASSUME NEW f \in Flushes PROVE ended[f] <= 1
  <2>1. ended[f] \in 0 .. 1  BY DEF IInv, CallsBackOnce
  <2> QED  BY <2>1
<1>2. ASSUME NEW e \in Events
      PROVE  Cardinality({i \in DOMAIN logged_events_ : logged_events_[i] = e})
             + Cardinality({t \in Loops : local[t] # NULL /\ Contains(local[t], e)})
             + delivered[e] <= 1
  <2> DEFINE I == {i \in DOMAIN logged_events_ : logged_events_[i] = e}
             L == {t \in Loops : local[t] # NULL /\ Contains(local[t], e)}
  <2>0. IsInjective(logged_events_)  BY DEF IInv, InOnePlace
  <2>1. I = {} \/ Cardinality(I) = 1  BY ONLY <2>0, PlacesOf
  <2>2. I # {} => Contains(logged_events_, e)
    BY LenProperties DEF Contains, IInv, TypeOK, MainTyped
  <2>3. \A t \in Loops : t \in L <=> IsIn(e, t)  BY DEF IsIn
  <2>4. /\ delivered[e] \in 0 .. 1
        /\ \A t \in L : ~Contains(logged_events_, e) /\ delivered[e] = 0 /\ \A u \in L : t = u
        /\ Contains(logged_events_, e) => delivered[e] = 0
    BY <2>3 DEF IInv, InOnePlace
  <2>5. L = {} \/ Cardinality(L) = 1
    <3>1. CASE L # {}
      <4>1. PICK t \in L : TRUE  BY <3>1
      <4>2. L = {t}  BY <4>1, <2>4
      <4> QED  BY <4>2, FS_Singleton
    <3> QED  BY <3>1
  <2>6. I = {} \/ L = {}  BY <2>2, <2>4
  <2>7. Cardinality({}) = 0  BY FS_EmptySet
  <2> HIDE DEF I, L
  <2>8. I # {} \/ L # {} => delivered[e] = 0  BY <2>2, <2>4
  <2>9. Cardinality(I) + Cardinality(L) + delivered[e] <= 1
    BY <2>1, <2>4, <2>5, <2>6, <2>7, <2>8
  <2> QED  BY <2>9 DEF I, L
<1> QED  BY <1>1, <1>2 DEF NothingTwice

(* Whichever of the last thread's answer, OnFlushTimeout and the end of a  *)
(* loop comes first: FinishFlush calls flush_output_callback_ once, and no *)
(* event is in two buffers, or in one after a callback had it.             *)
THEOREM FlushesOnce == Spec => []NothingTwice
<1> QED  BY Invariance, CountedOnce, PTL

(* A step of the threads hands out what the flush promised.                *)
LEMMA StepIsComplete ==
  ASSUME IInv, Next, NEW f \in Flushes, ended'[f] # ended[f], trace_options_ = "until-full",
         NEW e \in due
  PROVE  delivered'[e] > 0
<1>1. PICK g \in Flushes : FinishFlush(g)
  <2>1. ended' # ended  OBVIOUS
  <2> QED  BY <2>1 DEF Next, SetEnabled, SetDisabled, Dispatched, BeginEvent, MakeLocalBuffer,
              CheckFull, AddEvent, CloseLoop, RunTask, DeleteInFlush, PostFinish, Flush,
              BeginFlush, OnFlushTimeout, flushVars
<1>2. /\ pc[Owner] = <<"finish", flush_count_>>
      /\ RunCallback(flush_output_callback_)
  BY <1>1 DEF FinishFlush
<1>3. Contains(logged_events_, e) /\ e \in Events
  BY <1>2 DEF IInv, DueIsHeld, Finishing
<1>4. flush_output_callback_ # 0
  <2>1. ended[f] \in 0 .. 1  BY DEF IInv, CallsBackOnce
  <2>2. ended'[f] = ended[f] + IF f = flush_output_callback_ THEN 1 ELSE 0
    BY <1>2 DEF RunCallback
  <2> QED  BY <2>1, <2>2, Bounds
<1>5. delivered'[e] = delivered[e] + 1  BY <1>2, <1>3, <1>4 DEF RunCallback
<1>6. delivered[e] \in 0 .. 1  BY <1>3 DEF IInv, InOnePlace
<1> QED  BY <1>5, <1>6

(* A flush that did not time out hands to its callback every event that a  *)
(* vector buffer or a thread's buffer held when Flush took lock_.          *)
THEOREM FlushesAll == Spec => FlushIsComplete
<1>1. IInv /\ [Next]_vars =>
        [\A f \in Flushes : ended'[f] # ended[f] /\ trace_options_ = "until-full" =>
            \A e \in due : delivered'[e] > 0]_vars
  BY StepIsComplete
<1> QED  BY <1>1, Invariance, PTL DEF Spec, FlushIsComplete
================================================================================

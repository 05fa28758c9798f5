---------------------------- MODULE LazyInstance ----------------------------
(***************************************************************************)
(* LazyInstance (base/lazy_instance.h, .cc), Singleton (memory/singleton.h)*)
(* and the AtExitManager (base/at_exit.cc) they register with: threads     *)
(* race to create instances whose constructors and destructors use one     *)
(* another, and the main thread destroys them in LIFO order when it exits, *)
(* the other threads having stopped ("this should be called single         *)
(* threaded"), but for stray calls of what StaticMemorySingletonTraits     *)
(* make.  Other singletons take the steps of a LazyInstance.               *)
(***************************************************************************)
EXTENDS Naturals, Sequences

CONSTANTS
    Threads,
    Stray,       \* bound: the threads that still call at the exit
    Main,        \* the thread whose AtExitManager goes out of scope
    Instances,
    Uses,        \* the instances that the constructor, and the destructor,
                 \* of an instance use
    Leaky,       \* instances with leaky traits
    Static,      \* singletons with StaticMemorySingletonTraits
    Free         \* the AtExitManager's lock is not held

LazyInstanceAssumption ==
    /\ Main \notin Threads /\ Free \notin Threads \union {Main}
    /\ Uses \in [Instances -> SUBSET Instances]
    /\ Leaky \subseteq Instances /\ Static \subseteq Instances \ Leaky

VARIABLES
    private_instance_,  \* per instance, the atomic word
    dead_,              \* the static singletons that were made
    stack,              \* per thread, its nested activations, innermost last
    lock_, stack_,      \* the AtExitManager
    phase,              \* of the program
    built,              \* per instance, whether its object exists
    constructed,        \* history: constructor calls, counted up to 2
    unregistered        \* history: a constructor was given an instance that
                        \* its creator had not registered yet

vars == <<private_instance_, dead_, stack, lock_, stack_, phase, built, constructed, unregistered>>

States == {"0", "creating", "created"}
Frames == [inst : Instances,
           pc : {"load", "cas", "spin", "new", "publish", "register", "done", "delete"},
           todo : SUBSET Instances]

Pointer(i) == [inst |-> i, pc |-> "load", todo |-> {}]

Init ==
    /\ private_instance_ = [i \in Instances |-> "0"]
    /\ dead_ = {}
    /\ stack = [t \in Threads \union {Main} |-> <<>>]
    /\ lock_ = Free /\ stack_ = <<>>
    /\ phase = "running"
    /\ built = [i \in Instances |-> FALSE]
    /\ constructed = [i \in Instances |-> 0]
    /\ unregistered = FALSE
-----------------------------------------------------------------------------
Depth(t) == Len(stack[t])
Top(t) == stack[t][Depth(t)]
At(t, pc) == Depth(t) > 0 /\ Top(t).pc = pc
Pop(s) == SubSeq(s, 1, Len(s) - 1)
GoTo(t, pc) == stack' = [stack EXCEPT ![t][Depth(t)].pc = pc]
Registered == {stack_[n] : n \in DOMAIN stack_}
-----------------------------------------------------------------------------
(* Pointer, by a client, or a stray call of what outlives its exit, ...    *)
Call(t, i) ==
    /\ t \in Threads /\ stack[t] = <<>>
    /\ phase = "running" \/ (i \in dead_ /\ t \in Stray)
    /\ stack' = [stack EXCEPT ![t] = <<Pointer(i)>>]
    /\ UNCHANGED <<private_instance_, dead_, lock_, stack_, phase, built, constructed, unregistered>>

(* ... or by a constructor or a destructor. *)
Use(t) ==
    /\ At(t, "new") \/ At(t, "delete")
    /\ \E j \in Top(t).todo :
        stack' = [stack EXCEPT ![t] =
            Append([stack[t] EXCEPT ![Depth(t)].todo = Top(t).todo \ {j}], Pointer(j))]
    /\ UNCHANGED <<private_instance_, dead_, lock_, stack_, phase, built, constructed, unregistered>>

Load(t) ==
    /\ At(t, "load")
    /\ GoTo(t, IF private_instance_[Top(t).inst] = "created" THEN "done" ELSE "cas")
    /\ UNCHANGED <<private_instance_, dead_, lock_, stack_, phase, built, constructed, unregistered>>

(* NeedsLazyInstance's compare-and-swap: the winner constructs the object, *)
(* unless it is of static memory and dead.                                 *)
RevivesTheDead(i) == FALSE           \* does not look at dead_
Refuses(i) == i \in dead_

Construct(t, i) ==
    /\ private_instance_' = [private_instance_ EXCEPT ![i] = "creating"]
    /\ dead_' = dead_ \union ({i} \intersect Static)
    /\ IF Refuses(i) THEN GoTo(t, "publish") /\ UNCHANGED constructed
       ELSE /\ stack' = [stack EXCEPT ![t][Depth(t)] =
                    [inst |-> i, pc |-> "new", todo |-> Uses[i]]]
            /\ constructed' = [constructed EXCEPT ![i] = IF @ < 2 THEN @ + 1 ELSE @]

CasTwoWinners(t) ==
    LET i == Top(t).inst IN
    /\ At(t, "cas")
    /\ IF private_instance_[i] # "created" THEN Construct(t, i)
       ELSE GoTo(t, "spin") /\ UNCHANGED <<private_instance_, dead_, constructed>>
    /\ UNCHANGED <<lock_, stack_, phase, built, unregistered>>

Cas(t) ==
    LET i == Top(t).inst IN
    /\ At(t, "cas")
    /\ IF private_instance_[i] = "0" THEN Construct(t, i)
       ELSE GoTo(t, "spin") /\ UNCHANGED <<private_instance_, dead_, constructed>>
    /\ UNCHANGED <<lock_, stack_, phase, built, unregistered>>

(* The others yield until the instance is created. *)
SpinOnZero(t) ==
    /\ At(t, "spin")
    /\ private_instance_[Top(t).inst] # "0"
    /\ GoTo(t, "done")
    /\ UNCHANGED <<private_instance_, dead_, lock_, stack_, phase, built, constructed, unregistered>>

Spin(t) ==
    /\ At(t, "spin")
    /\ private_instance_[Top(t).inst] # "creating"
    /\ GoTo(t, "done")
    /\ UNCHANGED <<private_instance_, dead_, lock_, stack_, phase, built, constructed, unregistered>>

(* The constructor ends. *)
New(t) ==
    /\ At(t, "new") /\ Top(t).todo = {}
    /\ built' = [built EXCEPT ![Top(t).inst] = TRUE]
    /\ GoTo(t, "publish")
    /\ UNCHANGED <<private_instance_, dead_, lock_, stack_, phase, constructed, unregistered>>

(* CompleteLazyInstance: the release store (of NULL for the dead), ...     *)
PublishNothing(t) ==
    LET i == Top(t).inst IN
    /\ At(t, "publish")
    /\ GoTo(t, IF built[i] /\ i \notin Leaky THEN "register" ELSE "done")
    /\ UNCHANGED <<private_instance_, dead_, lock_, stack_, phase, built, constructed, unregistered>>

Publish(t) ==
    LET i == Top(t).inst IN
    /\ At(t, "publish")
    /\ private_instance_' = [private_instance_ EXCEPT ![i] = IF built[i] THEN "created" ELSE "0"]
    /\ GoTo(t, IF built[i] /\ i \notin Leaky THEN "register" ELSE "done")
    /\ UNCHANGED <<dead_, lock_, stack_, phase, built, constructed, unregistered>>

(* ... and AtExitManager::RegisterTask, under the manager's lock.          *)
RegisterAtBottom(t) ==
    /\ At(t, "register")
    /\ lock_ = Free
    /\ stack_' = <<Top(t).inst>> \o stack_
    /\ GoTo(t, "done")
    /\ UNCHANGED <<private_instance_, dead_, lock_, phase, built, constructed, unregistered>>

RegisterCallback(t) ==
    /\ At(t, "register")
    /\ lock_ = Free
    /\ stack_' = Append(stack_, Top(t).inst)
    /\ GoTo(t, "done")
    /\ UNCHANGED <<private_instance_, dead_, lock_, phase, built, constructed, unregistered>>

(* Pointer returns, and notes for the history if it is too early. *)
Done(t) ==
    LET i == Top(t).inst IN
    /\ At(t, "done")
    /\ stack' = [stack EXCEPT ![t] = Pop(@)]
    /\ unregistered' = (unregistered \/ (Depth(t) > 1 /\ i \notin Leaky \union Registered))
    /\ UNCHANGED <<private_instance_, dead_, lock_, stack_, phase, built, constructed>>
-----------------------------------------------------------------------------
(* ~AtExitManager: ProcessCallbacksNow holds the lock while it runs the    *)
(* tasks, the last registered first.                                       *)
ProcessCallbacksNow ==
    /\ phase = "running" /\ \A t \in Threads : stack[t] = <<>>
    /\ phase' = "exiting" /\ lock_' = Main
    /\ UNCHANGED <<private_instance_, dead_, stack, stack_, built, constructed, unregistered>>

RunTask ==
    /\ phase = "exiting" /\ stack[Main] = <<>> /\ stack_ # <<>>
    /\ LET i == stack_[Len(stack_)] IN
        stack' = [stack EXCEPT ![Main] = <<[inst |-> i, pc |-> "delete", todo |-> Uses[i]]>>]
    /\ UNCHANGED <<private_instance_, dead_, lock_, stack_, phase, built, constructed, unregistered>>

(* OnExit's Delete and store, and the end of the task. *)
OnExit ==
    /\ At(Main, "delete") /\ Top(Main).todo = {}
    /\ built' = [built EXCEPT ![Top(Main).inst] = FALSE]
    /\ private_instance_' = [private_instance_ EXCEPT ![Top(Main).inst] = "0"]
    /\ stack_' = Pop(stack_)
    /\ stack' = [stack EXCEPT ![Main] = <<>>]
    /\ UNCHANGED <<dead_, lock_, phase, constructed, unregistered>>

Exited ==
    /\ phase = "exiting" /\ stack[Main] = <<>> /\ stack_ = <<>>
    /\ phase' = "exited" /\ lock_' = Free
    /\ UNCHANGED <<private_instance_, dead_, stack, stack_, built, constructed, unregistered>>

Step(t) ==
    \/ Use(t) \/ Load(t) \/ Cas(t) \/ Spin(t) \/ New(t)
    \/ Publish(t) \/ RegisterCallback(t) \/ Done(t)

Exit == RunTask \/ OnExit \/ Exited

Next ==
    \/ \E t \in Threads : \E i \in Instances : Call(t, i)
    \/ \E t \in Threads \union {Main} : Step(t)
    \/ ProcessCallbacksNow \/ Exit

Spec == Init /\ [][Next]_vars

(* Threads that are at work go on; nobody has to call, or to exit.         *)
FairSpec ==
    /\ Spec
    /\ \A t \in Threads \union {Main} : WF_vars(Step(t))
    /\ WF_vars(Exit)
-----------------------------------------------------------------------------
(* Types; only instances with a destructor to run are registered.          *)
TypeOK ==
    /\ private_instance_ \in [Instances -> States] /\ dead_ \subseteq Static
    /\ stack \in [Threads \union {Main} -> Seq(Frames)]
    /\ lock_ \in {Main, Free}
    /\ stack_ \in Seq(Instances \ Leaky)
    /\ phase \in {"running", "exiting", "exited"}
    /\ built \in [Instances -> BOOLEAN] /\ constructed \in [Instances -> 0..2]
    /\ unregistered \in BOOLEAN

(* "Get() and Pointer() will always return the same, completely            *)
(* initialized instance" (lazy_instance.h), in destructors at exit too.  A *)
(* singleton in static memory may be gone, but not before the exit.        *)
PointerIsBuilt ==
    \A t \in Threads \union {Main} :
        At(t, "done") => \/ built[Top(t).inst]
                         \/ Top(t).inst \in dead_ /\ phase # "running"

(* "The Type constructor will only ever be called once, even if two        *)
(* threads are racing to create the object" (lazy_instance.h).             *)
ConstructedOnce == \A i \in Instances : constructed[i] <= 1

(* It is, provided no constructor was given an instance in the window      *)
(* between its publication and its registration; and what static memory    *)
(* holds "can't be revived after destruction", whoever calls it then.      *)
ConstructedOnceIfRegistered ==
    /\ unregistered \/ ConstructedOnce
    /\ \A i \in Static : constructed[i] <= 1

(* LIFO order: with the same proviso, a destructor finds what the          *)
(* constructor found: the instances it uses are not destroyed yet.         *)
DestroyedBeforeUsed ==
    (At(Main, "delete") /\ ~unregistered) =>
        \A j \in Uses[Top(Main).inst] : built[j]

(* Every call of Pointer returns, those of the losers of the race too.     *)
(* (A stray call may spin while others keep finding the singleton dead.)   *)
PointerReturns == \A t \in Threads : stack[t] # <<>> ~> (stack[t] = <<>> \/ phase # "running")

(* The exit ends, with the same proviso: no destructor creates an instance *)
(* and registers it with the manager whose lock its thread holds.          *)
ExitEnds == phase = "exiting" ~> (phase = "exited" \/ unregistered)

(* What makes them inductive.  Whoever calls a constructor of an instance, *)
(* publishes or registers it is alone in doing so, ...                     *)
Everyone == Threads \union {Main}
Created(i) == private_instance_[i] = "created"
Creates(f) == f.pc \in {"new", "publish", "register"}

OneCreator ==
    \A t, u \in Everyone : \A m \in DOMAIN stack[t], n \in DOMAIN stack[u] :
        (/\ Creates(stack[t][m]) /\ Creates(stack[u][n])
         /\ stack[t][m].inst = stack[u][n].inst) => t = u /\ m = n

(* ... the atomic word tells whether the object exists, ...                *)
WordsTell ==
    \A i \in Instances :
        /\ Created(i) => built[i]
        /\ private_instance_[i] = "0" => ~built[i]
        /\ (phase = "running" /\ private_instance_[i] = "0") => constructed[i] = 0 /\ i \notin dead_
        /\ i \in Static \ dead_ => constructed[i] = 0

(* ... what is registered exists and is registered once, after what it     *)
(* uses, ...                                                               *)
InOrder ==
    /\ \A m, n \in DOMAIN stack_ : stack_[m] = stack_[n] => m = n
    /\ \A i \in Registered : Created(i)
    /\ ~unregistered => \A n \in DOMAIN stack_ : \A j \in Uses[stack_[n]] :
        IF j \in Leaky THEN Created(j) ELSE \E m \in DOMAIN stack_ : m < n /\ stack_[m] = j

(* ... and an activation f, the n-th of thread t, that called Pointer of   *)
(* the instances in called knows that much.                                *)
Kept(j) == IF j \in Leaky THEN Created(j) ELSE j \in Registered
Called(s, n) == {s[m].inst : m \in DOMAIN s \intersect {n + 1}}

KnowsUses(f, called) ==
    /\ f.pc = "new" => \A j \in Uses[f.inst] \ (f.todo \union called) : Kept(j)
    /\ f.pc = "register" \/ (f.pc = "publish" /\ built[f.inst]) => \A j \in Uses[f.inst] : Kept(j)

Gone(i) == i \in dead_ /\ phase # "running"

KnowsWord(f) ==
    /\ f.pc = "spin" => private_instance_[f.inst] # "0" \/ Gone(f.inst)
    /\ f.pc \in {"new", "publish"} => private_instance_[f.inst] = "creating"
    /\ f.pc = "publish" => built[f.inst] \/ Gone(f.inst)
    /\ f.pc = "register" => Created(f.inst) /\ f.inst \notin Registered \union Leaky
    /\ f.pc = "done" => Created(f.inst) \/ Gone(f.inst)

KnowsPhase(t, n, f) ==
    /\ f.pc = "delete" =>
        /\ t = Main /\ n = 1 /\ f.todo \subseteq Uses[f.inst]
        /\ stack_ # <<>> /\ f.inst = stack_[Len(stack_)]
    /\ t = Main => phase = "exiting" /\ (n = 1 => f.pc = "delete")
    /\ (t = Main /\ n # 1 /\ ~unregistered) =>
        n = 2 /\ Created(f.inst) /\ f.pc \in {"load", "done"}
    /\ (t # Main /\ phase # "running") =>
        /\ n = 1 /\ f.inst \in dead_ /\ f.pc \notin {"new", "register"}
        /\ f.pc = "publish" => ~built[f.inst]

Knows(t, n, f, called) ==
    KnowsWord(f) /\ KnowsPhase(t, n, f) /\ (~unregistered => KnowsUses(f, called))

EveryoneKnows ==
    \A t \in Everyone : \A n \in DOMAIN stack[t] : Knows(t, n, stack[t][n], Called(stack[t], n))

IInv ==
    /\ TypeOK /\ (phase = "exiting" <=> lock_ = Main)
    /\ OneCreator /\ WordsTell /\ InOrder /\ EveryoneKnows /\ ConstructedOnceIfRegistered
=============================================================================

---------------------------- MODULE PathService ----------------------------
(***************************************************************************)
(* The path service (base/path_service.cc) with the providers of           *)
(* base/base_paths.cc: a map of cached paths and a map of overrides behind *)
(* one lock, and providers that are asked without the lock and that may    *)
(* call the service again for the path theirs is derived from              *)
(* (DIR_SOURCE_ROOT asks for DIR_EXE, which asks for FILE_EXE).            *)
(*                                                                         *)
(* A path is abstracted to what decides it: the key where the chain of     *)
(* nested calls ended and what was found there.  Each critical section of  *)
(* the code touches the maps only and is one action.                       *)
(***************************************************************************)
EXTENDS Naturals, Sequences, FiniteSets

CONSTANTS
    Threads,
    Keys,
    Parent,     \* the key a key's provider asks the service for; partial
    Lenient,    \* keys whose provider ignores the failure of that call
    BaseKeys,   \* keys the statically linked providers claim
    Paths,      \* values overrides may take
    Native,     \* what the operating system says of a key without a parent
    Dot,        \* FilePath().DirName()
    MaxCalls,   \* bound: calls of Get by the clients
    MaxChanges  \* bound: overrides set or removed, providers registered

(* A chain of providers comes to an end: each asks for a path that is      *)
(* nearer to what the system tells.                                        *)
ASSUME PathServiceAssumption ==
    /\ \E rank \in [Keys -> 0..Cardinality(Keys)] :
        \A k \in DOMAIN Parent : rank[Parent[k]] < rank[k]
    /\ DOMAIN Parent \subseteq Keys
    /\ \A k \in DOMAIN Parent : Parent[k] \in Keys
    /\ Lenient \subseteq DOMAIN Parent
    /\ BaseKeys \subseteq Keys /\ Keys # {}
    /\ MaxCalls \in Nat /\ MaxChanges \in Nat

VARIABLES
    cache,           \* PathData::cache
    overrides,       \* PathData::overrides
    claimed,         \* keys claimed by the linked list PathData::providers
    cache_disabled,  \* PathData::cache_disabled
    stack,           \* per thread, its nested activations of Get, innermost last
    answer,          \* per thread, how its last call of Get ended
    stale,           \* history: cached keys an overtaken call stored
    calls, changes   \* bounded counters

vars == <<cache, overrides, claimed, cache_disabled, stack, answer, stale, calls, changes>>
-----------------------------------------------------------------------------
Values == Keys \X (Paths \union {Native, Dot})

NoPaths == [k \in {} |-> Native]
Put(map, k, v) == [x \in DOMAIN map \union {k} |-> IF x = k THEN v ELSE map[x]]
Erase(map, k) == [x \in DOMAIN map \ {k} |-> map[x]]

(* The keys whose paths go into the path of a key. *)
Chain[k \in Keys] ==
    {k} \union (IF k \in DOMAIN Parent THEN Chain[Parent[k]] ELSE {})

(* What the path of a key may be under the overrides of this moment: the   *)
(* reference definition, which knows no cache.                             *)
Current[k \in Keys] ==
    IF k \in DOMAIN overrides THEN {<<k, overrides[k]>>}
    ELSE IF k \in DOMAIN Parent
    THEN Current[Parent[k]] \union {<<j, Dot>> : j \in Lenient \intersect {k}}
    ELSE {<<k, Native>>}

Phases == {"lookup", "provide", "nested", "store", "fail"}
Frames == [key : Keys, phase : Phases, value : Values, overtaken : BOOLEAN]
Answers == [key : Keys, ok : BOOLEAN, value : Values, overtaken : BOOLEAN]
NoAnswer == LET k == CHOOSE k \in Keys : TRUE
            IN [key |-> k, ok |-> FALSE, value |-> <<k, Native>>, overtaken |-> FALSE]

Frame(k) == [key |-> k, phase |-> "lookup", value |-> <<k, Native>>, overtaken |-> FALSE]

Init ==
    /\ cache = NoPaths /\ overrides = NoPaths
    /\ claimed = BaseKeys
    /\ cache_disabled = FALSE
    /\ stack = [t \in Threads |-> <<>>]
    /\ answer = [t \in Threads |-> NoAnswer]
    /\ stale = {}
    /\ calls = 0 /\ changes = 0
-----------------------------------------------------------------------------
Depth(t) == Len(stack[t])
Top(t) == stack[t][Depth(t)]
At(t, phase) == Depth(t) > 0 /\ Top(t).phase = phase

(* Thread t's innermost activation goes on as frame f. *)
GoOn(t, f) == stack' = [stack EXCEPT ![t][Depth(t)] = f]

(* The provider whose nested call of Get ended with ok and v: most give up *)
(* when it failed; a lenient one takes the parent of an empty path.        *)
Resumed(frame, ok, v, overtaken) ==
    [frame EXCEPT
        !.phase = IF ok \/ frame.key \in Lenient THEN "store" ELSE "fail",
        !.value = IF ok THEN v ELSE <<frame.key, Dot>>,
        !.overtaken = frame.overtaken \/ overtaken]

(* Thread t's innermost activation returns, to its provider or the client. *)
Return(t, ok, v, overtaken) ==
    IF Depth(t) = 1
    THEN /\ stack' = [stack EXCEPT ![t] = <<>>]
         /\ answer' = [answer EXCEPT ![t] =
                [key |-> Top(t).key, ok |-> ok, value |-> v, overtaken |-> overtaken]]
    ELSE /\ stack' = [stack EXCEPT ![t] =
                [i \in 1..(Depth(t) - 1) |->
                    IF i = Depth(t) - 1 THEN Resumed(stack[t][i], ok, v, overtaken)
                                        ELSE stack[t][i]]]
         /\ UNCHANGED answer
-----------------------------------------------------------------------------
(* Get: a client calls it for any key but DIR_CURRENT, which is not cached. *)
Get(t, k) ==
    /\ stack[t] = <<>> /\ calls < MaxCalls
    /\ stack' = [stack EXCEPT ![t] = <<Frame(k)>>]
    /\ calls' = calls + 1
    /\ UNCHANGED <<cache, overrides, claimed, cache_disabled, answer, stale, changes>>

(* The first critical section finds the key in the cache; ... *)
LockedGetFromCache(t) ==
    /\ At(t, "lookup")
    /\ ~cache_disabled /\ Top(t).key \in DOMAIN cache
    /\ Return(t, TRUE, cache[Top(t).key], Top(t).overtaken \/ Top(t).key \in stale)
    /\ UNCHANGED <<cache, overrides, claimed, cache_disabled, stale, calls, changes>>

(* ... or in the overrides, and caches it; ... *)
LockedGetFromOverrides(t) ==
    LET k == Top(t).key IN
    /\ At(t, "lookup")
    /\ cache_disabled \/ k \notin DOMAIN cache
    /\ k \in DOMAIN overrides
    /\ cache' = IF cache_disabled THEN cache ELSE Put(cache, k, <<k, overrides[k]>>)
    /\ Return(t, TRUE, <<k, overrides[k]>>, Top(t).overtaken)
    /\ UNCHANGED <<overrides, claimed, cache_disabled, stale, calls, changes>>

(* ... or takes the head of the providers' list, for the loop after it.    *)
TakeProvidersWhenDisabled(t) ==
    LET k == Top(t).key IN
    /\ At(t, "lookup")
    /\ cache_disabled \/ k \notin DOMAIN cache \union DOMAIN overrides
    /\ GoOn(t, [Top(t) EXCEPT !.phase = IF k \in claimed THEN "provide" ELSE "fail"])
    /\ UNCHANGED <<cache, overrides, claimed, cache_disabled, answer, stale, calls, changes>>

TakeProviders(t) ==
    LET k == Top(t).key IN
    /\ At(t, "lookup")
    /\ cache_disabled \/ k \notin DOMAIN cache
    /\ k \notin DOMAIN overrides
    /\ GoOn(t, [Top(t) EXCEPT !.phase = IF k \in claimed THEN "provide" ELSE "fail"])
    /\ UNCHANGED <<cache, overrides, claimed, cache_disabled, answer, stale, calls, changes>>

(* The provider of a key with no parent asks the operating system.  (Where *)
(* CR_SOURCE_ROOT names an existing path, DIR_SOURCE_ROOT is such a key,   *)
(* too: its provider answers before it asks for DIR_EXE.)                  *)
AskSystem(t) ==
    /\ At(t, "provide") /\ Top(t).key \notin DOMAIN Parent
    /\ GoOn(t, [Top(t) EXCEPT !.phase = "store", !.value = <<Top(t).key, Native>>])
    /\ UNCHANGED <<cache, overrides, claimed, cache_disabled, answer, stale, calls, changes>>

(* The others call the service again.                                      *)
AskParent(t) ==
    /\ At(t, "provide") /\ Top(t).key \in DOMAIN Parent
    /\ stack' = [stack EXCEPT ![t] =
            Append([@ EXCEPT ![Depth(t)].phase = "nested"], Frame(Parent[Top(t).key]))]
    /\ UNCHANGED <<cache, overrides, claimed, cache_disabled, answer, stale, calls, changes>>

(* The system's call failed, the path does not exist (DIR_TEST_DATA) or    *)
(* has no absolute form.                                                   *)
NoPathKept(t) ==
    /\ At(t, "provide") /\ Top(t).key \notin DOMAIN Parent
    /\ GoOn(t, [Top(t) EXCEPT !.phase = "store", !.value = <<>>])
    /\ UNCHANGED <<cache, overrides, claimed, cache_disabled, answer, stale, calls, changes>>

NoPath(t) ==
    /\ \/ At(t, "provide") /\ Top(t).key \notin DOMAIN Parent
       \/ At(t, "store")
    /\ GoOn(t, [Top(t) EXCEPT !.phase = "fail"])
    /\ UNCHANGED <<cache, overrides, claimed, cache_disabled, answer, stale, calls, changes>>

Fail(t) ==
    /\ At(t, "fail")
    /\ Return(t, FALSE, Top(t).value, Top(t).overtaken)
    /\ UNCHANGED <<cache, overrides, claimed, cache_disabled, stale, calls, changes>>

(* The second critical section: the path is cached and returned.           *)
StoreAnyway(t) ==
    LET k == Top(t).key IN
    /\ At(t, "store")
    /\ cache' = Put(cache, k, Top(t).value)
    /\ stale' = IF Top(t).overtaken THEN stale \union {k} ELSE stale \ {k}
    /\ Return(t, TRUE, Top(t).value, Top(t).overtaken)
    /\ UNCHANGED <<overrides, claimed, cache_disabled, calls, changes>>

Store(t) ==
    LET k == Top(t).key IN
    /\ At(t, "store")
    /\ IF cache_disabled
       THEN UNCHANGED <<cache, stale>>
       ELSE /\ cache' = Put(cache, k, Top(t).value)
            /\ stale' = IF Top(t).overtaken THEN stale \union {k} ELSE stale \ {k}
    /\ Return(t, TRUE, Top(t).value, Top(t).overtaken)
    /\ UNCHANGED <<overrides, claimed, cache_disabled, calls, changes>>
-----------------------------------------------------------------------------
(* History: a change of k's override overtakes the calls it matters to.    *)
Overtake(k) ==
    stack' = [t \in Threads |-> [i \in DOMAIN stack[t] |->
        [stack[t][i] EXCEPT !.overtaken = @ \/ k \in Chain[stack[t][i].key]]]]

(* OverrideAndCreateIfNeeded, once the directory exists and is absolute.   *)
OverrideErasesOne(t, k, p) ==
    /\ stack[t] = <<>> /\ changes < MaxChanges
    /\ cache' = Erase(cache, k) /\ stale' = stale \ {k}
    /\ overrides' = Put(overrides, k, p)
    /\ Overtake(k)
    /\ changes' = changes + 1
    /\ UNCHANGED <<claimed, cache_disabled, answer, calls>>

Override(t, k, p) ==
    /\ stack[t] = <<>> /\ changes < MaxChanges
    /\ cache' = NoPaths /\ stale' = {}
    /\ overrides' = Put(overrides, k, p)
    /\ Overtake(k)
    /\ changes' = changes + 1
    /\ UNCHANGED <<claimed, cache_disabled, answer, calls>>

RemoveOverride(t, k) ==
    /\ stack[t] = <<>> /\ changes < MaxChanges
    /\ k \in DOMAIN overrides
    /\ cache' = NoPaths /\ stale' = {}
    /\ overrides' = Erase(overrides, k)
    /\ Overtake(k)
    /\ changes' = changes + 1
    /\ UNCHANGED <<claimed, cache_disabled, answer, calls>>

(* The new provider's keys are no other's (the DCHECK of debug builds).    *)
RegisterProvider(t, ks) ==
    /\ stack[t] = <<>> /\ changes < MaxChanges
    /\ ks # {} /\ ks \intersect claimed = {}
    /\ claimed' = claimed \union ks
    /\ changes' = changes + 1
    /\ UNCHANGED <<cache, overrides, cache_disabled, stack, answer, stale, calls>>

DisableCache(t) ==
    /\ stack[t] = <<>> /\ ~cache_disabled
    /\ cache' = NoPaths /\ stale' = {}
    /\ cache_disabled' = TRUE
    /\ UNCHANGED <<overrides, claimed, stack, answer, calls, changes>>

Next ==
    \E t \in Threads :
        \/ \E k \in Keys : Get(t, k) \/ RemoveOverride(t, k)
        \/ \E k \in Keys, p \in Paths : Override(t, k, p)
        \/ \E ks \in SUBSET Keys : RegisterProvider(t, ks)
        \/ DisableCache(t)
        \/ LockedGetFromCache(t) \/ LockedGetFromOverrides(t) \/ TakeProviders(t)
        \/ AskSystem(t) \/ AskParent(t) \/ NoPath(t) \/ Fail(t) \/ Store(t)

Spec == Init /\ [][Next]_vars
-----------------------------------------------------------------------------
(* Types of the maps, of the nested activations of Get and of its answers. *)
TypeOK ==
    /\ DOMAIN cache \subseteq Keys /\ \A k \in DOMAIN cache : cache[k] \in Values
    /\ DOMAIN overrides \subseteq Keys /\ \A k \in DOMAIN overrides : overrides[k] \in Paths
    /\ claimed \subseteq Keys /\ cache_disabled \in BOOLEAN
    /\ \A t \in Threads : stack[t] \in Seq(Frames) /\ answer[t] \in Answers
    /\ stale \subseteq DOMAIN cache
    /\ calls \in 0..MaxCalls /\ changes \in 0..MaxChanges

(* "Clear the cache now. Some of its entries could have depended on the    *)
(* value we are overriding" (path_service.cc): the cache agrees with the   *)
(* overrides, derived paths included, except in entries that a call stored *)
(* which a change of an override had overtaken.  A disabled cache stays    *)
(* empty, whatever calls were under way when DisableCache ran.             *)
CacheIsCurrent ==
    /\ cache_disabled => cache = NoPaths
    /\ \A k \in DOMAIN cache \ stale : cache[k] \in Current[k]

(* What makes it inductive: nested calls follow the chain of the providers,*)
(* and a call that no change overtook, when it has taken the providers,    *)
(* finds no override and brings the path of this moment.                   *)
CallsNest ==
    /\ DOMAIN stack = Threads /\ DOMAIN answer = Threads
    /\ \A t \in Threads : \A i \in DOMAIN stack[t] :
        LET f == stack[t][i] IN
        /\ f.phase = "nested" <=> i < Depth(t)
        /\ f.phase = "nested" =>
            f.key \in DOMAIN Parent /\ stack[t][i + 1].key = Parent[f.key]

FrameIsCurrent(f) ==
    /\ f.phase \in {"provide", "nested", "store"} => f.key \notin DOMAIN overrides
    /\ f.phase = "store" => f.value \in Current[f.key]

CallsAreCurrent ==
    \A t \in Threads : \A i \in DOMAIN stack[t] :
        stack[t][i].overtaken \/ FrameIsCurrent(stack[t][i])

IInv == TypeOK /\ CallsNest /\ CallsAreCurrent /\ CacheIsCurrent

Answered(t) == stack[t] # <<>> /\ stack'[t] = <<>>

(* Get, when no override it depends on changed during the call or during   *)
(* the call whose result it finds cached, returns the path the overrides   *)
(* decide at the moment it returns.                                        *)
AnswerIsCurrent ==
    [][\A t \in Threads :
        Answered(t) /\ answer'[t].ok /\ ~answer'[t].overtaken
            => answer'[t].value \in Current[answer'[t].key]]_vars

(* An override, once set, is what the service answers from then on: no     *)
(* cache entry hides it ("Overrides the path to a special directory or     *)
(* file", path_service.h).                                                 *)
OverrideIsServed ==
    \A k \in DOMAIN overrides \intersect DOMAIN cache : cache[k] = <<k, overrides[k]>>
=============================================================================

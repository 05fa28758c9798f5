---------------------------- MODULE Settings_proofs ----------------------------
(* Proofs about what MCSettings composes, for any threads, keys, paths and *)
(* chains of providers.                                                    *)
EXTENDS MCSettings, SequenceTheorems, FiniteSetTheorems, TLAPS

(* The least element of a set of naturals, for proofs by induction.        *)
LEMMA LeastElement ==
  ASSUME NEW S \in SUBSET Nat, S # {}
  PROVE  \E n \in S : \A m \in S : n <= m
<1> DEFINE U == {0 .. n : n \in S}
<1>1. IsWellFoundedOn(StrictSubsetOrdering(Nat), FiniteSubsetsOf(Nat))
  BY FS_StrictSubsetOrderingWellFounded
<1>2. U \subseteq FiniteSubsetsOf(Nat) /\ U # {}
  <2>1. ASSUME NEW n \in S PROVE 0 .. n \in SUBSET Nat /\ IsFiniteSet(0 .. n)
    BY FS_Interval
  <2> QED  BY <2>1 DEF FiniteSubsetsOf
<1>3. PICK x \in U : \A y \in U : ~(<<y, x>> \in StrictSubsetOrdering(Nat))
  <2> HIDE DEF U
  <2> QED  BY <1>1, <1>2, WFMin
<1>4. PICK n \in S : x = 0 .. n  BY <1>3
<1>5. ASSUME NEW m \in S, m < n PROVE FALSE
  <2>1. 0 .. m \in U  BY <1>5
  <2>2. n \in 0 .. n /\ n \notin 0 .. m  BY <1>5
  <2>3. <<0 .. m, x>> \in StrictSubsetOrdering(Nat)
    BY <2>2, <1>4, <1>5 DEF StrictSubsetOrdering
  <2> QED  BY <2>1, <2>3, <1>3
<1> QED  BY <1>4, <1>5
-----------------------------------------------------------------------------
(* The recursive definitions of the path service have the values their     *)
(* equations say: each has a solution, the least one.                      *)
ChainOf(c, k) == {k} \union (IF k \in DOMAIN Parent THEN c[Parent[k]] ELSE {})

LEMMA ChainEquation == \A k \in Keys : Chain[k] = ChainOf(Chain, k)
<1> USE PathServiceAssumption
<1> DEFINE Closed(S) == \A j \in DOMAIN Parent : j \in S => Parent[j] \in S
           f == [k \in Keys |-> {j \in Keys : \A S \in SUBSET Keys : k \in S /\ Closed(S) => j \in S}]
<1>1. \A k \in Keys : k \in f[k] /\ Closed(f[k]) /\ f[k] \subseteq Keys  OBVIOUS
<1>2. \A k \in Keys : \A S \in SUBSET Keys : k \in S /\ Closed(S) => f[k] \subseteq S  OBVIOUS
<1> HIDE DEF f
<1>3. ASSUME NEW k \in Keys PROVE f[k] = ChainOf(f, k)
  <2>1. CASE k \in DOMAIN Parent
    <3>1. Parent[k] \in Keys /\ Parent[k] \in f[k]  BY <2>1, <1>1
    <3>2. f[Parent[k]] \subseteq f[k]  BY <3>1, <1>1, <1>2
    <3>3. PICK S \in SUBSET Keys : S = {k} \union f[Parent[k]]  BY <3>1, <1>1
    <3>4. k \in S /\ Closed(S)  BY <3>1, <3>3, <1>1
    <3>5. f[k] \subseteq S  BY <3>4, <1>2
    <3> QED  BY <2>1, <3>2, <3>3, <3>5, <1>1 DEF ChainOf
  <2>2. CASE k \notin DOMAIN Parent
    <3>1. f[k] \subseteq {k}  BY <2>2, <1>2
    <3> QED  BY <2>2, <3>1, <1>1 DEF ChainOf
  <2> QED  BY <2>1, <2>2
<1>4. f = [k \in Keys |-> ChainOf(f, k)]
  <2>1. f = [k \in Keys |-> f[k]]  BY DEF f
  <2> QED  BY <2>1, <1>3
<1>5. \E c : c = [k \in Keys |-> ChainOf(c, k)]  BY <1>4
<1>6. Chain = [k \in Keys |-> ChainOf(Chain, k)]  BY <1>5 DEF Chain, ChainOf
<1> QED  BY <1>6

(* What the path of k may be under the overrides o, if those of the others *)
(* are c.                                                                  *)
PathOf(o, c, k) ==
    IF k \in DOMAIN o THEN {<<k, o[k]>>}
    ELSE IF k \in DOMAIN Parent
    THEN c[Parent[k]] \union {<<j, Dot>> : j \in Lenient \intersect {k}}
    ELSE {<<k, Native>>}

LEMMA PathsExist ==
  ASSUME NEW o
  PROVE  \E c : c = [k \in Keys |-> PathOf(o, c, k)]
<1> USE PathServiceAssumption
<1> DEFINE U == Keys \X ({o[k] : k \in Keys} \union {Native, Dot})
           G == [Keys -> SUBSET U]
           Closed(g) == \A k \in Keys : PathOf(o, g, k) \subseteq g[k]
           f == [k \in Keys |-> {v \in U : \A g \in G : Closed(g) => v \in g[k]}]
<1>1. ASSUME NEW g \in G, NEW k \in Keys PROVE PathOf(o, g, k) \subseteq U
  BY DEF PathOf
<1>2. f \in G  OBVIOUS
<1>3. ASSUME NEW g \in G, NEW h \in G, \A k \in Keys : g[k] \subseteq h[k], NEW k \in Keys
      PROVE  PathOf(o, g, k) \subseteq PathOf(o, h, k)
  BY <1>3 DEF PathOf
<1>4. ASSUME NEW g \in G, Closed(g), NEW k \in Keys PROVE f[k] \subseteq g[k]
  BY <1>4
<1>5. ASSUME NEW k \in Keys PROVE PathOf(o, f, k) \subseteq f[k]
  <2>1. SUFFICES ASSUME NEW v \in PathOf(o, f, k), NEW g \in G, Closed(g) PROVE v \in g[k]
    BY <1>1, <1>2
  <2>2. PathOf(o, f, k) \subseteq PathOf(o, g, k)
    <3>1. \A j \in Keys : f[j] \subseteq g[j]  BY <1>4, <2>1
    <3> HIDE DEF f, G
    <3> QED  BY <1>2, <1>3, <3>1
  <2> QED  BY <2>1, <2>2
<1> DEFINE h == [k \in Keys |-> PathOf(o, f, k)]
<1>6. h \in G /\ \A k \in Keys : h[k] = PathOf(o, f, k)
  <2> HIDE DEF f
  <2> QED  BY <1>1, <1>2
<1>7. Closed(h)
  <2>1. ASSUME NEW k \in Keys PROVE PathOf(o, h, k) \subseteq h[k]
    <3>1. \A j \in Keys : h[j] \subseteq f[j]  BY <1>5, <1>6
    <3> HIDE DEF f, G, h
    <3> QED  BY <1>2, <1>3, <1>6, <3>1
  <2> QED  BY <2>1
<1>8. \A k \in Keys : f[k] = PathOf(o, f, k)
  <2>1. \A k \in Keys : f[k] \subseteq h[k]  BY <1>4, <1>6, <1>7
  <2> HIDE DEF f, h
  <2> QED  BY <2>1, <1>5, <1>6
<1>9. f = [k \in Keys |-> PathOf(o, f, k)]
  <2>1. f = [k \in Keys |-> f[k]]  OBVIOUS
  <2> HIDE DEF f
  <2> QED  BY <2>1, <1>8
<1> HIDE DEF f
<1> QED  BY <1>9

LEMMA CurrentEquation == Current = [k \in Keys |-> PathOf(overrides, Current, k)]
  BY PathsExist DEF Current, PathOf

LEMMA CurrentEquationPrime == Current' = [k \in Keys |-> PathOf(overrides', Current', k)]
  BY PathsExist DEF Current, PathOf

(* A change of the override of x changes no path that x does not go into.  *)
LEMMA OthersStay ==
  ASSUME NEW x, NEW o1, NEW o2,
         \A j \in Keys : j # x => (j \in DOMAIN o1 <=> j \in DOMAIN o2)
                              /\ (j \in DOMAIN o1 => o1[j] = o2[j]),
         NEW c1, c1 = [k \in Keys |-> PathOf(o1, c1, k)],
         NEW c2, c2 = [k \in Keys |-> PathOf(o2, c2, k)]
  PROVE  \A k \in Keys : x \notin Chain[k] => c1[k] = c2[k]
<1>1. PICK rank \in [Keys -> 0..Cardinality(Keys)] :
        \A k \in DOMAIN Parent : rank[Parent[k]] < rank[k]
  BY PathServiceAssumption
<1> DEFINE Bad == {k \in Keys : x \notin Chain[k] /\ c1[k] # c2[k]}
<1>2. SUFFICES ASSUME Bad # {} PROVE FALSE  OBVIOUS
<1>3. \A k \in Keys : rank[k] \in Nat  BY <1>1
<1>4. PICK k \in Bad : \A j \in Bad : rank[k] <= rank[j]
  <2> DEFINE S == {rank[j] : j \in Bad}
  <2>1. S \in SUBSET Nat /\ S # {}  BY <1>2, <1>3
  <2>2. PICK n \in S : \A m \in S : n <= m
    <3> HIDE DEF S
    <3> QED  BY <2>1, LeastElement
  <2> QED  BY <2>2
<1>5. k \in Keys /\ x \notin ChainOf(Chain, k) /\ c1[k] # c2[k]  BY <1>4, ChainEquation
<1>6. k # x /\ c1[k] = PathOf(o1, c1, k) /\ c2[k] = PathOf(o2, c2, k)  BY <1>5 DEF ChainOf
<1>7. k \in DOMAIN Parent  BY <1>5, <1>6 DEF PathOf
<1>8. Parent[k] \in Keys /\ rank[Parent[k]] < rank[k]  BY <1>7, <1>1, PathServiceAssumption
<1>9. Parent[k] \in Bad  BY <1>5, <1>6, <1>7, <1>8 DEF PathOf, ChainOf
<1> QED  BY <1>3, <1>4, <1>5, <1>8, <1>9
-----------------------------------------------------------------------------
(* The paths of this moment, one step of a chain at a time.                *)
LEMMA PathStep ==
  ASSUME NEW k \in Keys
  PROVE  /\ k \in DOMAIN overrides => Current[k] = {<<k, overrides[k]>>}
         /\ k \notin DOMAIN overrides /\ k \in DOMAIN Parent =>
              /\ Current[Parent[k]] \subseteq Current[k]
              /\ k \in Lenient => <<k, Dot>> \in Current[k]
         /\ k \notin DOMAIN overrides /\ k \notin DOMAIN Parent => Current[k] = {<<k, Native>>}
  BY CurrentEquation DEF PathOf

LEMMA CurrentStays == UNCHANGED overrides => Current' = Current
  BY DEF Current

(* What the calls of Get that are under way in one thread are like.        *)
Nests(s) ==
    \A i \in DOMAIN s :
        /\ s[i].phase = "nested" <=> i < Len(s)
        /\ s[i].phase = "nested" =>
            s[i].key \in DOMAIN Parent /\ s[i + 1].key = Parent[s[i].key]

AreCurrent(s) == \A i \in DOMAIN s : s[i].overtaken \/ FrameIsCurrent(s[i])

(* A thread's innermost call, or all its calls, change.                    *)
LEMMA OneStack ==
  ASSUME IInv, NEW t \in Threads, NEW s \in Seq(Frames), Nests(s), AreCurrent(s),
         stack' = [stack EXCEPT ![t] = s], UNCHANGED overrides, DOMAIN answer' = Threads
  PROVE  /\ CallsNest' /\ CallsAreCurrent'
         /\ \A u \in Threads : stack'[u] \in Seq(Frames)
<1>1. \A u \in Threads : stack'[u] = IF u = t THEN s ELSE stack[u]
  BY DEF IInv, CallsNest
<1>2. CallsNest'
  <2>1. DOMAIN stack' = Threads  BY DEF IInv, CallsNest
  <2>2. ASSUME NEW u \in Threads, NEW i \in DOMAIN stack'[u]
        PROVE  LET f == stack'[u][i] IN
               /\ f.phase = "nested" <=> i < Len(stack'[u])
               /\ f.phase = "nested" =>
                   f.key \in DOMAIN Parent /\ stack'[u][i + 1].key = Parent[f.key]
    BY <1>1, <2>2 DEF IInv, CallsNest, Nests, Depth
  <2> QED  BY <2>1, <2>2 DEF CallsNest, Depth
<1>3. CallsAreCurrent'
  <2>1. Current' = Current  BY CurrentStays
  <2>2. ASSUME NEW u \in Threads, NEW i \in DOMAIN stack'[u]
        PROVE  stack'[u][i].overtaken \/ FrameIsCurrent(stack'[u][i])
    BY <1>1, <2>2 DEF IInv, CallsAreCurrent, AreCurrent
  <2> QED  BY <2>1, <2>2 DEF CallsAreCurrent, FrameIsCurrent
<1>4. \A u \in Threads : stack'[u] \in Seq(Frames)  BY <1>1 DEF IInv, TypeOK
<1> QED  BY <1>2, <1>3, <1>4

LEMMA TopOf ==
  ASSUME IInv, NEW t \in Threads, Depth(t) > 0
  PROVE  /\ stack[t] \in Seq(Frames) /\ Depth(t) \in Nat \ {0} /\ Depth(t) = Len(stack[t])
         /\ DOMAIN stack[t] = 1 .. Depth(t) /\ Depth(t) \in DOMAIN stack[t]
         /\ Nests(stack[t]) /\ AreCurrent(stack[t])
         /\ Top(t) \in Frames /\ Top(t).phase # "nested"
         /\ Top(t).overtaken \/ FrameIsCurrent(Top(t))
<1>1. stack[t] \in Seq(Frames)  BY DEF IInv, TypeOK
<1>2. /\ Depth(t) \in Nat \ {0} /\ Depth(t) = Len(stack[t])
      /\ DOMAIN stack[t] = 1 .. Depth(t) /\ Depth(t) \in DOMAIN stack[t]
  BY <1>1, LenProperties DEF Depth
<1>3. Nests(stack[t]) /\ AreCurrent(stack[t])
  BY DEF IInv, CallsNest, CallsAreCurrent, Nests, AreCurrent, Depth
<1>4. Top(t) \in Frames  BY <1>1, <1>2, ElementOfSeq DEF Top
<1>5. Top(t).phase # "nested" /\ (Top(t).overtaken \/ FrameIsCurrent(Top(t)))
  BY <1>2, <1>3 DEF Top, Nests, AreCurrent
<1> QED  BY <1>1, <1>2, <1>3, <1>4, <1>5

(* The innermost call of a thread goes on.                                 *)
LEMMA GoesOn ==
  ASSUME IInv, NEW t \in Threads, Depth(t) > 0, NEW f \in Frames, GoOn(t, f),
         f.key = Top(t).key, f.phase # "nested", f.overtaken \/ FrameIsCurrent(f),
         UNCHANGED <<overrides, answer>>
  PROVE  /\ CallsNest' /\ CallsAreCurrent'
         /\ \A u \in Threads : stack'[u] \in Seq(Frames)
<1> DEFINE s == [stack[t] EXCEPT ![Depth(t)] = f]
<1>1. stack' = [stack EXCEPT ![t] = s]  BY DEF GoOn
<1>2. /\ s \in Seq(Frames) /\ Len(s) = Depth(t) /\ DOMAIN s = 1 .. Depth(t)
      /\ \A i \in 1 .. Depth(t) : s[i] = IF i = Depth(t) THEN f ELSE stack[t][i]
  BY TopOf, ExceptSeq, LenProperties
<1> HIDE DEF s
<1>3. Nests(s)
  <2>1. SUFFICES ASSUME NEW i \in 1 .. Depth(t)
                 PROVE  /\ s[i].phase = "nested" <=> i < Depth(t)
                        /\ s[i].phase = "nested" => s[i].key \in DOMAIN Parent
                                                    /\ s[i + 1].key = Parent[s[i].key]
    BY <1>2 DEF Nests
  <2>2. CASE i = Depth(t)  BY <1>2, <2>2
  <2>3. CASE i # Depth(t)
    <3>1. /\ s[i] = stack[t][i] /\ i < Depth(t) /\ i \in DOMAIN stack[t] /\ i + 1 \in 1 .. Depth(t)
          /\ Nests(stack[t]) /\ Len(stack[t]) = Depth(t)
      BY <1>2, <2>3, TopOf
    <3>2. s[i].phase = "nested" /\ s[i].key \in DOMAIN Parent
          /\ stack[t][i + 1].key = Parent[s[i].key]
      BY <3>1 DEF Nests
    <3>3. s[i + 1].key = stack[t][i + 1].key
      <4>1. CASE i + 1 = Depth(t)  BY <4>1, <3>1, <1>2 DEF Top
      <4>2. CASE i + 1 # Depth(t)  BY <4>2, <3>1, <1>2
      <4> QED  BY <4>1, <4>2
    <3> QED  BY <3>1, <3>2, <3>3
  <2> QED  BY <2>2, <2>3
<1>4. AreCurrent(s)  BY <1>2, TopOf DEF AreCurrent
<1>5. DOMAIN answer' = Threads  BY DEF IInv, CallsNest
<1> QED  BY <1>1, <1>2, <1>3, <1>4, <1>5, OneStack

(* The provider goes on.                                                   *)
LEMMA ResumedFrame ==
  ASSUME NEW g \in Frames, g.key \in DOMAIN Parent,
         NEW ok \in BOOLEAN, NEW v \in Values, NEW overtaken \in BOOLEAN
  PROVE  LET r == Resumed(g, ok, v, overtaken) IN
         /\ r \in Frames /\ r.key = g.key
         /\ r.phase = (IF ok \/ g.key \in Lenient THEN "store" ELSE "fail")
         /\ r.value = (IF ok THEN v ELSE <<g.key, Dot>>)
         /\ r.overtaken <=> g.overtaken \/ overtaken
<1> DEFINE r == Resumed(g, ok, v, overtaken)
           phase == IF ok \/ g.key \in Lenient THEN "store" ELSE "fail"
           value == IF ok THEN v ELSE <<g.key, Dot>>
           over == g.overtaken \/ overtaken
<1>1. phase \in Phases /\ value \in Values /\ over \in BOOLEAN
  BY DEF Phases, Values, Frames
<1>2. r = [g EXCEPT !.phase = phase, !.value = value, !.overtaken = over]  BY DEF Resumed
<1> HIDE DEF phase, value, over, r
<1>3. r \in Frames /\ r.key = g.key /\ r.phase = phase /\ r.value = value /\ r.overtaken = over
  BY <1>1, <1>2 DEF Frames
<1> QED  BY <1>3 DEF phase, value, over, r

(* The answers a step gives are the paths of this moment.                  *)
AnswersAreCurrent ==
    \A u \in Threads :
        Answered(u) /\ answer'[u].ok /\ ~answer'[u].overtaken
            => answer'[u].value \in Current[answer'[u].key]

(* The innermost call returns, to its provider or to the client: what it   *)
(* brings is the path of this moment unless a change overtook it.          *)
LEMMA Returns ==
  ASSUME IInv, NEW t \in Threads, Depth(t) > 0,
         NEW ok \in BOOLEAN, NEW v \in Values, NEW overtaken \in BOOLEAN,
         ok /\ ~overtaken => v \in Current[Top(t).key],
         Return(t, ok, v, overtaken), UNCHANGED overrides
  PROVE  /\ CallsNest' /\ CallsAreCurrent'
         /\ \A u \in Threads : stack'[u] \in Seq(Frames) /\ answer'[u] \in Answers
         /\ AnswersAreCurrent
<1>1. CASE Depth(t) = 1
  <2> DEFINE a == [key |-> Top(t).key, ok |-> ok, value |-> v, overtaken |-> overtaken]
  <2>1. stack' = [stack EXCEPT ![t] = <<>>] /\ answer' = [answer EXCEPT ![t] = a]
    BY <1>1 DEF Return
  <2>2. a \in Answers  BY TopOf DEF Answers, Frames
  <2>5. a.key = Top(t).key /\ a.ok = ok /\ a.value = v /\ a.overtaken = overtaken  OBVIOUS
  <2> HIDE DEF a
  <2>6. answer'[t] = a /\ \A u \in Threads : u # t => stack'[u] = stack[u]
    BY <2>1 DEF IInv, CallsNest
  <2>7. AnswersAreCurrent  BY <2>5, <2>6 DEF AnswersAreCurrent, Answered
  <2>3. DOMAIN answer' = Threads /\ \A u \in Threads : answer'[u] \in Answers
    BY <2>1, <2>2 DEF IInv, CallsNest, TypeOK
  <2>4. <<>> \in Seq(Frames) /\ Nests(<<>>) /\ AreCurrent(<<>>)
    BY EmptySeq DEF Nests, AreCurrent
  <2> QED  BY <2>1, <2>3, <2>4, <2>7, OneStack
<1>2. CASE Depth(t) # 1
  <2> DEFINE D == Depth(t) - 1
             g == stack[t][D]
             r == Resumed(g, ok, v, overtaken)
             s == [i \in 1 .. D |-> IF i = D THEN r ELSE stack[t][i]]
  <2>1. stack' = [stack EXCEPT ![t] = s] /\ answer' = answer  BY <1>2 DEF Return
  <2>2. /\ D \in Nat \ {0} /\ D \in DOMAIN stack[t] /\ g \in Frames
        /\ \A i \in 1 .. D : stack[t][i] \in Frames /\ i \in DOMAIN stack[t]
    BY <1>2, TopOf, ElementOfSeq
  <2>3. /\ g.phase = "nested" /\ g.key \in DOMAIN Parent /\ Top(t).key = Parent[g.key]
        /\ g.overtaken \/ FrameIsCurrent(g)
    BY <2>2, TopOf DEF Nests, AreCurrent, Top
  <2>4. /\ r \in Frames /\ r.key = g.key
        /\ r.phase = (IF ok \/ g.key \in Lenient THEN "store" ELSE "fail")
        /\ r.value = (IF ok THEN v ELSE <<g.key, Dot>>)
        /\ r.overtaken <=> g.overtaken \/ overtaken
    <3> HIDE DEF g
    <3> QED  BY <2>2, <2>3, ResumedFrame
  <2>5. r \in Frames /\ r.phase # "nested"  BY <2>4
  <2>6. r.overtaken \/ FrameIsCurrent(r)
    <3>1. SUFFICES ASSUME ~r.overtaken PROVE FrameIsCurrent(r)  OBVIOUS
    <3>2. ~g.overtaken /\ ~overtaken  BY <3>1, <2>4, <2>2 DEF Frames
    <3>3. g.key \in Keys /\ g.key \notin DOMAIN overrides  BY <3>2, <2>2, <2>3 DEF FrameIsCurrent, Frames
    <3>4. r.phase = "store" => r.value \in Current[g.key]
      BY <3>2, <3>3, <2>3, <2>4, PathStep
    <3> QED  BY <3>3, <3>4, <2>4 DEF FrameIsCurrent
  <2> HIDE DEF r
  <2>7. /\ s \in [1 .. D -> Frames] /\ s \in Seq(Frames) /\ Len(s) = D /\ DOMAIN s = 1 .. D
        /\ \A i \in 1 .. D : s[i] = IF i = D THEN r ELSE stack[t][i]
    BY <2>2, <2>5, SeqDef
  <2>8. r.key = g.key  BY <2>4
  <2> HIDE DEF s, D, g
  <2>9. Nests(s)
    <3>1. SUFFICES ASSUME NEW i \in 1 .. D
                   PROVE  /\ s[i].phase = "nested" <=> i < D
                          /\ s[i].phase = "nested" => s[i].key \in DOMAIN Parent
                                                      /\ s[i + 1].key = Parent[s[i].key]
      BY <2>7 DEF Nests
    <3>2. CASE i = D  BY <3>2, <2>5, <2>7
    <3>3. CASE i # D
      <4>1. /\ s[i] = stack[t][i] /\ i < D /\ i \in DOMAIN stack[t] /\ i < Len(stack[t])
            /\ i + 1 \in 1 .. D
        BY <3>3, <2>2, <2>7, TopOf DEF D
      <4>2. s[i].phase = "nested" /\ s[i].key \in DOMAIN Parent
            /\ stack[t][i + 1].key = Parent[s[i].key]
        BY <4>1, TopOf DEF Nests
      <4>3. s[i + 1].key = stack[t][i + 1].key  BY <4>1, <2>7, <2>8 DEF g
      <4> QED  BY <4>1, <4>2, <4>3
    <3> QED  BY <3>2, <3>3
  <2>10. AreCurrent(s)  BY <2>2, <2>6, <2>7, TopOf DEF AreCurrent
  <2>11. DOMAIN answer' = Threads /\ \A u \in Threads : answer'[u] \in Answers
    BY <2>1 DEF IInv, CallsNest, TypeOK
  <2>12. AnswersAreCurrent
    <3>1. \A u \in Threads : stack'[u] = IF u = t THEN s ELSE stack[u]
      BY <2>1 DEF IInv, CallsNest
    <3>2. s # <<>>  BY <2>2, <2>7 DEF D
    <3> QED  BY <3>1, <3>2 DEF AnswersAreCurrent, Answered
  <2> QED  BY <2>1, <2>7, <2>9, <2>10, <2>11, <2>12, OneStack
<1> QED  BY <1>1, <1>2

(* The cache takes a path.                                                 *)
LEMMA Caches ==
  ASSUME TypeOK, CacheIsCurrent, ~cache_disabled, NEW k \in Keys, NEW v \in Values,
         cache' = Put(cache, k, v), stale' \in {stale, stale \union {k}, stale \ {k}},
         k \notin stale' => v \in Current[k],
         UNCHANGED <<overrides, cache_disabled>>
  PROVE  /\ CacheIsCurrent' /\ stale' \subseteq DOMAIN cache'
         /\ DOMAIN cache' \subseteq Keys /\ \A j \in DOMAIN cache' : cache'[j] \in Values
<1>1. /\ DOMAIN cache' = DOMAIN cache \union {k}
      /\ \A j \in DOMAIN cache' : cache'[j] = IF j = k THEN v ELSE cache[j]
  BY DEF Put
<1>2. Current' = Current  BY CurrentStays
<1>3. \A j \in DOMAIN cache' \ stale' : cache'[j] \in Current'[j]
  BY <1>1, <1>2 DEF CacheIsCurrent
<1>4. CacheIsCurrent'  BY <1>3 DEF CacheIsCurrent
<1> QED  BY <1>1, <1>4 DEF TypeOK

LEMMA CacheStays ==
  ASSUME CacheIsCurrent, UNCHANGED <<cache, stale, overrides, cache_disabled>>
  PROVE  CacheIsCurrent'
  BY CurrentStays DEF CacheIsCurrent
-----------------------------------------------------------------------------
LEMMA FirstFrame ==
  ASSUME NEW k \in Keys
  PROVE  /\ Frame(k) \in Frames /\ Frame(k).key = k /\ Frame(k).phase = "lookup"
         /\ FrameIsCurrent(Frame(k))
  BY DEF Frame, Frames, Phases, Values, FrameIsCurrent

LEMMA PathsInit == Init => IInv
<1> SUFFICES ASSUME Init PROVE IInv  OBVIOUS
<1> USE PathServiceAssumption DEF Init
<1>1. DOMAIN NoPaths = {}  BY DEF NoPaths
<1>2. NoAnswer \in Answers  BY DEF NoAnswer, Answers, Values
<1>3. TypeOK
  <2>1. \A t \in Threads : stack[t] \in Seq(Frames) /\ answer[t] \in Answers  BY <1>2, EmptySeq
  <2>2. calls \in 0..MaxCalls /\ changes \in 0..MaxChanges  OBVIOUS
  <2>5. cache_disabled \in BOOLEAN  BY ONLY Init, Zenon DEF Init
  <2>3. claimed \subseteq Keys /\ stale \subseteq DOMAIN cache  OBVIOUS
  <2>4. /\ DOMAIN cache = {} /\ DOMAIN overrides = {}  BY <1>1
  <2> QED  BY <2>1, <2>2, <2>3, <2>4, <2>5 DEF TypeOK
<1>4. \A t \in Threads : stack[t] = <<>> /\ DOMAIN stack[t] = {}  OBVIOUS
<1>5. CallsNest /\ CallsAreCurrent  BY <1>4 DEF CallsNest, CallsAreCurrent
<1>6. CacheIsCurrent  BY <1>1 DEF CacheIsCurrent
<1> QED  BY <1>3, <1>5, <1>6 DEF IInv

(* A client calls Get.                                                     *)
LEMMA GetKeeps ==
  ASSUME IInv, NEW t \in Threads, NEW k \in Keys, Get(t, k)
  PROVE  IInv'
<1> DEFINE s == <<Frame(k)>>
<1>1. /\ s \in Seq(Frames) /\ Len(s) = 1 /\ DOMAIN s = {1} /\ s[1] = Frame(k)
  BY FirstFrame
<1>2. /\ stack' = [stack EXCEPT ![t] = s] /\ calls < MaxCalls /\ calls' = calls + 1
      /\ UNCHANGED <<cache, overrides, claimed, cache_disabled, answer, stale, changes>>
  BY DEF Get
<1> HIDE DEF s
<1>3. Nests(s) /\ AreCurrent(s)  BY <1>1, FirstFrame DEF Nests, AreCurrent
<1>4. /\ CallsNest' /\ CallsAreCurrent' /\ \A u \in Threads : stack'[u] \in Seq(Frames)
  <2>1. DOMAIN answer' = Threads  BY <1>2 DEF IInv, CallsNest
  <2> QED  BY <1>1, <1>2, <1>3, <2>1, OneStack
<1>5. CacheIsCurrent'  BY <1>2, CacheStays DEF IInv
<1>6. TypeOK'  BY <1>2, <1>4, PathServiceAssumption DEF IInv, TypeOK
<1> QED  BY <1>4, <1>5, <1>6 DEF IInv

(* The first critical section finds the path ...                           *)
LEMMA LockedGetFromCacheKeeps ==
  ASSUME IInv, NEW t \in Threads, LockedGetFromCache(t)
  PROVE  IInv' /\ AnswersAreCurrent
<1> DEFINE k == Top(t).key
           overtaken == Top(t).overtaken \/ k \in stale
<1>1. /\ Depth(t) > 0 /\ k \in DOMAIN cache /\ Return(t, TRUE, cache[k], overtaken)
      /\ UNCHANGED <<cache, overrides, claimed, cache_disabled, stale, calls, changes>>
  BY DEF LockedGetFromCache, At
<1>2. cache[k] \in Values /\ overtaken \in BOOLEAN
  BY <1>1, TopOf DEF IInv, TypeOK, Frames
<1>3. ~overtaken => cache[k] \in Current[k]  BY <1>1 DEF IInv, CacheIsCurrent
<1>4. /\ CallsNest' /\ CallsAreCurrent'
      /\ \A u \in Threads : stack'[u] \in Seq(Frames) /\ answer'[u] \in Answers
      /\ AnswersAreCurrent
  <2> HIDE DEF overtaken
  <2> QED  BY <1>1, <1>2, <1>3, Returns
<1>5. CacheIsCurrent'  BY <1>1, CacheStays DEF IInv
<1>6. TypeOK'  BY <1>1, <1>4 DEF IInv, TypeOK
<1> QED  BY <1>4, <1>5, <1>6 DEF IInv

LEMMA LockedGetFromOverridesKeeps ==
  ASSUME IInv, NEW t \in Threads, LockedGetFromOverrides(t)
  PROVE  IInv' /\ AnswersAreCurrent
<1> DEFINE k == Top(t).key
           v == <<k, overrides[k]>>
<1>1. /\ Depth(t) > 0 /\ k \in DOMAIN overrides /\ Return(t, TRUE, v, Top(t).overtaken)
      /\ cache' = IF cache_disabled THEN cache ELSE Put(cache, k, v)
      /\ UNCHANGED <<overrides, claimed, cache_disabled, stale, calls, changes>>
  BY DEF LockedGetFromOverrides, At
<1>2. k \in Keys /\ v \in Values /\ Top(t).overtaken \in BOOLEAN
  BY <1>1, TopOf DEF IInv, TypeOK, Frames, Values
<1>3. v \in Current[k]
  <2> HIDE DEF k
  <2>1. Current[k] = {<<k, overrides[k]>>}  BY <1>1, <1>2, PathStep
  <2> QED  BY <2>1
<1> HIDE DEF v
<1>4. /\ CallsNest' /\ CallsAreCurrent'
      /\ \A u \in Threads : stack'[u] \in Seq(Frames) /\ answer'[u] \in Answers
      /\ AnswersAreCurrent
  BY <1>1, <1>2, <1>3, Returns
<1> HIDE DEF k
<1>5. /\ CacheIsCurrent' /\ stale' \subseteq DOMAIN cache'
      /\ DOMAIN cache' \subseteq Keys /\ \A j \in DOMAIN cache' : cache'[j] \in Values
  <2>1. CASE cache_disabled  BY <2>1, <1>1, CacheStays DEF IInv, TypeOK
  <2>2. CASE ~cache_disabled  BY <2>2, <1>1, <1>2, <1>3, Caches DEF IInv
  <2> QED  BY <2>1, <2>2
<1>6. TypeOK'  BY <1>1, <1>4, <1>5 DEF IInv, TypeOK
<1> QED  BY <1>4, <1>5, <1>6 DEF IInv

(* ... or takes the list of the providers, and each of them is asked.      *)
LEMMA GoingOnKeeps ==
  ASSUME IInv, NEW t \in Threads, Depth(t) > 0, NEW f \in Frames, GoOn(t, f),
         f.key = Top(t).key, f.phase # "nested", f.overtaken \/ FrameIsCurrent(f),
         UNCHANGED <<cache, overrides, claimed, cache_disabled, answer, stale, calls, changes>>
  PROVE  IInv'
<1>1. /\ CallsNest' /\ CallsAreCurrent'
      /\ \A u \in Threads : stack'[u] \in Seq(Frames)
  BY GoesOn
<1>2. CacheIsCurrent'  BY CacheStays DEF IInv
<1>3. TypeOK'  BY <1>1 DEF IInv, TypeOK
<1> QED  BY <1>1, <1>2, <1>3 DEF IInv

LEMMA TakeProvidersKeeps ==
  ASSUME IInv, NEW t \in Threads, TakeProviders(t)
  PROVE  IInv'
<1> DEFINE k == Top(t).key
           f == [Top(t) EXCEPT !.phase = IF k \in claimed THEN "provide" ELSE "fail"]
<1>1. /\ Depth(t) > 0 /\ k \notin DOMAIN overrides /\ GoOn(t, f)
      /\ UNCHANGED <<cache, overrides, claimed, cache_disabled, answer, stale, calls, changes>>
  BY DEF TakeProviders, At
<1>2. /\ f \in Frames /\ f.key = k /\ f.phase \in {"provide", "fail"}
  BY <1>1, TopOf DEF Frames, Phases
<1>3. FrameIsCurrent(f)  BY <1>1, <1>2 DEF FrameIsCurrent
<1> HIDE DEF f
<1> QED  BY <1>1, <1>2, <1>3, GoingOnKeeps

LEMMA AskSystemKeeps ==
  ASSUME IInv, NEW t \in Threads, AskSystem(t)
  PROVE  IInv'
<1> DEFINE k == Top(t).key
           f == [Top(t) EXCEPT !.phase = "store", !.value = <<k, Native>>]
<1>1. /\ Depth(t) > 0 /\ Top(t).phase = "provide" /\ k \notin DOMAIN Parent /\ GoOn(t, f)
      /\ UNCHANGED <<cache, overrides, claimed, cache_disabled, answer, stale, calls, changes>>
  BY DEF AskSystem, At
<1>2. k \in Keys  BY <1>1, TopOf DEF Frames
<1>3. /\ f \in Frames /\ f.key = k /\ f.phase = "store" /\ f.value = <<k, Native>>
      /\ f.overtaken = Top(t).overtaken
  BY <1>1, <1>2, TopOf DEF Frames, Phases, Values
<1>4. f.overtaken \/ FrameIsCurrent(f)
  <2>1. Top(t).overtaken \/ k \notin DOMAIN overrides  BY <1>1, TopOf DEF FrameIsCurrent
  <2>2. k \notin DOMAIN overrides => <<k, Native>> \in Current[k]  BY <1>1, <1>2, PathStep
  <2> HIDE DEF f
  <2> QED  BY <1>3, <2>1, <2>2 DEF FrameIsCurrent
<1> HIDE DEF f
<1> QED  BY <1>1, <1>3, <1>4, GoingOnKeeps

LEMMA NoPathKeeps ==
  ASSUME IInv, NEW t \in Threads, NoPath(t)
  PROVE  IInv'
<1> DEFINE f == [Top(t) EXCEPT !.phase = "fail"]
<1>1. /\ Depth(t) > 0 /\ GoOn(t, f)
      /\ UNCHANGED <<cache, overrides, claimed, cache_disabled, answer, stale, calls, changes>>
  BY DEF NoPath, At
<1>2. /\ f \in Frames /\ f.key = Top(t).key /\ f.phase = "fail"
  BY <1>1, TopOf DEF Frames, Phases
<1>3. FrameIsCurrent(f)  BY <1>2 DEF FrameIsCurrent
<1> HIDE DEF f
<1> QED  BY <1>1, <1>2, <1>3, GoingOnKeeps

LEMMA AskParentKeeps ==
  ASSUME IInv, NEW t \in Threads, AskParent(t)
  PROVE  IInv'
<1> DEFINE D == Depth(t)
           k == Top(t).key
           g == [Top(t) EXCEPT !.phase = "nested"]
           below == [stack[t] EXCEPT ![D] = g]
           s == Append(below, Frame(Parent[k]))
<1>1. /\ D > 0 /\ Top(t).phase = "provide" /\ k \in DOMAIN Parent
      /\ stack' = [stack EXCEPT ![t] = Append([@ EXCEPT ![D].phase = "nested"], Frame(Parent[k]))]
      /\ UNCHANGED <<cache, overrides, claimed, cache_disabled, answer, stale, calls, changes>>
  BY DEF AskParent, At
<1>2. Parent[k] \in Keys  BY <1>1, PathServiceAssumption
<1>3. stack' = [stack EXCEPT ![t] = s]  BY <1>1 DEF Top
<1>4. /\ g \in Frames /\ g.key = k /\ g.phase = "nested" /\ g.overtaken = Top(t).overtaken
  BY <1>1, TopOf DEF Frames, Phases
<1>5. g.overtaken \/ FrameIsCurrent(g)
  <2>1. Top(t).overtaken \/ k \notin DOMAIN overrides  BY <1>1, TopOf DEF FrameIsCurrent
  <2> HIDE DEF g
  <2> QED  BY <1>4, <2>1 DEF FrameIsCurrent
<1> HIDE DEF g
<1>6. /\ below \in Seq(Frames) /\ Len(below) = D
      /\ \A i \in 1 .. D : below[i] = IF i = D THEN g ELSE stack[t][i]
  BY <1>1, <1>4, TopOf, ExceptSeq
<1> HIDE DEF below
<1>7. /\ Frame(Parent[k]) \in Frames /\ Frame(Parent[k]).key = Parent[k]
      /\ Frame(Parent[k]).phase = "lookup" /\ FrameIsCurrent(Frame(Parent[k]))
  BY <1>2, FirstFrame
<1>8. /\ s \in Seq(Frames) /\ Len(s) = D + 1 /\ DOMAIN s = 1 .. D + 1
      /\ \A i \in 1 .. D : s[i] = IF i = D THEN g ELSE stack[t][i]
      /\ s[D + 1] = Frame(Parent[k])
  BY <1>6, <1>7, AppendProperties, LenProperties
<1> HIDE DEF s
<1>9. Nests(s)
  <2>1. SUFFICES ASSUME NEW i \in 1 .. D + 1
                 PROVE  /\ s[i].phase = "nested" <=> i < D + 1
                        /\ s[i].phase = "nested" => s[i].key \in DOMAIN Parent
                                                    /\ s[i + 1].key = Parent[s[i].key]
    BY <1>8 DEF Nests
  <2>2. D \in Nat \ {0} /\ D = Len(stack[t]) /\ DOMAIN stack[t] = 1 .. D /\ Nests(stack[t])
    BY <1>1, TopOf
  <2>3. CASE i = D + 1  BY <2>2, <2>3, <1>7, <1>8
  <2>4. CASE i = D
    <3>1. s[i] = g /\ s[i + 1] = Frame(Parent[k])  BY <2>2, <2>4, <1>8
    <3> QED  BY <3>1, <2>2, <2>4, <1>1, <1>4, <1>7
  <2>5. CASE i < D
    <3>1. /\ s[i] = stack[t][i] /\ i \in 1 .. D /\ i + 1 \in 1 .. D
          /\ s[i].phase = "nested" /\ s[i].key \in DOMAIN Parent
          /\ stack[t][i + 1].key = Parent[s[i].key]
      BY <2>2, <2>5, <1>8 DEF Nests
    <3>2. s[i + 1].key = stack[t][i + 1].key
      <4>1. CASE i + 1 = D  BY <4>1, <3>1, <1>4, <1>8 DEF Top
      <4>2. CASE i + 1 # D  BY <4>2, <3>1, <1>8
      <4> QED  BY <4>1, <4>2
    <3> QED  BY <3>1, <3>2, <2>2, <2>5
  <2> QED  BY <2>2, <2>3, <2>4, <2>5
<1>10. AreCurrent(s)
  <2>1. ASSUME NEW i \in 1 .. D + 1 PROVE s[i].overtaken \/ FrameIsCurrent(s[i])
    <3>1. D \in Nat \ {0} /\ DOMAIN stack[t] = 1 .. D /\ AreCurrent(stack[t])  BY <1>1, TopOf
    <3>2. CASE i = D + 1  BY <3>1, <3>2, <1>7, <1>8
    <3>3. CASE i = D  BY <3>1, <3>3, <1>5, <1>8
    <3>4. CASE i < D  BY <3>1, <3>4, <1>8 DEF AreCurrent
    <3> QED  BY <3>1, <3>2, <3>3, <3>4
  <2> QED  BY <2>1, <1>8 DEF AreCurrent
<1>11. /\ CallsNest' /\ CallsAreCurrent' /\ \A u \in Threads : stack'[u] \in Seq(Frames)
  <2>1. DOMAIN answer' = Threads  BY <1>1 DEF IInv, CallsNest
  <2> QED  BY <1>1, <1>3, <1>8, <1>9, <1>10, <2>1, OneStack
<1>12. CacheIsCurrent'  BY <1>1, CacheStays DEF IInv
<1>13. TypeOK'  BY <1>1, <1>11 DEF IInv, TypeOK
<1> QED  BY <1>11, <1>12, <1>13 DEF IInv

LEMMA FailKeeps ==
  ASSUME IInv, NEW t \in Threads, Fail(t)
  PROVE  IInv' /\ AnswersAreCurrent
<1>1. /\ Depth(t) > 0 /\ Return(t, FALSE, Top(t).value, Top(t).overtaken)
      /\ UNCHANGED <<cache, overrides, claimed, cache_disabled, stale, calls, changes>>
  BY DEF Fail, At
<1>2. Top(t).value \in Values /\ Top(t).overtaken \in BOOLEAN  BY <1>1, TopOf DEF Frames
<1>3. /\ CallsNest' /\ CallsAreCurrent'
      /\ \A u \in Threads : stack'[u] \in Seq(Frames) /\ answer'[u] \in Answers
      /\ AnswersAreCurrent
  BY <1>1, <1>2, Returns
<1>4. CacheIsCurrent'  BY <1>1, CacheStays DEF IInv
<1>5. TypeOK'  BY <1>1, <1>3 DEF IInv, TypeOK
<1> QED  BY <1>3, <1>4, <1>5 DEF IInv

(* The second critical section: the cache takes what a provider brought.   *)
LEMMA StoreKeeps ==
  ASSUME IInv, NEW t \in Threads, Store(t)
  PROVE  IInv' /\ AnswersAreCurrent
<1> DEFINE k == Top(t).key
           v == Top(t).value
<1>1. /\ Depth(t) > 0 /\ Top(t).phase = "store" /\ Return(t, TRUE, v, Top(t).overtaken)
      /\ UNCHANGED <<overrides, claimed, cache_disabled, calls, changes>>
  BY DEF Store, At
<1>2. k \in Keys /\ v \in Values /\ Top(t).overtaken \in BOOLEAN  BY <1>1, TopOf DEF Frames
<1>3. ~Top(t).overtaken => v \in Current[k]  BY <1>1, TopOf DEF FrameIsCurrent
<1>4. /\ CallsNest' /\ CallsAreCurrent'
      /\ \A u \in Threads : stack'[u] \in Seq(Frames) /\ answer'[u] \in Answers
      /\ AnswersAreCurrent
  <2> HIDE DEF v
  <2> QED  BY <1>1, <1>2, <1>3, Returns
<1>5. /\ CacheIsCurrent' /\ stale' \subseteq DOMAIN cache'
      /\ DOMAIN cache' \subseteq Keys /\ \A j \in DOMAIN cache' : cache'[j] \in Values
  <2>1. CASE cache_disabled
    <3>1. UNCHANGED <<cache, stale>>  BY <2>1 DEF Store
    <3> QED  BY <3>1, <1>1, CacheStays DEF IInv, TypeOK
  <2>2. CASE ~cache_disabled
    <3>1. /\ cache' = Put(cache, k, v)
          /\ stale' = IF Top(t).overtaken THEN stale \union {k} ELSE stale \ {k}
      BY <2>2 DEF Store
    <3>2. k \notin stale' => v \in Current[k]  BY <3>1, <1>3
    <3>3. stale' \in {stale, stale \union {k}, stale \ {k}}  BY <3>1
    <3> HIDE DEF k, v
    <3> QED  BY <2>2, <3>1, <3>2, <3>3, <1>1, <1>2, Caches DEF IInv
  <2> QED  BY <2>1, <2>2
<1>6. TypeOK'  BY <1>1, <1>4, <1>5 DEF IInv, TypeOK
<1> QED  BY <1>4, <1>5, <1>6 DEF IInv
-----------------------------------------------------------------------------
(* A change of the override of k overtakes the calls whose chains it is    *)
(* on, and those alone; the cache forgets all.                             *)
LEMMA Overtakes ==
  ASSUME IInv, NEW k \in Keys, Overtake(k),
         \A j \in Keys : j # k => (j \in DOMAIN overrides <=> j \in DOMAIN overrides')
                              /\ (j \in DOMAIN overrides => overrides[j] = overrides'[j]),
         cache' = NoPaths, stale' = {}, UNCHANGED answer
  PROVE  /\ CallsNest' /\ CallsAreCurrent' /\ CacheIsCurrent'
         /\ \A t \in Threads : stack'[t] \in Seq(Frames)
<1> DEFINE Over(f) == [f EXCEPT !.overtaken = f.overtaken \/ k \in Chain[f.key]]
<1>1. \A j \in Keys : k \notin Chain[j] => Current[j] = Current'[j]
  BY CurrentEquation, CurrentEquationPrime, OthersStay
<1>2. \A j \in Keys : j \in Chain[j]  BY ChainEquation DEF ChainOf
<1>3. ASSUME NEW f \in Frames
      PROVE  /\ Over(f) \in Frames /\ Over(f).key = f.key /\ Over(f).phase = f.phase
             /\ Over(f).value = f.value
             /\ Over(f).overtaken <=> f.overtaken \/ k \in Chain[f.key]
  <2> DEFINE o == f.overtaken \/ k \in Chain[f.key]
  <2>1. o \in BOOLEAN  BY DEF Frames
  <2>2. Over(f) = [f EXCEPT !.overtaken = o]  OBVIOUS
  <2> HIDE DEF o, Over
  <2>3. /\ Over(f) \in Frames /\ Over(f).key = f.key /\ Over(f).phase = f.phase
        /\ Over(f).value = f.value /\ Over(f).overtaken = o
    BY <2>1, <2>2 DEF Frames
  <2> QED  BY <2>3 DEF o
<1>4. ASSUME NEW f \in Frames, f.overtaken \/ FrameIsCurrent(f)
      PROVE  Over(f).overtaken \/ FrameIsCurrent(Over(f))'
  <2>1. SUFFICES ASSUME ~f.overtaken, k \notin Chain[f.key] PROVE FrameIsCurrent(Over(f))'
    BY <1>3
  <2>2. f.key \in Keys /\ f.key # k  BY <2>1, <1>2 DEF Frames
  <2> QED  BY <2>1, <2>2, <1>1, <1>3, <1>4 DEF FrameIsCurrent
<1>5. \A t \in Threads :
        /\ stack[t] \in Seq(Frames) /\ stack'[t] = [i \in DOMAIN stack[t] |-> Over(stack[t][i])]
        /\ \A i \in DOMAIN stack[t] : stack[t][i] \in Frames
  <2>1. ASSUME NEW t \in Threads PROVE \A i \in DOMAIN stack[t] : stack[t][i] \in Frames
    <3>1. stack[t] \in Seq(Frames)  BY DEF IInv, TypeOK
    <3> QED  BY <3>1, ElementOfSeq, LenProperties
  <2> QED  BY <2>1 DEF Overtake, IInv, TypeOK
<1> HIDE DEF Over
<1>6. ASSUME NEW t \in Threads
      PROVE  /\ stack'[t] \in Seq(Frames) /\ Len(stack'[t]) = Len(stack[t])
             /\ DOMAIN stack'[t] = DOMAIN stack[t] /\ DOMAIN stack[t] = 1 .. Len(stack[t])
             /\ \A i \in DOMAIN stack[t] : stack'[t][i] = Over(stack[t][i])
             /\ Len(stack[t]) \in Nat
  <2>1. DOMAIN stack[t] = 1 .. Len(stack[t]) /\ Len(stack[t]) \in Nat  BY <1>5, LenProperties
  <2>2. stack'[t] \in [1 .. Len(stack[t]) -> Frames]  BY <2>1, <1>3, <1>5
  <2>3. stack'[t] \in Seq(Frames) /\ Len(stack'[t]) = Len(stack[t])  BY <2>1, <2>2, SeqDef
  <2> QED  BY <2>1, <2>3, <1>5
<1>7. CallsNest'
  <2>1. DOMAIN stack' = Threads /\ DOMAIN answer' = Threads  BY DEF Overtake, IInv, CallsNest
  <2>2. ASSUME NEW t \in Threads, NEW i \in DOMAIN stack'[t]
        PROVE  LET f == stack'[t][i] IN
               /\ f.phase = "nested" <=> i < Len(stack'[t])
               /\ f.phase = "nested" =>
                   f.key \in DOMAIN Parent /\ stack'[t][i + 1].key = Parent[f.key]
    <3>1. /\ i \in DOMAIN stack[t] /\ stack[t][i].phase = "nested" <=> i < Len(stack[t])
          /\ stack[t][i].phase = "nested" => stack[t][i].key \in DOMAIN Parent
                                             /\ stack[t][i + 1].key = Parent[stack[t][i].key]
      BY <2>2, <1>6 DEF IInv, CallsNest, Depth
    <3>2. stack[t][i].phase = "nested" => i + 1 \in DOMAIN stack[t]  BY <3>1, <1>6
    <3> QED  BY <3>1, <3>2, <2>2, <1>3, <1>5, <1>6
  <2> QED  BY <2>1, <2>2 DEF CallsNest, Depth
<1>8. CallsAreCurrent'
  <2>1. ASSUME NEW t \in Threads, NEW i \in DOMAIN stack'[t]
        PROVE  (stack[t][i].overtaken \/ FrameIsCurrent(stack[t][i]))'
    <3>1. /\ i \in DOMAIN stack[t] /\ stack[t][i] \in Frames
          /\ stack[t][i].overtaken \/ FrameIsCurrent(stack[t][i])
      BY <2>1, <1>5, <1>6 DEF IInv, CallsAreCurrent
    <3>2. PICK f \in Frames : f = stack[t][i]  BY <3>1
    <3>3. stack'[t][i] = Over(f)  BY <3>1, <3>2, <1>6
    <3>4. Over(f).overtaken \/ FrameIsCurrent(Over(f))'  BY <3>1, <3>2, <1>4
    <3>5. PICK g : g = Over(f)  OBVIOUS
    <3> QED  BY <3>3, <3>4, <3>5 DEF FrameIsCurrent
  <2> QED  BY <2>1 DEF CallsAreCurrent
<1>9. CacheIsCurrent'
  <2>1. DOMAIN NoPaths = {}  BY DEF NoPaths
  <2> QED  BY <2>1 DEF CacheIsCurrent
<1> QED  BY <1>6, <1>7, <1>8, <1>9

(* The clients change an override ...                                      *)
LEMMA OverrideKeeps ==
  ASSUME IInv, NEW t \in Threads, NEW k \in Keys, NEW p \in Paths, Override(t, k, p)
  PROVE  IInv'
<1>1. /\ changes < MaxChanges /\ cache' = NoPaths /\ stale' = {} /\ Overtake(k)
      /\ overrides' = Put(overrides, k, p) /\ changes' = changes + 1
      /\ UNCHANGED <<claimed, cache_disabled, answer, calls>>
  BY DEF Override
<1>2. \A j \in Keys : j # k => (j \in DOMAIN overrides <=> j \in DOMAIN overrides')
                            /\ (j \in DOMAIN overrides => overrides[j] = overrides'[j])
  BY <1>1 DEF Put
<1>3. /\ CallsNest' /\ CallsAreCurrent' /\ CacheIsCurrent'
      /\ \A u \in Threads : stack'[u] \in Seq(Frames)
  BY <1>1, <1>2, Overtakes
<1>4. DOMAIN overrides' \subseteq Keys /\ \A j \in DOMAIN overrides' : overrides'[j] \in Paths
  BY <1>1 DEF IInv, TypeOK, Put
<1>5. DOMAIN cache' = {}  BY <1>1 DEF NoPaths
<1>6. changes' \in 0..MaxChanges  BY <1>1, PathServiceAssumption DEF IInv, TypeOK
<1>7. TypeOK'  BY <1>1, <1>3, <1>4, <1>5, <1>6 DEF IInv, TypeOK
<1> QED  BY <1>3, <1>7 DEF IInv

(* ... or remove one; ...                                                  *)
LEMMA RemoveOverrideKeeps ==
  ASSUME IInv, NEW t \in Threads, NEW k \in Keys, RemoveOverride(t, k)
  PROVE  IInv'
<1>1. /\ changes < MaxChanges /\ cache' = NoPaths /\ stale' = {} /\ Overtake(k)
      /\ overrides' = Erase(overrides, k) /\ changes' = changes + 1
      /\ UNCHANGED <<claimed, cache_disabled, answer, calls>>
  BY DEF RemoveOverride
<1>2. \A j \in Keys : j # k => (j \in DOMAIN overrides <=> j \in DOMAIN overrides')
                            /\ (j \in DOMAIN overrides => overrides[j] = overrides'[j])
  BY <1>1 DEF Erase
<1>3. /\ CallsNest' /\ CallsAreCurrent' /\ CacheIsCurrent'
      /\ \A u \in Threads : stack'[u] \in Seq(Frames)
  BY <1>1, <1>2, Overtakes
<1>4. DOMAIN overrides' \subseteq Keys /\ \A j \in DOMAIN overrides' : overrides'[j] \in Paths
  BY <1>1 DEF IInv, TypeOK, Erase
<1>5. DOMAIN cache' = {}  BY <1>1 DEF NoPaths
<1>6. changes' \in 0..MaxChanges  BY <1>1, PathServiceAssumption DEF IInv, TypeOK
<1>7. TypeOK'  BY <1>1, <1>3, <1>4, <1>5, <1>6 DEF IInv, TypeOK
<1> QED  BY <1>3, <1>7 DEF IInv

(* ... no call changes where the stacks and the overrides stay.            *)
LEMMA CallsStay ==
  ASSUME IInv, UNCHANGED <<stack, overrides, answer>>
  PROVE  CallsNest' /\ CallsAreCurrent'
<1>1. Current' = Current  BY CurrentStays
<1>2. CallsNest'  BY DEF IInv, CallsNest, Depth
<1>3. CallsAreCurrent'  BY <1>1 DEF IInv, CallsAreCurrent, FrameIsCurrent
<1> QED  BY <1>2, <1>3

LEMMA RegisterProviderKeeps ==
  ASSUME IInv, NEW t \in Threads, NEW ks \in SUBSET Keys, RegisterProvider(t, ks)
  PROVE  IInv'
<1>1. /\ changes < MaxChanges /\ claimed' = claimed \union ks /\ changes' = changes + 1
      /\ UNCHANGED <<cache, overrides, cache_disabled, stack, answer, stale, calls>>
  BY DEF RegisterProvider
<1>2. CallsNest' /\ CallsAreCurrent' /\ CacheIsCurrent'
  BY <1>1, CallsStay, CacheStays DEF IInv
<1>3. changes' \in 0..MaxChanges  BY <1>1, PathServiceAssumption DEF IInv, TypeOK
<1>4. TypeOK'  BY <1>1, <1>3 DEF IInv, TypeOK
<1> QED  BY <1>2, <1>4 DEF IInv

LEMMA DisableCacheKeeps ==
  ASSUME IInv, NEW t \in Threads, DisableCache(t)
  PROVE  IInv'
<1>1. /\ cache' = NoPaths /\ stale' = {} /\ cache_disabled'
      /\ cache_disabled' \in BOOLEAN
      /\ UNCHANGED <<overrides, claimed, stack, answer, calls, changes>>
  BY DEF DisableCache
<1>2. CallsNest' /\ CallsAreCurrent'  BY <1>1, CallsStay
<1>3. DOMAIN cache' = {}  BY <1>1 DEF NoPaths
<1>4. CacheIsCurrent'  BY <1>1, <1>3 DEF CacheIsCurrent
<1>5. TypeOK'  BY <1>1, <1>3 DEF IInv, TypeOK
<1> QED  BY <1>2, <1>4, <1>5 DEF IInv

(* A call that has frames left has not answered.                           *)
LEMMA NobodyAnswers ==
  ASSUME IInv, \A u \in Threads : stack[u] # <<>> => stack'[u] # <<>>
  PROVE  AnswersAreCurrent
  BY DEF AnswersAreCurrent, Answered

LEMMA GoingOnAnswersNot ==
  ASSUME IInv, NEW t \in Threads, Depth(t) > 0, NEW s, s # <<>>,
         stack' = [stack EXCEPT ![t] = s]
  PROVE  AnswersAreCurrent
<1>1. \A u \in Threads : stack'[u] = IF u = t THEN s ELSE stack[u]
  BY DEF IInv, CallsNest
<1> QED  BY <1>1, NobodyAnswers

LEMMA OvertakingAnswersNot ==
  ASSUME IInv, NEW k \in Keys, Overtake(k)
  PROVE  AnswersAreCurrent
<1>1. ASSUME NEW u \in Threads, stack[u] # <<>> PROVE stack'[u] # <<>>
  <2>1. stack[u] \in Seq(Frames)  BY DEF IInv, TypeOK
  <2>2. DOMAIN stack[u] # {}
    <3>1. Len(stack[u]) \in Nat /\ Len(stack[u]) # 0  BY <2>1, <1>1, EmptySeq
    <3>2. DOMAIN stack[u] = 1 .. Len(stack[u])  BY <2>1, LenProperties
    <3>3. 1 \in DOMAIN stack[u]  BY ONLY <3>1, <3>2
    <3> QED  BY <3>3
  <2>3. DOMAIN stack'[u] = DOMAIN stack[u]  BY DEF Overtake
  <2> QED  BY <2>2, <2>3
<1> QED  BY <1>1, NobodyAnswers
--------------------------------------------------------------------------------
LEMMA NextKeeps ==
  ASSUME IInv, [Next]_vars
  PROVE  IInv' /\ AnswersAreCurrent
<1>1. CASE UNCHANGED vars
  <2>1. CallsNest' /\ CallsAreCurrent' /\ CacheIsCurrent'
    BY <1>1, CallsStay, CacheStays DEF IInv, vars
  <2>2. TypeOK'  BY <1>1 DEF IInv, TypeOK, vars
  <2>3. AnswersAreCurrent  BY <1>1 DEF AnswersAreCurrent, Answered, vars
  <2> QED  BY <2>1, <2>2, <2>3 DEF IInv
<1>2. ASSUME NEW t \in Threads, NEW k \in Keys, Get(t, k) PROVE IInv' /\ AnswersAreCurrent
  <2>1. \A u \in Threads : stack[u] # <<>> => stack'[u] # <<>>
    BY <1>2 DEF Get, IInv, CallsNest
  <2> QED  BY <1>2, <2>1, GetKeeps, NobodyAnswers
<1>3. ASSUME NEW t \in Threads, NEW k \in Keys, RemoveOverride(t, k)
      PROVE  IInv' /\ AnswersAreCurrent
  <2>1. Overtake(k)  BY <1>3 DEF RemoveOverride
  <2> QED  BY <1>3, <2>1, RemoveOverrideKeeps, OvertakingAnswersNot
<1>4. ASSUME NEW t \in Threads, NEW k \in Keys, NEW p \in Paths, Override(t, k, p)
      PROVE  IInv' /\ AnswersAreCurrent
  <2>1. Overtake(k)  BY <1>4 DEF Override
  <2> QED  BY <1>4, <2>1, OverrideKeeps, OvertakingAnswersNot
<1>5. ASSUME NEW t \in Threads, NEW ks \in SUBSET Keys, RegisterProvider(t, ks)
      PROVE  IInv' /\ AnswersAreCurrent
  <2>1. stack' = stack  BY <1>5 DEF RegisterProvider
  <2> QED  BY <1>5, <2>1, RegisterProviderKeeps, NobodyAnswers
<1>6. ASSUME NEW t \in Threads, DisableCache(t) PROVE IInv' /\ AnswersAreCurrent
  <2>1. stack' = stack  BY <1>6 DEF DisableCache
  <2> QED  BY <1>6, <2>1, DisableCacheKeeps, NobodyAnswers
<1>7. ASSUME NEW t \in Threads, LockedGetFromCache(t) PROVE IInv' /\ AnswersAreCurrent
  BY <1>7, LockedGetFromCacheKeeps
<1>8. ASSUME NEW t \in Threads, LockedGetFromOverrides(t) PROVE IInv' /\ AnswersAreCurrent
  BY <1>8, LockedGetFromOverridesKeeps
<1>9. ASSUME NEW t \in Threads, Depth(t) > 0, NEW f, GoOn(t, f) PROVE AnswersAreCurrent
  <2> DEFINE s == [stack[t] EXCEPT ![Depth(t)] = f]
  <2>1. stack' = [stack EXCEPT ![t] = s] /\ DOMAIN s # {}  BY <1>9, TopOf DEF GoOn
  <2>2. s # <<>>  BY <2>1
  <2> HIDE DEF s
  <2> QED  BY <1>9, <2>1, <2>2, GoingOnAnswersNot
<1>10. ASSUME NEW t \in Threads, TakeProviders(t) PROVE IInv' /\ AnswersAreCurrent
  BY <1>10, <1>9, TakeProvidersKeeps DEF TakeProviders, At
<1>11. ASSUME NEW t \in Threads, AskSystem(t) PROVE IInv' /\ AnswersAreCurrent
  BY <1>11, <1>9, AskSystemKeeps DEF AskSystem, At
<1>12. ASSUME NEW t \in Threads, AskParent(t) PROVE IInv' /\ AnswersAreCurrent
  <2> DEFINE below == [stack[t] EXCEPT ![Depth(t)].phase = "nested"]
             s == Append(below, Frame(Parent[Top(t).key]))
  <2>1. Depth(t) > 0 /\ stack' = [stack EXCEPT ![t] = s]  BY <1>12 DEF AskParent, At
  <2>2. s # <<>>
    <3>1. \A u \in Seq(Frames), e \in Frames : Append(u, e) # <<>>  BY AppendProperties
    <3>2. /\ stack[t] \in Seq(Frames) /\ Depth(t) \in 1 .. Len(stack[t])
          /\ [Top(t) EXCEPT !.phase = "nested"] \in Frames
      BY <2>1, TopOf DEF Frames, Phases
    <3>3. below \in Seq(Frames)  BY <3>2, ExceptSeq DEF Top
    <3>4. Frame(Parent[Top(t).key]) \in Frames
      BY <1>12, PathServiceAssumption, FirstFrame DEF AskParent
    <3> HIDE DEF below
    <3> QED  BY <3>1, <3>3, <3>4
  <2> HIDE DEF s
  <2> QED  BY <1>12, <2>1, <2>2, AskParentKeeps, GoingOnAnswersNot
<1>13. ASSUME NEW t \in Threads, NoPath(t) PROVE IInv' /\ AnswersAreCurrent
  BY <1>13, <1>9, NoPathKeeps DEF NoPath, At
<1>14. ASSUME NEW t \in Threads, Fail(t) PROVE IInv' /\ AnswersAreCurrent
  BY <1>14, FailKeeps
<1>15. ASSUME NEW t \in Threads, Store(t) PROVE IInv' /\ AnswersAreCurrent
  BY <1>15, StoreKeeps
<1> QED
  BY <1>1, <1>2, <1>3, <1>4, <1>5, <1>6, <1>7, <1>8, <1>10, <1>11, <1>12, <1>13, <1>14,
     <1>15 DEF Next

(* Get, nested calls and all, interleaved with any changes of overrides:   *)
(* the invariant that explains why the cache can be trusted.               *)
THEOREM PathsInvariance == Spec => []IInv
  BY PathsInit, NextKeeps, PTL DEF Spec

(* The maps, the activations of Get and its answers keep their types.      *)
THEOREM PathTypes == Spec => []TypeOK
  BY PathsInvariance, PTL DEF IInv

(* The cache of the path service (LockedGetFromCache, the second critical  *)
(* section of Get, Override, RemoveOverride, DisableCache) agrees with the *)
(* overrides of the moment, derived paths included.                        *)
THEOREM PathCacheIsCurrent == Spec => []CacheIsCurrent
  BY PathsInvariance, PTL DEF IInv

(* What Get returns is the path of the moment it returns at, unless a      *)
(* change of an override on its chain overtook it.                         *)
THEOREM PathAnswerIsCurrent == Spec => AnswerIsCurrent
<1>1. IInv /\ [Next]_vars =>
        [\A t \in Threads : Answered(t) /\ answer'[t].ok /\ ~answer'[t].overtaken
            => answer'[t].value \in Current[answer'[t].key]]_vars
  BY NextKeeps DEF AnswersAreCurrent
<1> QED  BY <1>1, PathsInvariance, PTL DEF Spec, AnswerIsCurrent

(* The file of a JsonPrefStore.  Its runner's queue grows at one end and   *)
(* shrinks at the other.                                                   *)
LEMMA Queue ==
  ASSUME NEW S, NEW q \in Seq(S)
  PROVE  /\ Len(q) \in Nat /\ DOMAIN q = 1 .. Len(q) /\ \A i \in DOMAIN q : q[i] \in S
         /\ q # <<>> => Len(q) \in DOMAIN q
         /\ \A x \in S : LET r == Append(q, x) IN
              /\ r \in Seq(S) /\ r # <<>> /\ DOMAIN r = DOMAIN q \union {Len(q) + 1}
              /\ Len(r) = Len(q) + 1 /\ r[Len(r)] = x /\ \A i \in DOMAIN q : r[i] = q[i]
         /\ q # <<>> => LET r == Tail(q) IN
              /\ Head(q) = q[1] /\ 1 \in DOMAIN q
              /\ r \in Seq(S) /\ Len(r) = Len(q) - 1 /\ DOMAIN r = 1 .. Len(q) - 1
              /\ \A i \in DOMAIN r : r[i] = q[i + 1] /\ i + 1 \in DOMAIN q
              /\ r # <<>> => r[Len(r)] = q[Len(q)]
<1>1. Len(q) \in Nat /\ DOMAIN q = 1 .. Len(q)  BY LenProperties
<1>2. \A i \in DOMAIN q : q[i] \in S  BY <1>1, ElementOfSeq
<1>3. q # <<>> => Len(q) \in DOMAIN q  BY <1>1, EmptySeq
<1>4. ASSUME NEW x \in S
      PROVE  LET r == Append(q, x) IN
             /\ r \in Seq(S) /\ r # <<>> /\ DOMAIN r = DOMAIN q \union {Len(q) + 1}
             /\ Len(r) = Len(q) + 1 /\ r[Len(r)] = x /\ \A i \in DOMAIN q : r[i] = q[i]
  <2> DEFINE r == Append(q, x)
  <2>1. /\ r \in Seq(S) /\ r # <<>> /\ Len(r) = Len(q) + 1
        /\ \A i \in 1 .. Len(q) : r[i] = q[i]
        /\ r[Len(q) + 1] = x
    BY AppendProperties
  <2>2. DOMAIN r = 1 .. Len(q) + 1  BY <2>1, LenProperties
  <2> HIDE DEF r
  <2>3. DOMAIN r = DOMAIN q \union {Len(q) + 1}  BY <1>1, <2>2
  <2> QED  BY <1>1, <2>1, <2>3 DEF r
<1>5. ASSUME q # <<>>
      PROVE  LET r == Tail(q) IN
             /\ Head(q) = q[1] /\ 1 \in DOMAIN q
             /\ r \in Seq(S) /\ Len(r) = Len(q) - 1 /\ DOMAIN r = 1 .. Len(q) - 1
             /\ \A i \in DOMAIN r : r[i] = q[i + 1] /\ i + 1 \in DOMAIN q
             /\ r # <<>> => r[Len(r)] = q[Len(q)]
  <2> DEFINE r == Tail(q)
  <2>1. /\ r \in Seq(S) /\ Len(r) = Len(q) - 1 /\ Head(q) = q[1]
        /\ \A i \in 1 .. Len(r) : r[i] = q[i + 1]
    BY <1>5, HeadTailProperties
  <2>2. DOMAIN r = 1 .. Len(r) /\ Len(r) \in Nat  BY <2>1, LenProperties
  <2>3. r # <<>> => Len(r) # 0  BY <2>1, EmptySeq
  <2> HIDE DEF r
  <2> QED  BY <1>1, <1>3, <1>5, <2>1, <2>2, <2>3 DEF r
<1> QED  BY <1>1, <1>2, <1>3, <1>4, <1>5

LEMMA FileValues ==
  /\ Filing!Nothing \in Filing!Contents /\ Filing!Reading \in Filing!Tasks
  /\ \A c \in Filing!Contents : {c} \in Filing!Tasks /\ {c} # Filing!Reading
  /\ \A r \in Filing!Results : r.value \in Filing!Contents
                               /\ (r.error # "none" => r.value = Filing!Nothing)
  /\ \A r \in Filing!Files : r.error # "access"
  /\ Filing!NoFile \in Filing!Files /\ Filing!NoFile.value = Filing!Nothing
  /\ Filing!Unreadable \in Filing!Results /\ Filing!Unreadable.error = "access"
  /\ Filing!Files \subseteq Filing!Results
<1>1. Filing!Nothing \in Filing!Contents  BY DEF Filing!Nothing, Filing!Contents, Filing!Values
<1> DEFINE N == Filing!NoFile
           P == [N EXCEPT !.error = "parse"]
           U == Filing!Unreadable
           C == [error : {"none"}, value : Filing!Contents]
<1>2. N.error = "no file" /\ N.value = Filing!Nothing  BY DEF Filing!NoFile
<1>3. P.error = "parse" /\ P.value = Filing!Nothing  BY DEF Filing!NoFile
<1>4. U.error = "access" /\ U.value = Filing!Nothing
  BY DEF Filing!Unreadable, Filing!NoFile
<1>5. \A r \in C : r.error = "none" /\ r.value \in Filing!Contents  OBVIOUS
<1>6. Filing!Files = {N, P} \union C /\ Filing!Results = {N, P, U} \union C
  BY DEF Filing!Results, Filing!Files
<1> HIDE DEF N, P, U, C
<1>7. \A r \in Filing!Results : r.value \in Filing!Contents
                               /\ (r.error # "none" => r.value = Filing!Nothing)
  BY <1>1, <1>2, <1>3, <1>4, <1>5, <1>6
<1>8. \A r \in Filing!Files : r.error # "access"  BY <1>2, <1>3, <1>5, <1>6
<1>9. /\ N \in Filing!Files /\ U \in Filing!Results /\ Filing!Files \subseteq Filing!Results
  BY <1>6
<1>10. /\ Filing!Reading \in Filing!Tasks
       /\ \A c \in Filing!Contents : {c} \in Filing!Tasks /\ {c} # Filing!Reading
  BY DEF Filing!Tasks, Filing!Reading
<1> QED  BY <1>1, <1>2, <1>4, <1>7, <1>8, <1>9, <1>10 DEF N, U

(* The last writing decides what will be in the file.                      *)
LEMMA LatestOf ==
  ASSUME Filing!TypesOK
  PROVE  /\ runner = <<>> => Filing!Latest = {disk.value}
         /\ runner # <<>> /\ runner[Len(runner)] # Filing!Reading
               => Filing!Latest = runner[Len(runner)]
         /\ Len(runner) = 1 /\ runner[1] = Filing!Reading => Filing!Latest = {disk.value}
         /\ Len(runner) > 1 /\ runner[Len(runner)] = Filing!Reading
               => Filing!Latest = runner[Len(runner) - 1]
<1>1. runner \in Seq(Filing!Tasks)  BY DEF Filing!TypesOK
<1>2. Len(runner) \in Nat /\ (runner = <<>> <=> Len(runner) = 0)  BY <1>1, LenProperties, EmptySeq
<1> QED  BY <1>2 DEF Filing!Latest

(* The result of a reading comes to the store.                             *)
LEMMA FileIsRead ==
  ASSUME Filing!IInv, NEW result \in Filing!Results, Filing!OnFileRead(result),
         ~file_read, ~read_only_, ~failed, told = <<>>, open', report' = {},
         ~early => result.error = "access" \/ result.value = disk'.value,
         ~early => ~writer_ /\ runner = <<>>,
         \A i \in DOMAIN runner : runner[i] # Filing!Reading,
         disk' \in Filing!Files, disk'.value = disk.value, no_dir => disk' = Filing!NoFile,
         open' \in BOOLEAN, UNCHANGED <<runner, writer_, no_dir, early, kept>>
  PROVE  Filing!IInv'
<1> USE DEF Filing!IInv
<1>1. /\ file_read' = ~no_dir /\ file_read' \in BOOLEAN
      /\ read_only_' = (~no_dir /\ result.error = "access") /\ read_only_' \in BOOLEAN
      /\ in_file' = IF result.error = "none" /\ ~no_dir THEN result.value ELSE in_file
  BY DEF Filing!OnFileRead, Filing!TypesOK
<1>2. /\ failed' = no_dir /\ failed' \in BOOLEAN
      /\ IF ~no_dir /\ ~policy
         THEN UNCHANGED <<waiting, told>>
         ELSE /\ waiting' = FALSE
              /\ told' = IF waiting THEN Append(told, ~no_dir) ELSE told
      /\ UNCHANGED policy
  BY DEF Filing!OnFileRead, Filing!OnInitializationCompleted, Filing!TypesOK
<1>3. in_file' \in Filing!Contents  BY <1>1, FileValues DEF Filing!TypesOK
<1>4. told' = <<>> \/ (told' = <<~no_dir>> /\ waiting' = FALSE)  BY <1>2
<1>5. told' \in Seq(BOOLEAN) /\ waiting' \in BOOLEAN
  <2>1. told' = <<>> \/ (\E b \in BOOLEAN : told' = <<b>>)
    BY <1>4 DEF Filing!TypesOK
  <2>2. \A b \in BOOLEAN : <<b>> \in Seq(BOOLEAN)  OBVIOUS
  <2>4. told' \in Seq(BOOLEAN)  BY <2>1, <2>2, EmptySeq
  <2>3. waiting' \in BOOLEAN  BY <1>2 DEF Filing!TypesOK
  <2> QED  BY <2>3, <2>4
<1>6. Filing!TypesOK'  BY <1>1, <1>2, <1>3, <1>5 DEF Filing!TypesOK
<1>7. Filing!ReadsOnce'  BY DEF Filing!ReadsOnce
<1>8. Filing!ClosedForgets'
  <2>1. told' # <<>> => no_dir \/ policy  BY <1>2
  <2> QED  BY <1>1, <1>2, <2>1 DEF Filing!ClosedForgets
<1>9. ~early => /\ in_file' = IF result.error # "access" THEN disk'.value ELSE in_file
                /\ no_dir => in_file' = Filing!Nothing
                /\ in_file = Filing!Nothing
  BY <1>1, FileValues DEF Filing!NothingToWrite
<1>10. Filing!NothingToWrite'
  <2>2. ~early' /\ ~file_read' => in_file' = Filing!Nothing  BY <1>1, <1>9
  <2>3. ~early' => ~writer_' /\ runner' = <<>>  OBVIOUS
  <2> QED  BY <2>2, <2>3 DEF Filing!NothingToWrite
<1>11. Filing!FileKeeps'
  <2>1. SUFFICES ASSUME ~early PROVE Filing!FileKeeps'  BY DEF Filing!FileKeeps
  <2>2. Len(runner) = 0 /\ runner = <<>>  BY <2>1
  <2>3. Filing!Latest = {disk.value} /\ Filing!Latest' = {disk'.value}
    BY <2>2 DEF Filing!Latest
  <2> QED  BY <2>1, <2>3, <1>1, <1>9 DEF Filing!FileKeeps, Filing!Keeps
<1>12. Filing!InitObserversToldOnce'
  <2>1. told' = <<>> => Len(told') = 0 /\ DOMAIN told' = {}  OBVIOUS
  <2>2. told' = <<~no_dir>> => Len(told') = 1 /\ DOMAIN told' = {1} /\ told'[1] = ~no_dir
    OBVIOUS
  <2>3. told' # <<>> => no_dir \/ policy  BY <1>2
  <2>4. (open' /\ policy' /\ file_read') => ~waiting'  BY <1>1, <1>2
  <2>5. policy \in BOOLEAN /\ no_dir \in BOOLEAN  BY DEF Filing!TypesOK
  <2>8. Len(told') = 0 \/ Len(told') = 1  BY <1>4, <2>1, <2>2, Zenon
  <2>9. \A n \in {0, 1} : n <= 1  OBVIOUS
  <2>6. Len(told') <= 1  BY <2>8, <2>9, Zenon
  <2>7. \A i \in DOMAIN told' : told'[i] = (policy' /\ file_read' /\ ~failed')
    BY <1>1, <1>2, <1>4, <2>1, <2>2, <2>3, <2>5
  <2> QED  BY <2>4, <2>6, <2>7 DEF Filing!InitObserversToldOnce
<1> QED  BY <1>6, <1>7, <1>8, <1>10, <1>11, <1>12

LEMMA ReadingMovesAside ==
  ASSUME Filing!IInv, NEW result \in {disk, Filing!Unreadable}, Filing!DoReading(result)
  PROVE  /\ disk' \in Filing!Files /\ disk'.value = disk.value
         /\ no_dir => disk' = Filing!NoFile
         /\ result \in Filing!Results /\ (result.error = "access" \/ result.value = disk'.value)
<1>1. disk \in Filing!Files /\ (no_dir => disk = Filing!NoFile)
  BY DEF Filing!IInv, Filing!TypesOK, Filing!ClosedForgets
<1>2. result \in Filing!Results /\ (result.error = "access" \/ result = disk)
  BY <1>1, FileValues
<1>3. CASE result.error = "parse"
  <2>1. disk' = Filing!NoFile /\ disk.value = Filing!Nothing
    BY <1>1, <1>2, <1>3, FileValues DEF Filing!DoReading
  <2> QED  BY <2>1, <1>2, <1>3, FileValues
<1>4. CASE result.error # "parse"
  <2>1. disk' = disk  BY <1>4 DEF Filing!DoReading
  <2> QED  BY <2>1, <1>1, <1>2
<1> QED  BY <1>3, <1>4

LEMMA ReadPrefsKeeps ==
  ASSUME Filing!IInv, Filing!ReadPrefs
  PROVE  Filing!IInv'
<1>1. PICK result \in {disk, Filing!Unreadable} : Filing!DoReading(result) /\ Filing!OnFileRead(result)
  BY DEF Filing!ReadPrefs
<1>2. /\ ~open /\ runner = <<>> /\ open' = TRUE
      /\ UNCHANGED <<writer_, runner, report, no_dir, early, kept>>
  BY DEF Filing!ReadPrefs
<1>3. ~file_read /\ ~read_only_ /\ ~failed /\ told = <<>> /\ ~writer_ /\ report = {}
  BY <1>2 DEF Filing!IInv, Filing!ClosedForgets, Filing!ReadsOnce
<1>4. DOMAIN runner = {}  BY <1>2
<1> QED  BY <1>1, <1>2, <1>3, <1>4, ReadingMovesAside, FileIsRead

LEMMA ReadPrefsAsyncKeeps ==
  ASSUME Filing!IInv, Filing!ReadPrefsAsync
  PROVE  Filing!IInv'
<1> USE DEF Filing!IInv
<1>1. /\ ~open /\ open' = TRUE /\ runner' = Append(runner, Filing!Reading)
      /\ UNCHANGED <<in_file, file_read, read_only_, writer_, report, disk, no_dir,
                     policy, failed, waiting, told, early, kept>>
  BY DEF Filing!ReadPrefsAsync, Filing!initVars
<1>2. /\ ~file_read /\ ~read_only_ /\ ~failed /\ told = <<>> /\ ~writer_ /\ report = {} /\ ~early
      /\ \A i \in DOMAIN runner : runner[i] # Filing!Reading
  BY <1>1 DEF Filing!ClosedForgets, Filing!ReadsOnce
<1>3. /\ runner' \in Seq(Filing!Tasks) /\ DOMAIN runner' = DOMAIN runner \union {Len(runner) + 1}
      /\ Len(runner') = Len(runner) + 1 /\ runner'[Len(runner')] = Filing!Reading
      /\ \A i \in DOMAIN runner : runner'[i] = runner[i]
  BY <1>1, FileValues, Queue DEF Filing!TypesOK
<1>4. /\ Len(runner) \in Nat /\ (runner # <<>> => Len(runner) \in DOMAIN runner)
      /\ (runner = <<>> <=> Len(runner) = 0) /\ runner' # <<>>
  BY <1>1, Queue, EmptySeq DEF Filing!TypesOK
<1>5. Filing!TypesOK'
  <2>1. open' \in BOOLEAN  BY <1>1
  <2> QED  BY <1>1, <1>3, <2>1 DEF Filing!TypesOK
<1>6. Filing!ReadsOnce'
  <2>1. \A i \in DOMAIN runner' : runner'[i] = Filing!Reading => i = Len(runner) + 1
    BY <1>2, <1>3
  <2> QED  BY <1>1, <1>2, <2>1 DEF Filing!ReadsOnce
<1>7. Filing!ClosedForgets'  BY <1>1, <1>2 DEF Filing!ClosedForgets
<1>8. Filing!NothingToWrite'  BY <1>1, <1>2, <1>3 DEF Filing!NothingToWrite
<1>9. Filing!Latest' = Filing!Latest
  <2>1. CASE runner = <<>>
    <3>1. Len(runner') - 1 = 0 /\ Len(runner) = 0  BY <1>3, <1>4, <2>1
    <3> QED  BY <1>1, <1>3, <1>4, <2>1, <3>1 DEF Filing!Latest
  <2>2. CASE runner # <<>>
    <3>1. Len(runner') - 1 = Len(runner) /\ Len(runner) # 0  BY <1>3, <1>4, <2>2
    <3>2. runner[Len(runner)] # Filing!Reading /\ runner'[Len(runner)] = runner[Len(runner)]
      BY <1>2, <1>3, <1>4, <2>2
    <3> QED  BY <1>3, <1>4, <2>2, <3>1, <3>2 DEF Filing!Latest
  <2> QED  BY <2>1, <2>2
<1>10. Filing!FileKeeps'  BY <1>1, <1>2, <1>9 DEF Filing!FileKeeps
<1>11. Filing!InitObserversToldOnce'  BY <1>1, <1>2 DEF Filing!InitObserversToldOnce
<1> QED  BY <1>5, <1>6, <1>7, <1>8, <1>10, <1>11

(* Nobody set a value too early: then nothing is queued behind a reading.  *)
LEMMA NothingQueued ==
  ASSUME Filing!IInv, ~early, open, ~file_read \/ read_only_,
         \A i \in DOMAIN runner : runner[i] # Filing!Reading
  PROVE  runner = <<>> /\ ~writer_
<1>1. runner # <<>> => Len(runner) \in DOMAIN runner
  BY Queue DEF Filing!IInv, Filing!TypesOK
<1> QED  BY <1>1 DEF Filing!IInv, Filing!NothingToWrite

LEMMA ReportOnOriginThreadKeeps ==
  ASSUME Filing!IInv, Filing!ReportOnOriginThread
  PROVE  Filing!IInv'
<1>1. PICK result \in report : Filing!OnFileRead(result)  BY DEF Filing!ReportOnOriginThread
<1>2. report' = {} /\ UNCHANGED <<writer_, runner, disk, no_dir, open, early, kept>>
  BY DEF Filing!ReportOnOriginThread
<1>3. /\ open /\ ~file_read /\ ~read_only_ /\ ~failed /\ told = <<>>
      /\ \A i \in DOMAIN runner : runner[i] # Filing!Reading
  BY <1>1 DEF Filing!IInv, Filing!ReadsOnce
<1>4. result \in Filing!Results /\ disk \in Filing!Files /\ open \in BOOLEAN
  BY <1>1 DEF Filing!IInv, Filing!TypesOK
<1>5. ~early => result.error = "access" \/ result.value = disk.value
  BY <1>1 DEF Filing!IInv, Filing!NothingToWrite
<1>6. ~early => runner = <<>> /\ ~writer_  BY <1>3, NothingQueued
<1>7. no_dir => disk = Filing!NoFile  BY DEF Filing!IInv, Filing!ClosedForgets
<1> QED  BY <1>1, <1>2, <1>3, <1>4, <1>5, <1>6, <1>7, FileIsRead

LEMMA ReadFileAndReportKeeps ==
  ASSUME Filing!IInv, Filing!ReadFileAndReport
  PROVE  Filing!IInv'
<1> USE DEF Filing!IInv
<1>1. PICK result \in {disk, Filing!Unreadable} : Filing!DoReading(result) /\ report' = {result}
  BY DEF Filing!ReadFileAndReport
<1>2. /\ runner # <<>> /\ Head(runner) = Filing!Reading /\ runner' = Tail(runner)
      /\ UNCHANGED <<in_file, file_read, read_only_, writer_, no_dir, open,
                     policy, failed, waiting, told, early, kept>>
  BY DEF Filing!ReadFileAndReport, Filing!initVars
<1>3. /\ disk' \in Filing!Files /\ disk'.value = disk.value
      /\ no_dir => disk' = Filing!NoFile
      /\ result \in Filing!Results /\ (result.error = "access" \/ result.value = disk'.value)
  BY <1>1, ReadingMovesAside
<1>4. /\ runner \in Seq(Filing!Tasks) /\ runner' \in Seq(Filing!Tasks)
      /\ 1 \in DOMAIN runner /\ runner[1] = Filing!Reading
      /\ \A i \in DOMAIN runner' : runner'[i] = runner[i + 1] /\ i + 1 \in DOMAIN runner
                                   /\ i \in 1 .. Len(runner) - 1
      /\ Len(runner) \in Nat
  BY <1>2, Queue DEF Filing!TypesOK
<1>5. \A i \in DOMAIN runner' : runner'[i] # Filing!Reading
  <2>1. \A i \in DOMAIN runner' : i + 1 # 1  BY <1>4
  <2> QED  BY <2>1, <1>4 DEF Filing!ReadsOnce
<1>6. open /\ ~file_read /\ ~read_only_ /\ ~failed /\ told = <<>>
  BY <1>4 DEF Filing!ReadsOnce
<1>7. Filing!TypesOK'  BY <1>1, <1>2, <1>3, <1>4 DEF Filing!TypesOK
<1>8. Filing!ReadsOnce'  BY <1>2, <1>5, <1>6 DEF Filing!ReadsOnce
<1>9. Filing!ClosedForgets'  BY <1>2, <1>3 DEF Filing!ClosedForgets
<1>10. ~early => Len(runner) = 1 /\ runner' = <<>>
  <2>1. SUFFICES ASSUME ~early PROVE Len(runner) = 1 /\ runner' = <<>>  OBVIOUS
  <2>2. runner[Len(runner)] = Filing!Reading  BY <2>1, <1>2, <1>6 DEF Filing!NothingToWrite
  <2>3. Len(runner) \in DOMAIN runner  BY <1>2, <1>4, Queue
  <2>4. Len(runner) = 1  BY <2>2, <2>3, <1>4 DEF Filing!ReadsOnce
  <2>5. Len(runner') = 0  BY <2>4, <1>2, <1>4, Queue
  <2> QED  BY <2>4, <2>5, <1>4, EmptySeq
<1>11. Filing!NothingToWrite'
  BY <1>10, <1>1, <1>2, <1>3, <1>6 DEF Filing!NothingToWrite
<1>12. Filing!FileKeeps'
  <2>1. SUFFICES ASSUME ~early PROVE Filing!FileKeeps'  BY <1>2 DEF Filing!FileKeeps
  <2>2. Filing!Latest' = {disk'.value}
    <3>1. Len(runner') = 0  BY <2>1, <1>10
    <3> QED  BY <3>1, <2>1, <1>10 DEF Filing!Latest
  <2>3. Filing!Latest = {disk.value}  BY <2>1, <1>4, <1>10, LatestOf
  <2> QED  BY <2>1, <2>2, <2>3, <1>2, <1>3, <1>6 DEF Filing!FileKeeps, Filing!Keeps
<1>13. Filing!InitObserversToldOnce'  BY <1>2 DEF Filing!InitObserversToldOnce
<1> QED  BY <1>7, <1>8, <1>9, <1>11, <1>12, <1>13

LEMMA AddInitObserverKeeps ==
  ASSUME Filing!IInv, Filing!AddInitObserver
  PROVE  Filing!IInv'
<1> USE DEF Filing!IInv
<1>1. /\ open /\ ~file_read /\ waiting' /\ waiting' \in BOOLEAN
      /\ UNCHANGED <<in_file, file_read, read_only_, writer_, runner, report, disk, no_dir,
                     open, policy, failed, told, early, kept>>
  BY DEF Filing!AddInitObserver
<1>2. Filing!TypesOK'  BY <1>1 DEF Filing!TypesOK
<1>3. Filing!ReadsOnce' /\ Filing!NothingToWrite'
  BY <1>1 DEF Filing!ReadsOnce, Filing!NothingToWrite
<1>4. Filing!ClosedForgets'  BY <1>1 DEF Filing!ClosedForgets
<1>5. Filing!FileKeeps'  BY <1>1 DEF Filing!FileKeeps, Filing!Latest, Filing!Keeps
<1>6. Filing!InitObserversToldOnce'  BY <1>1 DEF Filing!InitObserversToldOnce
<1> QED  BY <1>2, <1>3, <1>4, <1>5, <1>6

LEMMA PolicyLoadedKeeps ==
  ASSUME Filing!IInv, Filing!PolicyLoaded
  PROVE  Filing!IInv'
<1> USE DEF Filing!IInv
<1>1. /\ ~policy /\ policy' /\ policy' \in BOOLEAN /\ failed' = failed
      /\ IF failed \/ ~file_read
         THEN UNCHANGED <<waiting, told>>
         ELSE waiting' = FALSE /\ told' = IF waiting THEN Append(told, TRUE) ELSE told
      /\ UNCHANGED <<in_file, file_read, read_only_, writer_, runner, report, disk, no_dir,
                     open, early, kept>>
  BY DEF Filing!PolicyLoaded, Filing!OnInitializationCompleted, Filing!TypesOK
<1>2. told # <<>> => failed  BY <1>1 DEF Filing!ClosedForgets
<1>3. Filing!ReadsOnce' /\ Filing!NothingToWrite'
  <2>1. ~file_read => told' = told  BY <1>1
  <2> QED  BY <1>1, <2>1 DEF Filing!ReadsOnce, Filing!NothingToWrite
<1>4. Filing!FileKeeps'  BY <1>1 DEF Filing!FileKeeps, Filing!Latest, Filing!Keeps
<1>5. CASE failed \/ ~file_read
  <2>1. UNCHANGED <<waiting, told>>  BY <1>1, <1>5
  <2>2. Filing!TypesOK'  BY <1>1, <2>1 DEF Filing!TypesOK
  <2>3. Filing!ClosedForgets'  BY <1>1, <2>1 DEF Filing!ClosedForgets
  <2>4. told # <<>> => failed /\ ~file_read  BY <1>2 DEF Filing!ClosedForgets
  <2>5. Filing!InitObserversToldOnce'
    <3>1. CASE told = <<>>
      <4>1. DOMAIN told = {}  BY <3>1
      <4> QED  BY <1>1, <1>5, <2>1, <4>1 DEF Filing!InitObserversToldOnce, Filing!ClosedForgets
    <3>2. CASE told # <<>>
      BY <1>1, <2>1, <2>4, <3>2 DEF Filing!InitObserversToldOnce
    <3> QED  BY <3>1, <3>2
  <2> QED  BY <2>2, <2>3, <2>5, <1>3, <1>4
<1>6. CASE ~failed /\ file_read
  <2>1. waiting' = FALSE /\ told = <<>>  BY <1>1, <1>2, <1>6
  <2>2. told' = <<>> \/ told' = Append(<<>>, TRUE)  BY <1>1, <1>6, <2>1
  <2>3. told' \in Seq(BOOLEAN) /\ waiting' \in BOOLEAN
    <3>1. Append(<<>>, TRUE) \in Seq(BOOLEAN)  BY EmptySeq, AppendProperties
    <3> QED  BY <2>1, <2>2, <3>1, EmptySeq
  <2>4. Filing!TypesOK'  BY <1>1, <2>3 DEF Filing!TypesOK
  <2>5. Filing!ClosedForgets'  BY <1>1, <1>6, <2>1 DEF Filing!ClosedForgets
  <2>6. PICK b : b = TRUE  OBVIOUS
  <2>7. /\ Len(told') <= 1 /\ \A i \in DOMAIN told' : told'[i] = TRUE
    <3>5. Append(<<>>, b) = <<b>>  OBVIOUS
    <3>1. told' = <<>> \/ told' = <<b>>  BY <2>2, <2>6, <3>5, Zenon
    <3>2. Len(<<b>>) = 1 /\ DOMAIN <<b>> = {1} /\ <<b>>[1] = b  OBVIOUS
    <3>3. Len(<<>>) = 0 /\ DOMAIN <<>> = {}  OBVIOUS
    <3>4. \A n \in {0, 1} : n <= 1  OBVIOUS
    <3> QED  BY <2>6, <3>1, <3>2, <3>3, <3>4, Zenon
  <2>8. Filing!InitObserversToldOnce'
    BY <1>1, <1>6, <2>1, <2>7 DEF Filing!InitObserversToldOnce
  <2> QED  BY <2>4, <2>5, <2>8, <1>3, <1>4
<1> QED  BY <1>5, <1>6

LEMMA SetValueKeeps ==
  ASSUME Filing!IInv, NEW k \in FileKeys, NEW v \in Filing!Values, Filing!SetValue(k, v)
  PROVE  Filing!IInv'
<1> USE DEF Filing!IInv
<1>1. /\ open /\ in_file' = [in_file EXCEPT ![k] = v]
      /\ writer_' = (writer_ \/ ~read_only_) /\ early' = (early \/ ~file_read)
      /\ UNCHANGED <<file_read, read_only_, runner, report, disk, no_dir, open,
                     policy, failed, waiting, told, kept>>
  BY DEF Filing!SetValue, Filing!initVars
<1>2. Filing!TypesOK'
  <2>1. in_file' \in Filing!Contents  BY <1>1 DEF Filing!TypesOK, Filing!Contents
  <2>2. writer_' \in BOOLEAN /\ early' \in BOOLEAN  BY <1>1 DEF Filing!TypesOK
  <2> QED  BY <1>1, <2>1, <2>2 DEF Filing!TypesOK
<1>3. Filing!ReadsOnce'  BY <1>1 DEF Filing!ReadsOnce
<1>4. Filing!ClosedForgets'  BY <1>1 DEF Filing!ClosedForgets
<1>5. ~early' => ~early /\ file_read /\ (read_only_ \/ writer_')  BY <1>1
<1>6. Filing!NothingToWrite'
  <2>1. SUFFICES ASSUME ~early' PROVE Filing!NothingToWrite'  BY DEF Filing!NothingToWrite
  <2>2. read_only_ => ~writer_' /\ (runner = <<>> \/ runner[Len(runner)] = Filing!Reading)
    BY <1>1, <1>5, <2>1 DEF Filing!NothingToWrite
  <2> QED  BY <1>1, <1>5, <2>1, <2>2 DEF Filing!NothingToWrite
<1>7. Filing!FileKeeps'  BY <1>1, <1>5 DEF Filing!FileKeeps
<1>8. Filing!InitObserversToldOnce'  BY <1>1 DEF Filing!InitObserversToldOnce
<1> QED  BY <1>2, <1>3, <1>4, <1>6, <1>7, <1>8

(* What is written is what the store has, but for empty values that the    *)
(* defaults stand for.                                                     *)
LEMMA Serialized ==
  ASSUME NEW p \in Filing!Contents
  PROVE  Filing!SerializeData(p) \in Filing!Contents /\ Filing!Keeps(Filing!SerializeData(p), p)
  BY DEF Filing!SerializeData, Filing!Contents, Filing!Values, Filing!Keeps

LEMMA Scheduled ==
  ASSUME Filing!IInv, Filing!DoScheduledWrite
  PROVE  LET data == Filing!SerializeData(in_file) IN
         /\ writer_' = FALSE /\ writer_' \in BOOLEAN
         /\ runner' \in Seq(Filing!Tasks) /\ Filing!Latest' = {data}
         /\ \A i \in DOMAIN runner' : runner'[i] = Filing!Reading =>
              i \in DOMAIN runner /\ runner[i] = Filing!Reading
<1> DEFINE data == Filing!SerializeData(in_file)
<1>1. writer_' = FALSE /\ runner' = Append(runner, {data})  BY DEF Filing!DoScheduledWrite
<1>2. data \in Filing!Contents  BY Serialized DEF Filing!IInv, Filing!TypesOK
<1>3. {data} \in Filing!Tasks /\ {data} # Filing!Reading  BY <1>2, FileValues
<1>4. runner \in Seq(Filing!Tasks)  BY DEF Filing!IInv, Filing!TypesOK
<1> HIDE DEF data
<1>5. /\ runner' \in Seq(Filing!Tasks) /\ runner' # <<>>
      /\ DOMAIN runner' = DOMAIN runner \union {Len(runner) + 1}
      /\ Len(runner') = Len(runner) + 1 /\ runner'[Len(runner')] = {data}
      /\ \A i \in DOMAIN runner : runner'[i] = runner[i]
  BY <1>1, <1>3, <1>4, Queue
<1>6. Filing!Latest' = {data}  BY <1>3, <1>5 DEF Filing!Latest
<1>7. \A i \in DOMAIN runner' : runner'[i] = Filing!Reading =>
              i \in DOMAIN runner /\ runner[i] = Filing!Reading
  BY <1>3, <1>5
<1> QED  BY <1>1, <1>5, <1>6, <1>7 DEF data

LEMMA TimerKeeps ==
  ASSUME Filing!IInv, Filing!Timer
  PROVE  Filing!IInv'
<1> USE DEF Filing!IInv
<1> DEFINE data == Filing!SerializeData(in_file)
<1>1. /\ open /\ writer_
      /\ UNCHANGED <<in_file, file_read, read_only_, report, disk, no_dir, open,
                     policy, failed, waiting, told, early, kept>>
  BY DEF Filing!Timer, Filing!initVars
<1>2. /\ writer_' = FALSE /\ writer_' \in BOOLEAN
      /\ runner' \in Seq(Filing!Tasks) /\ Filing!Latest' = {data}
      /\ \A i \in DOMAIN runner' : runner'[i] = Filing!Reading =>
           i \in DOMAIN runner /\ runner[i] = Filing!Reading
  BY Scheduled DEF Filing!Timer
<1>3. Filing!Keeps(data, in_file)  BY Serialized DEF Filing!TypesOK
<1>4. early \/ (file_read /\ ~read_only_)  BY <1>1 DEF Filing!NothingToWrite
<1> HIDE DEF data
<1>5. Filing!TypesOK'  BY <1>1, <1>2 DEF Filing!TypesOK
<1>6. Filing!ReadsOnce'  BY <1>1, <1>2 DEF Filing!ReadsOnce
<1>7. Filing!ClosedForgets'  BY <1>1, <1>2 DEF Filing!ClosedForgets
<1>8. Filing!NothingToWrite'
  <2>1. ~early' => file_read' /\ ~read_only_'  BY <1>1, <1>4
  <2>2. ~early' => report' = {}
    BY <1>1, <1>4 DEF Filing!ReadsOnce
  <2> QED  BY <2>1, <2>2 DEF Filing!NothingToWrite
<1>9. Filing!FileKeeps'
  BY <1>1, <1>2, <1>3, <1>4 DEF Filing!FileKeeps, Filing!Keeps
<1>10. Filing!InitObserversToldOnce'  BY <1>1 DEF Filing!InitObserversToldOnce
<1> QED  BY <1>5, <1>6, <1>7, <1>8, <1>9, <1>10

LEMMA WriteKeeps ==
  ASSUME Filing!IInv, Filing!Write
  PROVE  Filing!IInv'
<1> USE DEF Filing!IInv
<1>1. PICK data \in Head(runner) :
        disk' = IF no_dir THEN disk ELSE [error |-> "none", value |-> data]
  BY DEF Filing!Write
<1>2. /\ runner # <<>> /\ runner' = Tail(runner)
      /\ UNCHANGED <<in_file, file_read, read_only_, writer_, report, no_dir, open,
                     policy, failed, waiting, told, early, kept>>
  BY DEF Filing!Write, Filing!initVars
<1>3. /\ runner \in Seq(Filing!Tasks) /\ runner' \in Seq(Filing!Tasks)
      /\ 1 \in DOMAIN runner /\ runner[1] = Head(runner) /\ Len(runner) \in DOMAIN runner
      /\ Len(runner') = Len(runner) - 1 /\ Len(runner) \in Nat
      /\ DOMAIN runner' = 1 .. Len(runner) - 1
      /\ \A i \in DOMAIN runner' : runner'[i] = runner[i + 1] /\ i + 1 \in DOMAIN runner
      /\ runner' # <<>> => runner'[Len(runner')] = runner[Len(runner)]
  BY <1>2, Queue DEF Filing!TypesOK
<1>4. runner[1] = {data} /\ data \in Filing!Contents /\ runner[1] # Filing!Reading
  <2>1. runner[1] \in Filing!Tasks  BY <1>3, Queue
  <2> QED  BY <1>1, <1>3, <2>1 DEF Filing!Tasks, Filing!Reading
<1>5. \A i \in DOMAIN runner' : runner'[i] = Filing!Reading =>
        i + 1 \in DOMAIN runner /\ runner[i + 1] = Filing!Reading
  BY <1>3
<1>6. disk' \in Filing!Files
  <2>1. CASE no_dir  BY <1>1, <2>1 DEF Filing!TypesOK
  <2>2. CASE ~no_dir  BY <1>1, <1>4, <2>2 DEF Filing!Files
  <2> QED  BY <2>1, <2>2
<1>7. Filing!TypesOK'  BY <1>2, <1>3, <1>6 DEF Filing!TypesOK
<1>8. Filing!ReadsOnce'
  <2>1. ASSUME NEW i \in DOMAIN runner', runner'[i] = Filing!Reading
        PROVE  /\ report' = {} /\ open' /\ ~file_read' /\ ~read_only_' /\ ~failed' /\ told' = <<>>
               /\ \A j \in DOMAIN runner' : runner'[j] = Filing!Reading => i = j
    <3>1. /\ report = {} /\ open /\ ~file_read /\ ~read_only_ /\ ~failed /\ told = <<>>
          /\ \A j \in DOMAIN runner : runner[j] = Filing!Reading => i + 1 = j
      BY <1>5, <2>1 DEF Filing!ReadsOnce
    <3>2. ASSUME NEW j \in DOMAIN runner', runner'[j] = Filing!Reading PROVE i = j
      <4>1. i + 1 = j + 1 /\ i \in Int /\ j \in Int  BY <1>3, <1>5, <3>1, <3>2
      <4> QED  BY <4>1
    <3> QED  BY <1>2, <3>1, <3>2
  <2>2. report # {} => open /\ ~file_read /\ ~read_only_ /\ ~failed /\ told = <<>>
    BY DEF Filing!ReadsOnce
  <2> QED  BY <1>2, <2>1, <2>2 DEF Filing!ReadsOnce
<1>9. Filing!ClosedForgets'  BY <1>1, <1>2 DEF Filing!ClosedForgets
<1>10. ~early => report = {}
  <2>1. report # {} => /\ open /\ ~file_read
                       /\ \A i \in DOMAIN runner : runner[i] # Filing!Reading
    BY DEF Filing!ReadsOnce
  <2> QED  BY <2>1, <1>2, NothingQueued
<1>11. Filing!NothingToWrite'
  <2>1. ~early /\ open /\ (~file_read \/ read_only_) =>
          ~writer_ /\ (runner' = <<>> \/ runner'[Len(runner')] = Filing!Reading)
    BY <1>2, <1>3 DEF Filing!NothingToWrite
  <2>2. ~early /\ ~file_read => in_file = Filing!Nothing  BY DEF Filing!NothingToWrite
  <2> QED  BY <1>2, <1>10, <2>1, <2>2 DEF Filing!NothingToWrite
<1>12. ~no_dir => Filing!Latest' = Filing!Latest
  <2>1. SUFFICES ASSUME ~no_dir PROVE Filing!Latest' = Filing!Latest  OBVIOUS
  <2>2. disk'.value = data  BY <1>1, <2>1
  <2>3. CASE Len(runner) = 1
    <3>1. Filing!Latest = {data}  BY <1>2, <1>4, <2>3, LatestOf
    <3>2. runner' = <<>> /\ Len(runner') = 0  BY <1>3, <2>3, EmptySeq
    <3>3. Filing!Latest' = {disk'.value}  BY <3>2 DEF Filing!Latest
    <3> QED  BY <2>2, <3>1, <3>3
  <2>4. CASE Len(runner) # 1
    <3> DEFINE n == Len(runner)
    <3>1. n > 1 /\ n - 1 \in DOMAIN runner' /\ Len(runner') = n - 1 /\ n \in Nat
      BY <1>3, <2>4
    <3>2. runner'[n - 1] = runner[n] /\ runner' # <<>>
      <4>1. runner' # <<>>  BY <3>1
      <4> QED  BY <1>3, <3>1, <4>1
    <3>3. CASE runner[n] # Filing!Reading
      <4>1. Filing!Latest = runner[n]  BY <1>2, <3>3, LatestOf
      <4>2. Filing!Latest' = runner'[n - 1]  BY <3>1, <3>2, <3>3 DEF Filing!Latest
      <4> QED  BY <3>2, <4>1, <4>2
    <3>4. CASE runner[n] = Filing!Reading
      <4>1. Filing!Latest = runner[n - 1]  BY <3>1, <3>4, LatestOf
      <4>2. Filing!Latest' = IF n - 2 = 0 THEN {disk'.value} ELSE runner'[n - 2]
        <5>1. Len(runner') - 1 = n - 2  BY <3>1
        <5> QED  BY <3>1, <3>2, <3>4, <5>1 DEF Filing!Latest
      <4>3. CASE n = 2
        <5>1. n - 1 = 1 /\ n - 2 = 0  BY <4>3
        <5> QED  BY <1>4, <2>2, <4>1, <4>2, <5>1
      <4>4. CASE n # 2
        <5>1. n - 2 \in DOMAIN runner' /\ (n - 2) + 1 = n - 1 /\ n - 2 # 0  BY <1>3, <3>1, <4>4
        <5> QED  BY <1>3, <4>1, <4>2, <5>1
      <4> QED  BY <4>3, <4>4
    <3> QED  BY <3>3, <3>4
  <2> QED  BY <2>3, <2>4
<1>13. Filing!FileKeeps'
  <2>1. CASE no_dir
    BY <1>2, <2>1 DEF Filing!FileKeeps, Filing!ClosedForgets
  <2>2. CASE ~no_dir
    BY <1>2, <1>12, <2>2 DEF Filing!FileKeeps, Filing!Keeps
  <2> QED  BY <2>1, <2>2
<1>14. Filing!InitObserversToldOnce'  BY <1>2 DEF Filing!InitObserversToldOnce
<1> QED  BY <1>7, <1>8, <1>9, <1>11, <1>13, <1>14

LEMMA CloseKeeps ==
  ASSUME Filing!IInv, Filing!Close
  PROVE  Filing!IInv'
<1> USE DEF Filing!IInv
<1> DEFINE data == Filing!SerializeData(in_file)
<1>1. /\ open /\ report = {} /\ \A i \in DOMAIN runner : runner[i] # Filing!Reading
      /\ open' = FALSE /\ in_file' = Filing!Nothing
      /\ file_read' = FALSE /\ read_only_' = FALSE /\ early' = FALSE
      /\ failed' = FALSE /\ waiting' = FALSE /\ told' = <<>>
      /\ kept' = IF file_read /\ ~read_only_ /\ ~early THEN {in_file} ELSE {}
      /\ UNCHANGED <<report, disk, no_dir, policy>>
  BY DEF Filing!Close
<1>4. /\ writer_' = FALSE /\ writer_' \in BOOLEAN /\ runner' \in Seq(Filing!Tasks)
      /\ \A i \in DOMAIN runner' : runner'[i] # Filing!Reading
  <2>1. CASE writer_ /\ ~read_only_
    <3>1. Filing!DoScheduledWrite  BY <2>1 DEF Filing!Close
    <3> QED  BY <3>1, <1>1, Scheduled
  <2>2. CASE ~(writer_ /\ ~read_only_)
    BY <1>1, <2>2 DEF Filing!Close, Filing!TypesOK
  <2> QED  BY <2>1, <2>2
<1>5. file_read /\ ~read_only_ /\ ~early => \A d \in Filing!Latest' : Filing!Keeps(d, in_file)
  <2>1. CASE writer_ /\ ~read_only_
    <3>1. Filing!DoScheduledWrite  BY <2>1 DEF Filing!Close
    <3>2. Filing!Latest' = {data}  BY <3>1, Scheduled
    <3>3. Filing!Keeps(data, in_file)  BY Serialized DEF Filing!TypesOK
    <3> QED  BY <3>2, <3>3
  <2>2. CASE ~(writer_ /\ ~read_only_)
    <3>1. UNCHANGED runner  BY <2>2 DEF Filing!Close
    <3>2. Filing!Latest' = Filing!Latest  BY <1>1, <3>1 DEF Filing!Latest
    <3> QED  BY <1>1, <2>2, <3>2 DEF Filing!FileKeeps
  <2> QED  BY <2>1, <2>2
<1>6. Filing!TypesOK'
  <2>1. kept' \subseteq Filing!Contents  BY <1>1 DEF Filing!TypesOK
  <2>2. told' \in Seq(BOOLEAN)  BY <1>1
  <2>3. in_file' \in Filing!Contents  BY <1>1, FileValues
  <2>4. /\ open' \in BOOLEAN /\ file_read' \in BOOLEAN /\ read_only_' \in BOOLEAN
        /\ early' \in BOOLEAN /\ failed' \in BOOLEAN /\ waiting' \in BOOLEAN
    BY <1>1
  <2> QED  BY <1>1, <1>4, <2>1, <2>2, <2>3, <2>4 DEF Filing!TypesOK
<1>7. Filing!ReadsOnce'  BY <1>1, <1>4 DEF Filing!ReadsOnce
<1>8. Filing!ClosedForgets'
  <2>1. no_dir => kept' = {}  BY <1>1 DEF Filing!ClosedForgets
  <2>2. no_dir => disk = Filing!NoFile  BY DEF Filing!ClosedForgets
  <2> QED  BY <1>1, <1>4, <2>1, <2>2 DEF Filing!ClosedForgets
<1>9. Filing!NothingToWrite'  BY <1>1 DEF Filing!NothingToWrite
<1>10. Filing!FileKeeps'
  <2>1. \A d \in Filing!Latest', p \in kept' : Filing!Keeps(d, p)  BY <1>1, <1>5
  <2> QED  BY <1>1, <2>1 DEF Filing!FileKeeps, Filing!Keeps
<1>11. Filing!InitObserversToldOnce'
  <2>1. Len(told') = 0 /\ DOMAIN told' = {}  BY <1>1
  <2> QED  BY <1>1, <2>1 DEF Filing!InitObserversToldOnce
<1> QED  BY <1>6, <1>7, <1>8, <1>9, <1>10, <1>11

LEMMA FileInit == Filing!Init => Filing!IInv
<1> SUFFICES ASSUME Filing!Init PROVE Filing!IInv  OBVIOUS
<1>1. /\ in_file = Filing!Nothing /\ file_read = FALSE /\ read_only_ = FALSE /\ writer_ = FALSE
      /\ runner = <<>> /\ report = {} /\ disk \in Filing!Files
      /\ no_dir \in BOOLEAN /\ (no_dir => disk = Filing!NoFile)
      /\ open = FALSE /\ policy \in BOOLEAN /\ failed = FALSE
      /\ waiting = FALSE /\ told = <<>> /\ early = FALSE /\ kept = {}
  BY DEF Filing!Init
<1>2. /\ DOMAIN runner = {} /\ DOMAIN told = {} /\ Len(told) = 0
      /\ runner \in Seq(Filing!Tasks) /\ told \in Seq(BOOLEAN)
  BY <1>1, EmptySeq
<1>3. Filing!TypesOK
  <2>1. /\ open \in BOOLEAN /\ file_read \in BOOLEAN /\ read_only_ \in BOOLEAN
        /\ early \in BOOLEAN /\ failed \in BOOLEAN /\ waiting \in BOOLEAN /\ writer_ \in BOOLEAN
    BY <1>1
  <2> QED  BY <1>1, <1>2, <2>1, FileValues DEF Filing!TypesOK
<1>4. Filing!ReadsOnce /\ Filing!NothingToWrite
  BY <1>1, <1>2 DEF Filing!ReadsOnce, Filing!NothingToWrite
<1>5. Filing!ClosedForgets  BY <1>1 DEF Filing!ClosedForgets
<1>6. Filing!FileKeeps  BY <1>1 DEF Filing!FileKeeps
<1>7. Filing!InitObserversToldOnce  BY <1>1, <1>2 DEF Filing!InitObserversToldOnce
<1> QED  BY <1>3, <1>4, <1>5, <1>6, <1>7 DEF Filing!IInv

LEMMA FileNextKeeps ==
  ASSUME Filing!IInv, [Filing!Next]_(Filing!vars)
  PROVE  Filing!IInv'
<1>1. CASE UNCHANGED Filing!vars
  BY <1>1 DEF Filing!vars, Filing!IInv, Filing!TypesOK, Filing!ReadsOnce, Filing!ClosedForgets,
     Filing!NothingToWrite, Filing!FileKeeps, Filing!Keeps, Filing!Latest,
     Filing!InitObserversToldOnce
<1>2. CASE Filing!Next
  BY <1>2, ReadPrefsKeeps, ReadPrefsAsyncKeeps, ReadFileAndReportKeeps,
     ReportOnOriginThreadKeeps, SetValueKeeps, AddInitObserverKeeps, PolicyLoadedKeeps,
     TimerKeeps, WriteKeeps, CloseKeeps DEF Filing!Next
<1> QED  BY <1>1, <1>2

(* What a store has left to write, step by step.                           *)
LEMMA NothingNewIsOwed ==
  ASSUME Filing!IInv, [Filing!Next]_(Filing!vars), open,
         \A i \in DOMAIN runner : runner[i] # Filing!Reading
  PROVE  /\ (~file_read \/ read_only_) /\ ~early => disk' = disk
         /\ read_only_ => /\ Filing!Owed' <= Filing!Owed
                          /\ disk' # disk => Filing!Owed' < Filing!Owed
                          /\ ~open' => runner' = runner
<1>1. /\ runner \in Seq(Filing!Tasks) /\ Len(runner) \in Nat /\ writer_ \in BOOLEAN
      /\ runner # <<>> => /\ Head(runner) # Filing!Reading /\ Tail(runner) \in Seq(Filing!Tasks)
                          /\ Len(Tail(runner)) = Len(runner) - 1
  BY Queue DEF Filing!IInv, Filing!TypesOK
<1>2. ~Filing!ReadPrefs /\ ~Filing!ReadPrefsAsync /\ ~Filing!ReadFileAndReport
  BY <1>1 DEF Filing!ReadPrefs, Filing!ReadPrefsAsync, Filing!ReadFileAndReport
<1>3. disk' = disk \/ Filing!Write
  BY <1>2 DEF Filing!Next, Filing!vars, Filing!ReportOnOriginThread, Filing!SetValue,
     Filing!AddInitObserver, Filing!PolicyLoaded, Filing!Timer, Filing!Close
<1>4. (~file_read \/ read_only_) /\ ~early => disk' = disk
  BY <1>3, NothingQueued DEF Filing!Write
<1>5. ASSUME read_only_
      PROVE  /\ Filing!Owed' <= Filing!Owed
             /\ disk' # disk => Filing!Owed' < Filing!Owed
             /\ ~open' => runner' = runner
  <2>1. ~Filing!ReportOnOriginThread
    BY <1>5 DEF Filing!ReportOnOriginThread, Filing!IInv, Filing!ReadsOnce
  <2>2. Filing!Owed \in Nat  BY <1>1 DEF Filing!Owed
  <2>3. CASE UNCHANGED <<runner, writer_, disk, open>>  BY <2>2, <2>3 DEF Filing!Owed
  <2>4. CASE Filing!Timer
    <3>1. /\ writer_ /\ writer_' = FALSE /\ UNCHANGED <<disk, open>>
          /\ runner' = Append(runner, {Filing!SerializeData(in_file)})
      BY <2>4 DEF Filing!Timer, Filing!DoScheduledWrite
    <3>2. Filing!SerializeData(in_file) \in Filing!Contents
      BY Serialized DEF Filing!IInv, Filing!TypesOK
    <3>3. {Filing!SerializeData(in_file)} \in Filing!Tasks  BY <3>2, FileValues
    <3>4. Len(runner') = Len(runner) + 1  BY <1>1, <3>1, <3>3, Queue
    <3>5. Filing!Owed' = Filing!Owed  BY <1>1, <3>1, <3>4 DEF Filing!Owed
    <3> QED  BY <2>2, <3>1, <3>5
  <2>5. CASE Filing!Write
    <3>1. runner # <<>> /\ runner' = Tail(runner) /\ UNCHANGED <<writer_, open>>
      BY <2>5 DEF Filing!Write
    <3>2. Filing!Owed' = Filing!Owed - 1  BY <1>1, <3>1 DEF Filing!Owed
    <3> QED  BY <2>2, <3>1, <3>2
  <2>6. CASE Filing!Close
    <3>1. writer_' = FALSE /\ UNCHANGED <<runner, disk>>  BY <1>5, <2>6 DEF Filing!Close
    <3>2. Filing!Owed' <= Filing!Owed  BY <1>1, <3>1 DEF Filing!Owed
    <3> QED  BY <3>1, <3>2
  <2>7. \/ UNCHANGED <<runner, writer_, disk, open>>
        \/ Filing!Timer \/ Filing!Write \/ Filing!Close
    <3>1. \A k \in FileKeys, v \in Filing!Values :
            Filing!SetValue(k, v) => UNCHANGED <<runner, writer_, disk, open>>
      BY <1>1, <1>5 DEF Filing!SetValue
    <3> QED
      BY <1>2, <2>1, <3>1 DEF Filing!Next, Filing!vars, Filing!AddInitObserver, Filing!PolicyLoaded
  <2> QED  BY <2>3, <2>4, <2>5, <2>6, <2>7
<1> QED  BY <1>4, <1>5

LEMMA FileIsFound ==
  ASSUME Filing!IInv, [Filing!Next]_(Filing!vars),
         ~file_read, file_read', ~read_only_', ~early
  PROVE  \A p \in kept : Filing!Keeps(in_file', p)
<1>1. /\ in_file = Filing!Nothing
      /\ \A data \in Filing!Latest, p \in kept : Filing!Keeps(data, p)
  BY DEF Filing!IInv, Filing!NothingToWrite, Filing!FileKeeps
<1>2. ASSUME NEW result \in Filing!Results, Filing!OnFileRead(result),
             result.error = "access" \/ result.value = disk.value,
             Filing!Latest = {disk.value}
      PROVE  \A p \in kept : Filing!Keeps(in_file', p)
  <2>1. /\ ~no_dir /\ result.error # "access"
        /\ in_file' = IF result.error = "none" THEN result.value ELSE in_file
    BY <1>2 DEF Filing!OnFileRead
  <2>2. in_file' = disk.value  BY <1>1, <1>2, <2>1, FileValues
  <2> QED  BY <1>1, <1>2, <2>2
<1>3. CASE Filing!ReadPrefs
  <2>1. PICK result \in {disk, Filing!Unreadable} :
          Filing!DoReading(result) /\ Filing!OnFileRead(result)
    BY <1>3 DEF Filing!ReadPrefs
  <2>2. runner = <<>>  BY <1>3 DEF Filing!ReadPrefs
  <2>3. Filing!Latest = {disk.value}  BY <2>2, LatestOf DEF Filing!IInv
  <2> QED  BY <2>1, <2>3, <1>2, ReadingMovesAside
<1>4. CASE Filing!ReportOnOriginThread
  <2>1. PICK result \in report : Filing!OnFileRead(result)
    BY <1>4 DEF Filing!ReportOnOriginThread
  <2>2. open /\ \A i \in DOMAIN runner : runner[i] # Filing!Reading
    BY <2>1 DEF Filing!IInv, Filing!ReadsOnce
  <2>3. Filing!Latest = {disk.value}
    BY <2>2, LatestOf, NothingQueued DEF Filing!IInv
  <2>4. result \in Filing!Results /\ (result.error = "access" \/ result.value = disk.value)
    BY <2>1 DEF Filing!IInv, Filing!TypesOK, Filing!NothingToWrite
  <2> QED  BY <2>1, <2>3, <2>4, <1>2
<1>5. Filing!ReadPrefs \/ Filing!ReportOnOriginThread
  BY DEF Filing!Next, Filing!vars, Filing!ReadPrefsAsync, Filing!ReadFileAndReport,
     Filing!SetValue, Filing!AddInitObserver, Filing!PolicyLoaded, Filing!Timer,
     Filing!Write, Filing!Close
<1> QED  BY <1>3, <1>4, <1>5

(* JsonPrefStore with its file, its runner and its writer: the invariant   *)
(* that says what will be in the file when the tasks have run.             *)
THEOREM FileInvariance == Filing!Spec => []Filing!IInv
  BY FileInit, FileNextKeeps, PTL DEF Filing!Spec

(* The observers of the initialization (AddPrefInitObserver, PrefValue-    *)
(* Store::OnInitializationCompleted) are told once at most, and the truth, *)
(* and none is left waiting when the file is read and the policy is there. *)
THEOREM FileObserversAreToldOnce == Filing!Spec => []InitObserversToldOnce
<1>1. Filing!IInv => InitObserversToldOnce  BY DEF Filing!IInv, InitObserversToldOnce
<1> QED  BY <1>1, FileInvariance, PTL

(* What a store is closed with is what it is opened with again: no change  *)
(* is lost between ScheduleWrite, the timer, CommitPendingWrite and the    *)
(* reading of the file.                                                    *)
THEOREM FileReopensAsClosed == Filing!Spec => ReopenedAsClosed
<1>1. Filing!IInv /\ [Filing!Next]_(Filing!vars) =>
        [(~file_read /\ file_read' /\ ~read_only_' /\ ~early) =>
           \A p \in kept : \A k \in FileKeys :
            \/ in_file'[k] = p[k]
            \/ k \notin Marked /\ p[k] = "empty" /\ in_file'[k] = "none"]_(Filing!vars)
  BY FileIsFound DEF Filing!Keeps
<1> QED
  BY <1>1, FileInvariance, PTL DEF Filing!Spec, ReopenedAsClosed, Filing!ReopenedAsClosed

(* ReadOnly: until the store has its file, and when it could not be read,  *)
(* the file is left alone, unless a value was set before the reading       *)
(* ended; and even then a read-only store writes no more than what was     *)
(* scheduled by then, whatever values are set later.                       *)
THEOREM ReadOnlyStoreWritesNothingNew == Filing!Spec => ReadOnlyWritesNothingNew
<1>1. Filing!IInv /\ [Filing!Next]_(Filing!vars) =>
        [open /\ (\A i \in DOMAIN runner : runner[i] # Filing!Reading) =>
           /\ (~file_read \/ read_only_) /\ ~early => disk' = disk
           /\ read_only_ => /\ Filing!Owed' <= Filing!Owed
                            /\ disk' # disk => Filing!Owed' < Filing!Owed
                            /\ ~open' => runner' = runner]_(Filing!vars)
  BY NothingNewIsOwed
<1> QED
  BY <1>1, FileInvariance, PTL
  DEF Filing!Spec, ReadOnlyWritesNothingNew, Filing!ReadOnlyWritesNothingNew

(* The PrefServices.  What a service layers is decided for every key.      *)
LEMMA CurrentIsKnowledge ==
  ASSUME Preferring!TypesOK, NEW s, NEW k \in PrefKeys
  PROVE  Preferring!Current(s, k) \in Preferring!Knowledge
<1> DEFINE l == Preferring!Layers(s, k)
           S == {j \in DOMAIN l : l[j] \in PrefValues}
           n == Preferring!Min(S)
<1>1. DOMAIN l = 1 .. 4 /\ l[4] = defaults_[k]  BY DEF Preferring!Layers
<1>2. defaults_[k] \in PrefValues  BY DEF Preferring!TypesOK
<1>3. S \in SUBSET Nat /\ S # {}  BY <1>1, <1>2
<1> HIDE DEF S
<1>4. n \in S
  <2>1. \E x \in S : \A y \in S : x <= y  BY <1>3, LeastElement
  <2> QED  BY <2>1 DEF Preferring!Min
<1>5. l[n] \in PrefValues  BY <1>4 DEF S
<1>6. Preferring!GetValue(s, k) = l[n]  BY DEF Preferring!GetValue, S
<1> HIDE DEF n, l
<1>7. Preferring!GetValue(s, k) \in PrefValues  BY <1>5, <1>6
<1> QED  BY <1>7 DEF Preferring!Current, Preferring!Knowledge

LEMMA SameCurrent ==
  ASSUME NEW s, NEW k, managed'[k] = managed[k], command_line'[k] = command_line[k],
         Preferring!UserValue(s, k)' = Preferring!UserValue(s, k), defaults_'[k] = defaults_[k]
  PROVE  Preferring!Current(s, k)' = Preferring!Current(s, k)
  BY DEF Preferring!Current, Preferring!GetValue, Preferring!Layers,
         Preferring!ControllingPrefStoreForPref

(* A notification under way, or one of several, owes m a call.             *)
FrameOwes(o, f, m) ==
    /\ f.key = KeyOf[m]
    /\ m \in f.now \/ (m \notin Profile
                       /\ (f.next = "keeper" \/ (f.next = "overlay" /\ o[f.key] = "none")))
CallsOwe(o, c, m) == \E j \in DOMAIN c : FrameOwes(o, c[j], m)

Informed(o, c, m) ==
    \/ internal_[m] = {}
    \/ CallsOwe(o, c, m)
    \/ <<Preferring!ServiceOf(m), KeyOf[m]>> \in silent
    \/ Preferring!Knows(m) = {Preferring!Current(Preferring!ServiceOf(m), KeyOf[m])}

LEMMA KnowOrOwedIs ==
  /\ Preferring!KnowOrOwed <=> \A m \in observing : Informed(overlay_, notifying, m)
  /\ Preferring!KnowOrOwed' <=> (\A m \in observing : Informed(overlay_, notifying, m))'
  BY DEF Preferring!KnowOrOwed, Preferring!Owes, Preferring!LetsThrough, Preferring!OverlayAsks,
         Informed, CallsOwe, FrameOwes

(* The stack of the notifications grows, ...                               *)
LEMMA Pushed ==
  ASSUME NEW c \in Seq(Preferring!Frames), NEW f \in Preferring!Frames, NEW o1, NEW o2, NEW m
  PROVE  LET r == Append(c, f) IN
         /\ r \in Seq(Preferring!Frames)
         /\ CallsOwe(o1, c, m) /\ (m \in Profile \/ o1[KeyOf[m]] = o2[KeyOf[m]])
              => CallsOwe(o2, r, m)
         /\ FrameOwes(o2, f, m) => CallsOwe(o2, r, m)
<1> DEFINE r == Append(c, f)
<1>1. /\ r \in Seq(Preferring!Frames) /\ DOMAIN r = DOMAIN c \union {Len(c) + 1}
      /\ Len(r) = Len(c) + 1 /\ r[Len(r)] = f /\ \A j \in DOMAIN c : r[j] = c[j]
  BY Queue
<1> HIDE DEF r
<1>2. CallsOwe(o1, c, m) /\ (m \in Profile \/ o1[KeyOf[m]] = o2[KeyOf[m]]) => CallsOwe(o2, r, m)
  BY <1>1 DEF CallsOwe, FrameOwes
<1>3. FrameOwes(o2, f, m) => CallsOwe(o2, r, m)
  <2>1. Len(c) + 1 \in DOMAIN r /\ r[Len(c) + 1] = f  BY <1>1
  <2> QED  BY <2>1 DEF CallsOwe
<1> QED  BY <1>1, <1>2, <1>3 DEF r

(* ... changes at its top ...                                              *)
LEMMA TopReplaced ==
  ASSUME NEW c \in Seq(Preferring!Frames), c # <<>>, NEW f \in Preferring!Frames, NEW o, NEW m,
         FrameOwes(o, c[Len(c)], m) => FrameOwes(o, f, m)
  PROVE  LET r == [c EXCEPT ![Len(c)] = f] IN
         r \in Seq(Preferring!Frames) /\ (CallsOwe(o, c, m) => CallsOwe(o, r, m))
<1> DEFINE r == [c EXCEPT ![Len(c)] = f]
<1>1. Len(c) \in DOMAIN c /\ DOMAIN c = 1 .. Len(c)  BY Queue
<1>2. r \in Seq(Preferring!Frames)  BY <1>1, ExceptSeq
<1>3. /\ DOMAIN r = DOMAIN c /\ \A j \in DOMAIN c : r[j] = IF j = Len(c) THEN f ELSE c[j]
  BY <1>1
<1> HIDE DEF r
<1>4. CallsOwe(o, c, m) => CallsOwe(o, r, m)  BY <1>1, <1>3 DEF CallsOwe
<1> QED  BY <1>2, <1>4 DEF r

(* ... and shrinks.                                                        *)
LEMMA Popped ==
  ASSUME NEW c \in Seq(Preferring!Frames), c # <<>>, NEW o, NEW m, ~FrameOwes(o, c[Len(c)], m)
  PROVE  LET r == SubSeq(c, 1, Len(c) - 1) IN
         r \in Seq(Preferring!Frames) /\ (CallsOwe(o, c, m) => CallsOwe(o, r, m))
<1> DEFINE r == SubSeq(c, 1, Len(c) - 1)
<1>1. Len(c) \in DOMAIN c /\ DOMAIN c = 1 .. Len(c) /\ Len(c) \in Nat  BY Queue
<1>2. \A j \in 1 .. Len(c) - 1 : c[j] \in Preferring!Frames  BY <1>1, Queue
<1>3. /\ r \in Seq(Preferring!Frames) /\ DOMAIN r = 1 .. Len(c) - 1
      /\ \A j \in 1 .. Len(c) - 1 : r[j] = c[j]
  <2>1. r = [j \in 1 .. Len(c) - 1 |-> c[j]]  BY <1>1
  <2>2. r \in [1 .. Len(c) - 1 -> Preferring!Frames]  BY <1>2, <2>1
  <2>3. Len(c) - 1 \in Nat  BY <1>1
  <2> HIDE DEF r
  <2>4. r \in Seq(Preferring!Frames)  BY <2>2, <2>3, SeqDef
  <2> QED  BY <2>1, <2>4
<1> HIDE DEF r
<1>4. CallsOwe(o, c, m) => CallsOwe(o, r, m)
  <2>1. SUFFICES ASSUME NEW j \in DOMAIN c, FrameOwes(o, c[j], m) PROVE CallsOwe(o, r, m)
    BY DEF CallsOwe
  <2>2. j \in DOMAIN r /\ r[j] = c[j]  BY <1>1, <1>3, <2>1
  <2> QED  BY <2>1, <2>2 DEF CallsOwe
<1> QED  BY <1>3, <1>4 DEF r

StoresTyped ==
    /\ managed \in [PrefKeys -> Preferring!Stored] /\ command_line \in [PrefKeys -> Preferring!Stored]
    /\ prefs_ \in [PrefKeys -> Preferring!Stored] /\ overlay_ \in [PrefKeys -> Preferring!Stored]
    /\ defaults_ \in [PrefKeys -> PrefValues]

(* What m may find when only the stores and the notifications change.      *)
LEMMA MembersStay ==
  ASSUME UNCHANGED <<internal_, moved, posted, observing>>, NEW m \in observing,
         Informed(overlay_, notifying, m),
         <<Preferring!ServiceOf(m), KeyOf[m]>> \in silent
             => \/ <<Preferring!ServiceOf(m), KeyOf[m]>> \in silent'
                \/ CallsOwe(overlay_', notifying', m),
         CallsOwe(overlay_, notifying, m) => CallsOwe(overlay_', notifying', m),
         \/ <<Preferring!ServiceOf(m), KeyOf[m]>> \in silent'
         \/ CallsOwe(overlay_', notifying', m)
         \/ Preferring!Current(Preferring!ServiceOf(m), KeyOf[m])'
              = Preferring!Current(Preferring!ServiceOf(m), KeyOf[m])
  PROVE  Informed(overlay_, notifying, m)'
<1>1. Preferring!Knows(m)' = Preferring!Knows(m)  BY DEF Preferring!Knows
<1>2. Preferring!ServiceOf(m)' = Preferring!ServiceOf(m)  BY DEF Preferring!ServiceOf
<1>3. CallsOwe(overlay_', notifying', m) => CallsOwe(overlay_, notifying, m)'
  BY DEF CallsOwe, FrameOwes
<1> QED  BY <1>1, <1>2, <1>3 DEF Informed

LEMMA NotifyKeeps ==
  ASSUME Preferring!IInv, NEW s \in Preferring!Services, NEW k \in PrefKeys,
         NEW next \in {"keeper", "overlay"}, s = "profile" \/ next = "overlay",
         Preferring!Notify(s, k, IF s = "profile" THEN next ELSE ""),
         UNCHANGED <<internal_, moved, posted, observing>>, StoresTyped',
         \A j \in PrefKeys : j # k =>
            /\ managed'[j] = managed[j] /\ command_line'[j] = command_line[j]
            /\ prefs_'[j] = prefs_[j] /\ overlay_'[j] = overlay_[j] /\ defaults_'[j] = defaults_[j],
         \* what one service is told of is not seen by the other
         s = "profile" => overlay_' = overlay_,
         s = "profile" /\ next = "overlay" =>
            UNCHANGED <<managed, command_line, defaults_, overlay_>>,
         s = "incognito" => UNCHANGED <<managed, command_line, prefs_, defaults_>>
  PROVE  Preferring!IInv'
<1> USE DEF Preferring!IInv
<1> DEFINE f == [key |-> k, now |-> Preferring!Observers(s, k),
                 next |-> IF s = "profile" THEN next ELSE "", calling |-> FALSE]
<1>1. notifying' = Append(notifying, f) /\ silent' = silent \ {<<s, k>>}
  BY DEF Preferring!Notify
<1>2. notifying \in Seq(Preferring!Frames)  BY DEF Preferring!TypesOK
<1>3. f \in Preferring!Frames
  BY DEF Preferring!Frames, Preferring!Observers, Preferring!TypesOK
<1>4. /\ f.key = k /\ f.now = Preferring!Observers(s, k)
      /\ f.next = IF s = "profile" THEN next ELSE ""
  OBVIOUS
<1> HIDE DEF f
<1>5. notifying' \in Seq(Preferring!Frames)  BY <1>1, <1>2, <1>3, Pushed
<1>6. Preferring!TypesOK' /\ Preferring!MovedKnow'
  BY <1>5 DEF StoresTyped, Preferring!TypesOK, Preferring!MovedKnow
<1>7. ASSUME NEW m \in observing PROVE Informed(overlay_, notifying, m)'
  <2> DEFINE sm == Preferring!ServiceOf(m)
             km == KeyOf[m]
  <2>1. Informed(overlay_, notifying, m)  BY KnowOrOwedIs
  <2>2. km \in PrefKeys  BY MembersAssumption DEF Preferring!TypesOK
  <2>3. CASE sm = s /\ km = k
    <3>1. m \in f.now /\ f.key = KeyOf[m]  BY <1>4, <2>3 DEF Preferring!Observers
    <3>2. CallsOwe(overlay_', notifying', m)  BY <1>1, <1>2, <1>3, <3>1, Pushed DEF FrameOwes
    <3> QED  BY <2>1, <3>2, MembersStay
  <2>4. CASE sm # s /\ km = k /\ s = "profile"
                    /\ (next = "keeper" \/ overlay_[k] = "none")
    <3>1. m \notin Profile  BY <2>4 DEF Preferring!ServiceOf
    <3>2. FrameOwes(overlay_', f, m)  BY <1>4, <2>4, <3>1 DEF FrameOwes
    <3>3. CallsOwe(overlay_', notifying', m)  BY <1>1, <1>2, <1>3, <3>2, Pushed
    <3> QED  BY <2>1, <3>3, MembersStay
  <2>5. CASE \/ km # k
             \/ sm # s /\ s = "incognito"
             \/ sm # s /\ s = "profile" /\ next = "overlay" /\ overlay_[k] # "none"
    <3>1. Preferring!Current(sm, km)' = Preferring!Current(sm, km)
      <4>1. /\ managed'[km] = managed[km] /\ command_line'[km] = command_line[km]
            /\ defaults_'[km] = defaults_[km]
        BY <2>2, <2>5
      <4>2. Preferring!UserValue(sm, km)' = Preferring!UserValue(sm, km)
        <5>1. CASE km # k  BY <2>2, <5>1 DEF Preferring!UserValue
        <5>2. CASE km = k /\ sm # s /\ s = "incognito"
          <6>1. prefs_' = prefs_ /\ sm # "incognito"  BY <5>2
          <6> QED  BY <6>1 DEF Preferring!UserValue
        <5>3. CASE km = k /\ sm # s /\ s = "profile" /\ overlay_[k] # "none"
          <6>1. sm = "incognito" /\ overlay_' = overlay_
            BY <5>3 DEF Preferring!ServiceOf
          <6> QED  BY <5>3, <6>1 DEF Preferring!UserValue
        <5> QED  BY <2>5, <5>1, <5>2, <5>3
      <4>3. Preferring!ServiceOf(m)' = Preferring!ServiceOf(m)  BY DEF Preferring!ServiceOf
      <4> HIDE DEF sm, km
      <4> QED  BY <4>1, <4>2, SameCurrent
    <3>2. m \in Profile \/ overlay_[km] = overlay_'[km]
      <4>1. CASE km # k  BY <2>2, <4>1
      <4>2. CASE s = "profile"  BY <4>2
      <4>3. CASE sm # s /\ s = "incognito"  BY <4>3 DEF Preferring!ServiceOf
      <4> QED  BY <2>5, <4>1, <4>2, <4>3
    <3>3. CallsOwe(overlay_, notifying, m) => CallsOwe(overlay_', notifying', m)
      BY <1>1, <1>2, <1>3, <3>2, Pushed
    <3>4. <<sm, km>> \in silent => <<sm, km>> \in silent'  BY <1>1, <2>5
    <3> QED  BY <2>1, <3>1, <3>3, <3>4, MembersStay
  <2> QED  BY <2>3, <2>4, <2>5 DEF Preferring!Services, Preferring!ServiceOf
<1>8. Preferring!KnowOrOwed'  BY <1>7, KnowOrOwedIs
<1> QED  BY <1>6, <1>8

(* Changes that come without a word.                                       *)
LEMMA SilentlyKeeps ==
  ASSUME Preferring!IInv, StoresTyped', UNCHANGED <<internal_, moved, posted, observing>>,
         UNCHANGED <<notifying, overlay_>>, silent \subseteq silent',
         \A k \in PrefKeys :
            \/ \A s \in Preferring!Services : <<s, k>> \in silent'
            \/ /\ managed'[k] = managed[k] /\ command_line'[k] = command_line[k]
               /\ prefs_'[k] = prefs_[k] /\ defaults_'[k] = defaults_[k]
  PROVE  Preferring!IInv'
<1> USE DEF Preferring!IInv
<1>1. Preferring!TypesOK' /\ Preferring!MovedKnow'
  BY DEF StoresTyped, Preferring!TypesOK, Preferring!MovedKnow
<1>2. ASSUME NEW m \in observing PROVE Informed(overlay_, notifying, m)'
  <2> DEFINE sm == Preferring!ServiceOf(m)
             km == KeyOf[m]
  <2>1. Informed(overlay_, notifying, m)  BY KnowOrOwedIs
  <2>2. km \in PrefKeys /\ sm \in Preferring!Services
    BY MembersAssumption DEF Preferring!TypesOK, Preferring!ServiceOf, Preferring!Services
  <2>3. <<sm, km>> \in silent' \/ Preferring!Current(sm, km)' = Preferring!Current(sm, km)
    <3>1. SUFFICES ASSUME <<sm, km>> \notin silent'
                   PROVE  Preferring!Current(sm, km)' = Preferring!Current(sm, km)
      OBVIOUS
    <3>2. /\ managed'[km] = managed[km] /\ command_line'[km] = command_line[km]
          /\ prefs_'[km] = prefs_[km] /\ defaults_'[km] = defaults_[km]
      BY <2>2, <3>1
    <3>3. Preferring!UserValue(sm, km)' = Preferring!UserValue(sm, km)
      BY <3>2 DEF Preferring!UserValue
    <3> QED  BY <3>2, <3>3, SameCurrent DEF Preferring!ServiceOf
  <2> QED  BY <2>1, <2>3, MembersStay
<1>3. Preferring!KnowOrOwed'  BY <1>2, KnowOrOwedIs
<1> QED  BY <1>1, <1>3

LEMMA StoresAreTyped == Preferring!TypesOK => StoresTyped
  BY DEF Preferring!TypesOK, StoresTyped

LEMMA SetUserPrefValueKeeps ==
  ASSUME Preferring!IInv, NEW s \in Preferring!Services, NEW k \in PrefKeys,
         NEW v \in Preferring!Stored, Preferring!SetUserPrefValue(s, k, v)
  PROVE  Preferring!IInv'
<1>1. StoresTyped  BY StoresAreTyped DEF Preferring!IInv
<1>2. UNCHANGED <<managed, command_line, defaults_, internal_, moved, posted, observing>>
  BY DEF Preferring!SetUserPrefValue, Preferring!memberVars
<1>3. CASE s = "incognito" /\ k \in overlaid
  <2>1. /\ overlay_' = [overlay_ EXCEPT ![k] = v] /\ UNCHANGED prefs_
        /\ Preferring!Notify(s, k, "")
    BY <1>3 DEF Preferring!SetUserPrefValue, Preferring!SetOverlay
  <2>2. StoresTyped' /\ \A j \in PrefKeys : j # k => overlay_'[j] = overlay_[j]
    BY <1>1, <1>2, <2>1 DEF StoresTyped
  <2>3. s # "profile"  BY <1>3
  <2> QED  BY <1>2, <1>3, <2>1, <2>2, <2>3, NotifyKeeps
<1>4. CASE ~(s = "incognito" /\ k \in overlaid)
  <2>1. /\ prefs_' = [prefs_ EXCEPT ![k] = v] /\ UNCHANGED overlay_
        /\ Preferring!Notify("profile", k, "overlay")
    BY <1>4 DEF Preferring!SetUserPrefValue
  <2>2. StoresTyped' /\ \A j \in PrefKeys : j # k => prefs_'[j] = prefs_[j]
    BY <1>1, <1>2, <2>1 DEF StoresTyped
  <2>3. "profile" \in Preferring!Services  BY DEF Preferring!Services
  <2> QED  BY <1>2, <2>1, <2>2, <2>3, NotifyKeeps
<1> QED  BY <1>3, <1>4

LEMMA SetManagedKeeps ==
  ASSUME Preferring!IInv, NEW k \in PrefKeys, NEW v \in Preferring!Stored,
         Preferring!SetManaged(k, v)
  PROVE  Preferring!IInv'
<1>1. /\ managed' = [managed EXCEPT ![k] = v] /\ Preferring!Notify("profile", k, "keeper")
      /\ UNCHANGED <<command_line, prefs_, overlay_, defaults_, internal_, moved, posted, observing>>
  BY DEF Preferring!SetManaged, Preferring!memberVars
<1>2. StoresTyped' /\ \A j \in PrefKeys : j # k => managed'[j] = managed[j]
  BY <1>1, StoresAreTyped DEF StoresTyped, Preferring!IInv
<1>3. "profile" \in Preferring!Services  BY DEF Preferring!Services
<1> QED  BY <1>1, <1>2, <1>3, NotifyKeeps

LEMMA ReplaceDefaultValueKeeps ==
  ASSUME Preferring!IInv, NEW k \in PrefKeys, NEW v \in Preferring!Stored,
         Preferring!ReplaceDefaultValue(k, v)
  PROVE  Preferring!IInv'
<1>1. /\ v \in PrefValues /\ defaults_' = [defaults_ EXCEPT ![k] = v]
      /\ Preferring!Notify("profile", k, "keeper")
      /\ UNCHANGED <<managed, command_line, prefs_, overlay_, internal_, moved, posted, observing>>
  BY DEF Preferring!ReplaceDefaultValue, Preferring!memberVars
<1>2. StoresTyped' /\ \A j \in PrefKeys : j # k => defaults_'[j] = defaults_[j]
  BY <1>1, StoresAreTyped DEF StoresTyped, Preferring!IInv
<1>3. "profile" \in Preferring!Services  BY DEF Preferring!Services
<1> QED  BY <1>1, <1>2, <1>3, NotifyKeeps

LEMMA ReportUserPrefChangedKeeps ==
  ASSUME Preferring!IInv, NEW k \in PrefKeys, Preferring!ReportUserPrefChanged(k)
  PROVE  Preferring!IInv'
<1>1. /\ Preferring!Notify("profile", k, "overlay")
      /\ UNCHANGED <<managed, command_line, prefs_, overlay_, defaults_,
                     internal_, moved, posted, observing>>
  BY DEF Preferring!ReportUserPrefChanged, Preferring!memberVars, Preferring!storeVars
<1>2. StoresTyped'  BY <1>1, StoresAreTyped DEF StoresTyped, Preferring!IInv
<1>3. "profile" \in Preferring!Services  BY DEF Preferring!Services
<1> QED  BY <1>1, <1>2, <1>3, NotifyKeeps

LEMMA UpdateCommandLineKeeps ==
  ASSUME Preferring!IInv, NEW k \in PrefKeys, NEW v \in Preferring!Stored,
         Preferring!UpdateCommandLinePrefStore(k, v)
  PROVE  Preferring!IInv'
<1>1. /\ command_line' = [command_line EXCEPT ![k] = v]
      /\ silent' = silent \cup Preferring!Services \X {k}
      /\ UNCHANGED <<managed, prefs_, overlay_, defaults_, internal_, moved, posted, observing,
                     notifying>>
  BY DEF Preferring!UpdateCommandLinePrefStore, Preferring!memberVars
<1>2. StoresTyped' /\ \A j \in PrefKeys : j # k => command_line'[j] = command_line[j]
  BY <1>1, StoresAreTyped DEF StoresTyped, Preferring!IInv
<1>3. \A s \in Preferring!Services : <<s, k>> \in silent'  BY <1>1
<1> QED  BY <1>1, <1>2, <1>3, SilentlyKeeps

LEMMA EditUserPrefKeeps ==
  ASSUME Preferring!IInv, NEW k \in PrefKeys, NEW v \in Preferring!Stored,
         Preferring!EditUserPref(k, v)
  PROVE  Preferring!IInv'
<1>1. /\ prefs_' = [prefs_ EXCEPT ![k] = v]
      /\ silent' = silent \cup Preferring!Services \X {k}
      /\ UNCHANGED <<managed, command_line, overlay_, defaults_, internal_, moved, posted,
                     observing, notifying>>
  BY DEF Preferring!EditUserPref, Preferring!memberVars
<1>2. StoresTyped' /\ \A j \in PrefKeys : j # k => prefs_'[j] = prefs_[j]
  BY <1>1, StoresAreTyped DEF StoresTyped, Preferring!IInv
<1>3. \A s \in Preferring!Services : <<s, k>> \in silent'  BY <1>1
<1> QED  BY <1>1, <1>2, <1>3, SilentlyKeeps

LEMMA FileReadKeeps ==
  ASSUME Preferring!IInv, NEW values \in [PrefKeys -> Preferring!Stored],
         Preferring!FileRead(values)
  PROVE  Preferring!IInv'
<1>1. /\ prefs_' = values
      /\ silent' = silent \cup Preferring!Services \X {k \in PrefKeys : prefs_'[k] # prefs_[k]}
      /\ UNCHANGED <<managed, command_line, overlay_, defaults_, internal_, moved, posted,
                     observing, notifying>>
  BY DEF Preferring!FileRead, Preferring!memberVars
<1>2. StoresTyped'  BY <1>1, StoresAreTyped DEF StoresTyped, Preferring!IInv
<1>3. \A k \in PrefKeys : prefs_'[k] = prefs_[k] \/ \A s \in Preferring!Services : <<s, k>> \in silent'
  BY <1>1
<1> QED  BY <1>1, <1>2, <1>3, SilentlyKeeps

(* The observers of one notification have been called.                     *)
LEMMA NotifyNextKeeps ==
  ASSUME Preferring!IInv, Preferring!NotifyNext
  PROVE  Preferring!IInv'
<1> USE DEF Preferring!IInv
<1> DEFINE c == notifying
           f == c[Len(c)]
           g == [f EXCEPT !.now = Preferring!Observers("incognito", f.key), !.next = "",
                          !.calling = FALSE]
<1>1. /\ c # <<>> /\ f.now \cap observing = {}
      /\ UNCHANGED <<managed, command_line, prefs_, overlay_, defaults_, overlaid,
                     internal_, moved, posted, observing>>
  BY DEF Preferring!NotifyNext, Preferring!Top, Preferring!Depth, Preferring!storeVars,
         Preferring!memberVars
<1>2. c \in Seq(Preferring!Frames) /\ Len(c) \in DOMAIN c /\ f \in Preferring!Frames
  BY <1>1, Queue DEF Preferring!TypesOK
<1>3. /\ g \in Preferring!Frames /\ g.key = f.key /\ g.next = ""
      /\ g.now = Preferring!Observers("incognito", f.key)
  BY <1>2 DEF Preferring!Frames, Preferring!Observers, Preferring!TypesOK
<1>4. \/ /\ notifying' = [c EXCEPT ![Len(c)] = g]
         /\ silent' = silent \ {<<"incognito", f.key>>}
      \/ /\ notifying' = SubSeq(c, 1, Len(c) - 1) /\ UNCHANGED silent
         /\ ~(f.next = "keeper" \/ (f.next = "overlay" /\ overlay_[f.key] = "none"))
  BY <1>1 DEF Preferring!NotifyNext, Preferring!Top, Preferring!Depth, Preferring!LetsThrough,
              Preferring!OverlayAsks
<1> HIDE DEF g
<1>5. CASE /\ notifying' = [c EXCEPT ![Len(c)] = g]
           /\ silent' = silent \ {<<"incognito", f.key>>}
  <2>1. ASSUME NEW m \in observing
        PROVE  /\ notifying' \in Seq(Preferring!Frames)
               /\ CallsOwe(overlay_, notifying, m) => CallsOwe(overlay_, notifying', m)
    <3>1. FrameOwes(overlay_, f, m) => FrameOwes(overlay_, g, m)
      BY <1>1, <1>3 DEF FrameOwes, Preferring!Observers, Preferring!ServiceOf
    <3> HIDE DEF c
    <3> QED  BY <1>1, <1>2, <1>3, <1>5, <3>1, TopReplaced DEF c
  <2>2. notifying' \in Seq(Preferring!Frames)
    <3> HIDE DEF c
    <3>1. Len(c) \in 1 .. Len(c)  BY <1>2, Queue
    <3> QED  BY <1>2, <1>3, <1>5, <3>1, ExceptSeq
  <2>3. Preferring!TypesOK' /\ Preferring!MovedKnow'
    BY <1>1, <2>2 DEF Preferring!TypesOK, Preferring!MovedKnow
  <2>4. ASSUME NEW m \in observing PROVE Informed(overlay_, notifying, m)'
    <3>1. Informed(overlay_, notifying, m)  BY KnowOrOwedIs
    <3>2. <<Preferring!ServiceOf(m), KeyOf[m]>> \in silent
             => \/ <<Preferring!ServiceOf(m), KeyOf[m]>> \in silent'
                \/ CallsOwe(overlay_, notifying', m)
      <4>1. SUFFICES ASSUME Preferring!ServiceOf(m) = "incognito", KeyOf[m] = f.key
                     PROVE  CallsOwe(overlay_, notifying', m)
        BY <1>5
      <4>2. FrameOwes(overlay_, g, m)
        BY <1>3, <4>1 DEF FrameOwes, Preferring!Observers
      <4>3. Len(c) \in DOMAIN notifying' /\ notifying'[Len(c)] = g  BY <1>2, <1>5
      <4> QED  BY <4>2, <4>3 DEF CallsOwe
    <3>3. Preferring!Current(Preferring!ServiceOf(m), KeyOf[m])'
            = Preferring!Current(Preferring!ServiceOf(m), KeyOf[m])
      BY <1>1, SameCurrent DEF Preferring!ServiceOf, Preferring!UserValue
    <3> QED  BY <1>1, <2>1, <3>1, <3>2, <3>3, MembersStay
  <2>5. Preferring!KnowOrOwed'  BY <1>1, <2>4, KnowOrOwedIs
  <2> QED  BY <2>3, <2>5
<1>6. CASE /\ notifying' = SubSeq(c, 1, Len(c) - 1) /\ UNCHANGED silent
           /\ ~(f.next = "keeper" \/ (f.next = "overlay" /\ overlay_[f.key] = "none"))
  <2>1. ASSUME NEW m \in observing
        PROVE  CallsOwe(overlay_, notifying, m) => CallsOwe(overlay_, notifying', m)
    <3>1. ~FrameOwes(overlay_, f, m)  BY <1>1, <1>6 DEF FrameOwes
    <3> HIDE DEF c
    <3> QED  BY <1>1, <1>2, <1>6, <3>1, Popped DEF c
  <2>2. notifying' \in Seq(Preferring!Frames)
    <3>2. \A j \in 1 .. Len(c) - 1 : c[j] \in Preferring!Frames  BY <1>2, Queue
    <3>3. Len(c) - 1 \in Nat  BY <1>2, Queue
    <3>4. notifying' = [j \in 1 .. Len(c) - 1 |-> c[j]]  BY <1>2, <1>6, <3>3
    <3>5. notifying' \in [1 .. Len(c) - 1 -> Preferring!Frames]  BY <3>2, <3>4
    <3> QED  BY <3>3, <3>5, SeqDef
  <2>3. Preferring!TypesOK' /\ Preferring!MovedKnow'
    BY <1>1, <2>2 DEF Preferring!TypesOK, Preferring!MovedKnow
  <2>4. ASSUME NEW m \in observing PROVE Informed(overlay_, notifying, m)'
    <3>1. Informed(overlay_, notifying, m)  BY KnowOrOwedIs
    <3>2. Preferring!Current(Preferring!ServiceOf(m), KeyOf[m])'
            = Preferring!Current(Preferring!ServiceOf(m), KeyOf[m])
      BY <1>1, SameCurrent DEF Preferring!ServiceOf, Preferring!UserValue
    <3> QED  BY <1>1, <1>6, <2>1, <3>1, <3>2, MembersStay
  <2>5. Preferring!KnowOrOwed'  BY <1>1, <2>4, KnowOrOwedIs
  <2> QED  BY <2>3, <2>5
<1> QED  BY <1>4, <1>5, <1>6

(* A member is updated, here or by a task for its thread.                  *)
LEMMA Updated ==
  ASSUME Preferring!TypesOK, Preferring!MovedKnow, NEW m \in Members,
         NEW v \in Preferring!Knowledge, Preferring!UpdateValue(m, v)
  PROVE  /\ DOMAIN internal_' = Members /\ posted' \in [Members -> Seq(Preferring!Knowledge)]
         /\ \A n \in Members : n # m => internal_'[n] = internal_[n] /\ posted'[n] = posted[n]
         /\ Preferring!Knows(m)' = {v}
         /\ (m \in moved => internal_'[m] = internal_[m])
         /\ (m \notin moved => posted'[m] = <<>>)
<1>1. CASE m \in moved
  <2>1. posted' = [posted EXCEPT ![m] = Append(posted[m], v)] /\ UNCHANGED internal_
    BY <1>1 DEF Preferring!UpdateValue
  <2>2. posted[m] \in Seq(Preferring!Knowledge)  BY DEF Preferring!TypesOK
  <2>3. PICK r : r = Append(posted[m], v)  OBVIOUS
  <2>4. r \in Seq(Preferring!Knowledge) /\ r # <<>> /\ r[Len(r)] = v  BY <2>2, <2>3, Queue
  <2>5. /\ posted' \in [Members -> Seq(Preferring!Knowledge)] /\ posted'[m] = r
        /\ \A n \in Members : n # m => posted'[n] = posted[n]
    BY <2>1, <2>3, <2>4 DEF Preferring!TypesOK
  <2> QED  BY <1>1, <2>1, <2>4, <2>5 DEF Preferring!Knows, Preferring!TypesOK
<1>2. CASE m \notin moved
  <2>1. internal_' = [internal_ EXCEPT ![m] = {v}] /\ UNCHANGED posted /\ posted[m] = <<>>
    BY <1>2 DEF Preferring!UpdateValue, Preferring!MovedKnow
  <2> QED  BY <1>2, <2>1 DEF Preferring!Knows, Preferring!TypesOK
<1> QED  BY <1>1, <1>2

(* What m may find when the stores stay.                                   *)
LEMMA StoresStay ==
  ASSUME UNCHANGED <<managed, command_line, prefs_, overlay_, defaults_, silent>>,
         NEW m, Informed(overlay_, notifying, m),
         CallsOwe(overlay_, notifying, m) => CallsOwe(overlay_, notifying', m),
         internal_[m] = {} => internal_'[m] = {}, Preferring!Knows(m)' = Preferring!Knows(m)
  PROVE  Informed(overlay_, notifying, m)'
<1>1. Preferring!Current(Preferring!ServiceOf(m), KeyOf[m])'
        = Preferring!Current(Preferring!ServiceOf(m), KeyOf[m])
  BY SameCurrent DEF Preferring!ServiceOf, Preferring!UserValue
<1>2. Preferring!ServiceOf(m)' = Preferring!ServiceOf(m)  BY DEF Preferring!ServiceOf
<1>3. CallsOwe(overlay_, notifying', m) => CallsOwe(overlay_, notifying, m)'
  BY DEF CallsOwe, FrameOwes
<1> QED  BY <1>1, <1>2, <1>3 DEF Informed

LEMMA UpToDate ==
  ASSUME UNCHANGED <<managed, command_line, prefs_, overlay_, defaults_>>, NEW m,
         Preferring!Knows(m)' = {Preferring!Current(Preferring!ServiceOf(m), KeyOf[m])}
  PROVE  Informed(overlay_, notifying, m)'
<1>1. Preferring!Current(Preferring!ServiceOf(m), KeyOf[m])'
        = Preferring!Current(Preferring!ServiceOf(m), KeyOf[m])
  BY SameCurrent DEF Preferring!ServiceOf, Preferring!UserValue
<1> QED  BY <1>1 DEF Informed, Preferring!ServiceOf

LEMMA OnPreferenceChangedKeeps ==
  ASSUME Preferring!IInv, NEW x \in Members, Preferring!OnPreferenceChanged(x)
  PROVE  Preferring!IInv'
<1> USE DEF Preferring!IInv
<1> DEFINE c == notifying
           f == c[Len(c)]
           calling == x \notin moved
           g == [f EXCEPT !.now = f.now \ {x}, !.calling = calling]
           v == Preferring!Current(Preferring!ServiceOf(x), KeyOf[x])
<1>1. /\ c # <<>> /\ x \in f.now \cap observing /\ Preferring!UpdateValue(x, v)
      /\ UNCHANGED <<managed, command_line, prefs_, overlay_, defaults_, moved, observing, silent>>
  BY DEF Preferring!OnPreferenceChanged, Preferring!Top, Preferring!Depth, Preferring!storeVars
<1>2. notifying' = [c EXCEPT ![Len(c)] = g]
  BY DEF Preferring!OnPreferenceChanged, Preferring!Depth
<1>3. c \in Seq(Preferring!Frames) /\ Len(c) \in 1 .. Len(c) /\ f \in Preferring!Frames
  BY <1>1, Queue DEF Preferring!TypesOK
<1>4. /\ g \in Preferring!Frames /\ g.key = f.key /\ g.next = f.next /\ g.now = f.now \ {x}
  <2>1. calling \in BOOLEAN  OBVIOUS
  <2> HIDE DEF calling
  <2> QED  BY <1>3, <2>1 DEF Preferring!Frames
<1>5. v \in Preferring!Knowledge
  BY MembersAssumption, CurrentIsKnowledge DEF Preferring!TypesOK
<1> HIDE DEF g, v, c
<1>6. /\ DOMAIN internal_' = Members /\ posted' \in [Members -> Seq(Preferring!Knowledge)]
      /\ \A n \in Members : n # x => internal_'[n] = internal_[n] /\ posted'[n] = posted[n]
      /\ Preferring!Knows(x)' = {v}
      /\ (x \in moved => internal_'[x] = internal_[x])
      /\ (x \notin moved => posted'[x] = <<>>)
  BY <1>1, <1>5, Updated
<1>7. notifying' \in Seq(Preferring!Frames)  BY <1>2, <1>3, <1>4, ExceptSeq
<1>8. Preferring!TypesOK'  BY <1>1, <1>6, <1>7 DEF Preferring!TypesOK
<1>9. Preferring!MovedKnow'  BY <1>1, <1>6 DEF Preferring!MovedKnow
<1>10. ASSUME NEW m \in observing PROVE Informed(overlay_, notifying, m)'
  <2>1. CASE m = x
    <3>1. Preferring!Knows(m)' = {Preferring!Current(Preferring!ServiceOf(m), KeyOf[m])}
      BY <1>6, <2>1 DEF v
    <3> QED  BY <1>1, <3>1, UpToDate
  <2>2. CASE m # x
    <3>1. FrameOwes(overlay_, f, m) => FrameOwes(overlay_, g, m)
      BY <1>4, <2>2 DEF FrameOwes
    <3>2. CallsOwe(overlay_, c, m) => CallsOwe(overlay_, notifying', m)
      BY <1>1, <1>2, <1>3, <1>4, <3>1, TopReplaced
    <3>3. m \in Members  BY DEF Preferring!TypesOK
    <3>4. internal_'[m] = internal_[m] /\ Preferring!Knows(m)' = Preferring!Knows(m)
      BY <1>6, <2>2, <3>3 DEF Preferring!Knows
    <3>5. Informed(overlay_, notifying, m)  BY KnowOrOwedIs
    <3> QED  BY <1>1, <3>2, <3>4, <3>5, StoresStay DEF c
  <2> QED  BY <2>1, <2>2
<1>11. Preferring!KnowOrOwed'  BY <1>1, <1>10, KnowOrOwedIs
<1> QED  BY <1>8, <1>9, <1>11

LEMMA LoadKeeps ==
  ASSUME Preferring!IInv, NEW x \in Members, Preferring!Load(x)
  PROVE  Preferring!IInv'
<1> USE DEF Preferring!IInv
<1> DEFINE v == Preferring!Current(Preferring!ServiceOf(x), KeyOf[x])
<1>1. /\ Preferring!UpdateValue(x, v)
      /\ UNCHANGED <<managed, command_line, prefs_, overlay_, defaults_, moved, observing, silent,
                     notifying>>
  BY DEF Preferring!Load, Preferring!storeVars
<1>2. v \in Preferring!Knowledge
  BY MembersAssumption, CurrentIsKnowledge DEF Preferring!TypesOK
<1> HIDE DEF v
<1>3. /\ DOMAIN internal_' = Members /\ posted' \in [Members -> Seq(Preferring!Knowledge)]
      /\ \A n \in Members : n # x => internal_'[n] = internal_[n] /\ posted'[n] = posted[n]
      /\ Preferring!Knows(x)' = {v}
      /\ (x \in moved => internal_'[x] = internal_[x])
      /\ (x \notin moved => posted'[x] = <<>>)
  BY <1>1, <1>2, Updated
<1>4. Preferring!TypesOK'  BY <1>1, <1>3 DEF Preferring!TypesOK
<1>5. Preferring!MovedKnow'  BY <1>1, <1>3 DEF Preferring!MovedKnow
<1>6. ASSUME NEW m \in observing PROVE Informed(overlay_, notifying, m)'
  <2>1. CASE m = x
    <3>1. Preferring!Knows(m)' = {Preferring!Current(Preferring!ServiceOf(m), KeyOf[m])}
      BY <1>3, <2>1 DEF v
    <3> QED  BY <1>1, <3>1, UpToDate
  <2>2. CASE m # x
    <3>1. m \in Members  BY DEF Preferring!TypesOK
    <3>2. internal_'[m] = internal_[m] /\ Preferring!Knows(m)' = Preferring!Knows(m)
      BY <1>3, <2>2, <3>1 DEF Preferring!Knows
    <3>3. Informed(overlay_, notifying, m)  BY KnowOrOwedIs
    <3> QED  BY <1>1, <3>2, <3>3, StoresStay
  <2> QED  BY <2>1, <2>2
<1>7. Preferring!KnowOrOwed'  BY <1>1, <1>6, KnowOrOwedIs
<1> QED  BY <1>4, <1>5, <1>7

LEMMA MoveToThreadKeeps ==
  ASSUME Preferring!IInv, NEW x \in Members, Preferring!MoveToThread(x)
  PROVE  Preferring!IInv'
<1> USE DEF Preferring!IInv
<1> DEFINE v == Preferring!Current(Preferring!ServiceOf(x), KeyOf[x])
           w == IF internal_[x] = {} THEN {v} ELSE internal_[x]
<1>1. /\ x \in observing \ moved /\ internal_' = [internal_ EXCEPT ![x] = w]
      /\ moved' = moved \union {x}
      /\ UNCHANGED <<managed, command_line, prefs_, overlay_, defaults_, posted, observing,
                     notifying, silent>>
  BY DEF Preferring!MoveToThread, Preferring!storeVars
<1>2. w # {}  OBVIOUS
<1>3. posted[x] = <<>>  BY <1>1 DEF Preferring!MovedKnow
<1>4. internal_[x] = {} => w = {v}  OBVIOUS
<1>5. internal_[x] # {} => w = internal_[x]  OBVIOUS
<1> HIDE DEF w, v
<1>6. /\ DOMAIN internal_' = Members /\ internal_'[x] = w
      /\ \A n \in Members : n # x => internal_'[n] = internal_[n]
  BY <1>1 DEF Preferring!TypesOK
<1>7. Preferring!TypesOK'  BY <1>1, <1>6 DEF Preferring!TypesOK
<1>8. Preferring!MovedKnow'  BY <1>1, <1>2, <1>6 DEF Preferring!MovedKnow
<1>9. ASSUME NEW m \in observing PROVE Informed(overlay_, notifying, m)'
  <2>1. Informed(overlay_, notifying, m) /\ m \in Members  BY KnowOrOwedIs DEF Preferring!TypesOK
  <2>2. CASE m = x /\ internal_[x] = {}
    <3>1. Preferring!Knows(m)' = {Preferring!Current(Preferring!ServiceOf(m), KeyOf[m])}
      BY <1>1, <1>3, <1>4, <1>6, <2>2 DEF Preferring!Knows, v
    <3> QED  BY <1>1, <3>1, UpToDate
  <2>3. CASE m # x \/ internal_[x] # {}
    <3>1. internal_'[m] = internal_[m]  BY <1>5, <1>6, <2>1, <2>3
    <3>2. Preferring!Knows(m)' = Preferring!Knows(m)  BY <1>1, <3>1 DEF Preferring!Knows
    <3> QED  BY <1>1, <2>1, <3>1, <3>2, StoresStay
  <2> QED  BY <2>2, <2>3
<1>10. Preferring!KnowOrOwed'  BY <1>1, <1>9, KnowOrOwedIs
<1> QED  BY <1>7, <1>8, <1>10

(* A task that runs leaves the last update what it was.                    *)
LEMMA RunPostedKeeps ==
  ASSUME Preferring!IInv, NEW x \in Members, Preferring!RunPosted(x)
  PROVE  Preferring!IInv'
<1> USE DEF Preferring!IInv
<1> DEFINE q == posted[x]
           r == Tail(q)
           h == Head(q)
<1>1. /\ q # <<>> /\ internal_' = [internal_ EXCEPT ![x] = {h}]
      /\ posted' = [posted EXCEPT ![x] = r]
      /\ UNCHANGED <<managed, command_line, prefs_, overlay_, defaults_, moved, observing,
                     notifying, silent>>
  BY DEF Preferring!RunPosted, Preferring!storeVars
<1>2. q \in Seq(Preferring!Knowledge)  BY DEF Preferring!TypesOK
<1>3. /\ r \in Seq(Preferring!Knowledge) /\ h = q[1] /\ Len(r) = Len(q) - 1 /\ Len(q) \in Nat
      /\ r # <<>> => r[Len(r)] = q[Len(q)]
  BY <1>1, <1>2, Queue
<1>4. r = <<>> => Len(q) = 1
  <2>1. r = <<>> => Len(r) = 0  BY EmptySeq
  <2> HIDE DEF r, q
  <2> QED  BY <1>3, <2>1
<1>5. x \in moved  BY <1>1 DEF Preferring!MovedKnow
<1> HIDE DEF r, h
<1>6. /\ DOMAIN internal_' = Members /\ internal_'[x] = {h}
      /\ \A n \in Members : n # x => internal_'[n] = internal_[n]
  BY <1>1 DEF Preferring!TypesOK
<1>7. /\ posted' \in [Members -> Seq(Preferring!Knowledge)] /\ posted'[x] = r
      /\ \A n \in Members : n # x => posted'[n] = posted[n]
  BY <1>1, <1>3 DEF Preferring!TypesOK
<1>8. Preferring!TypesOK'  BY <1>1, <1>6, <1>7 DEF Preferring!TypesOK
<1>9. Preferring!MovedKnow'  BY <1>1, <1>5, <1>6, <1>7 DEF Preferring!MovedKnow
<1>10. ASSUME NEW m \in observing PROVE Informed(overlay_, notifying, m)'
  <2>1. Informed(overlay_, notifying, m) /\ m \in Members  BY KnowOrOwedIs DEF Preferring!TypesOK
  <2>2. Preferring!Knows(m)' = Preferring!Knows(m)
    <3>1. CASE m = x
      <4>1. r = <<>> => {h} = {q[Len(q)]}  BY <1>3, <1>4
      <4> QED  BY <1>1, <1>3, <1>6, <1>7, <3>1, <4>1 DEF Preferring!Knows
    <3>2. CASE m # x  BY <1>6, <1>7, <2>1, <3>2 DEF Preferring!Knows
    <3> QED  BY <3>1, <3>2
  <2>3. internal_[m] = {} => internal_'[m] = {}
    BY <1>5, <1>6, <2>1 DEF Preferring!MovedKnow
  <2> QED  BY <1>1, <2>1, <2>2, <2>3, StoresStay
<1>11. Preferring!KnowOrOwed'  BY <1>1, <1>10, KnowOrOwedIs
<1> QED  BY <1>8, <1>9, <1>11

LEMMA DestroyKeeps ==
  ASSUME Preferring!IInv, NEW x \in Members, Preferring!Destroy(x)
  PROVE  Preferring!IInv'
<1> USE DEF Preferring!IInv
<1>1. /\ observing' = observing \ {x} /\ moved' = moved \ {x}
      /\ internal_' = [internal_ EXCEPT ![x] = {}] /\ posted' = [posted EXCEPT ![x] = <<>>]
      /\ UNCHANGED <<managed, command_line, prefs_, overlay_, defaults_, notifying, silent>>
  BY DEF Preferring!Destroy, Preferring!storeVars
<1>2. /\ DOMAIN internal_' = Members
      /\ \A n \in Members : n # x => internal_'[n] = internal_[n]
  BY <1>1 DEF Preferring!TypesOK
<1>3. /\ posted' \in [Members -> Seq(Preferring!Knowledge)] /\ posted'[x] = <<>>
      /\ \A n \in Members : n # x => posted'[n] = posted[n]
  <2>1. <<>> \in Seq(Preferring!Knowledge)  BY EmptySeq
  <2> QED  BY <1>1, <2>1 DEF Preferring!TypesOK
<1>4. Preferring!TypesOK'  BY <1>1, <1>2, <1>3 DEF Preferring!TypesOK
<1>5. Preferring!MovedKnow'  BY <1>1, <1>2, <1>3 DEF Preferring!MovedKnow
<1>6. ASSUME NEW m \in observing' PROVE Informed(overlay_, notifying, m)'
  <2>1. m \in observing /\ m # x /\ m \in Members  BY <1>1 DEF Preferring!TypesOK
  <2>2. Informed(overlay_, notifying, m)  BY <2>1, KnowOrOwedIs
  <2>3. internal_'[m] = internal_[m] /\ Preferring!Knows(m)' = Preferring!Knows(m)
    BY <1>2, <1>3, <2>1 DEF Preferring!Knows
  <2> QED  BY <1>1, <2>2, <2>3, StoresStay
<1>7. Preferring!KnowOrOwed'  BY <1>6, KnowOrOwedIs
<1> QED  BY <1>4, <1>5, <1>7

LEMMA PrefsInit == Preferring!Init => Preferring!IInv
<1> SUFFICES ASSUME Preferring!Init PROVE Preferring!IInv  OBVIOUS
<1> USE DEF Preferring!Init
<1>1. [k \in PrefKeys |-> "none"] \in [PrefKeys -> Preferring!Stored]  BY DEF Preferring!Stored
<1>2. <<>> \in Seq(Preferring!Knowledge) /\ <<>> \in Seq(Preferring!Frames)  BY EmptySeq
<1>3. Preferring!TypesOK  BY <1>1, <1>2 DEF Preferring!TypesOK
<1>4. Preferring!MovedKnow  BY DEF Preferring!MovedKnow
<1>5. Preferring!KnowOrOwed  BY <1>3 DEF Preferring!KnowOrOwed, Preferring!TypesOK
<1> QED  BY <1>3, <1>4, <1>5 DEF Preferring!IInv

LEMMA PrefsStay ==
  ASSUME Preferring!IInv, UNCHANGED Preferring!vars
  PROVE  Preferring!IInv'
<1> USE DEF Preferring!IInv
<1>1. UNCHANGED <<managed, command_line, prefs_, overlay_, defaults_, internal_, moved, posted,
                  observing, notifying, silent>>
  BY DEF Preferring!vars, Preferring!storeVars, Preferring!memberVars
<1>2. StoresTyped'  BY <1>1, StoresAreTyped DEF StoresTyped
<1> QED  BY <1>1, <1>2, SilentlyKeeps

LEMMA PrefsNextKeeps ==
  ASSUME Preferring!IInv, [Preferring!Next]_Preferring!vars
  PROVE  Preferring!IInv'
<1>1. ASSUME NEW k \in PrefKeys, NEW v \in Preferring!Stored, NEW s \in Preferring!Services,
             Preferring!SetUserPrefValue(s, k, v)
      PROVE  Preferring!IInv'
  BY <1>1, SetUserPrefValueKeeps
<1>2. ASSUME NEW k \in PrefKeys, NEW v \in Preferring!Stored, Preferring!SetManaged(k, v)
      PROVE  Preferring!IInv'
  BY <1>2, SetManagedKeeps
<1>3. ASSUME NEW k \in PrefKeys, NEW v \in Preferring!Stored, Preferring!ReplaceDefaultValue(k, v)
      PROVE  Preferring!IInv'
  BY <1>3, ReplaceDefaultValueKeeps
<1>4. ASSUME NEW k \in PrefKeys, NEW v \in Preferring!Stored,
             Preferring!UpdateCommandLinePrefStore(k, v)
      PROVE  Preferring!IInv'
  BY <1>4, UpdateCommandLineKeeps
<1>5. ASSUME NEW k \in PrefKeys, NEW v \in Preferring!Stored, Preferring!EditUserPref(k, v)
      PROVE  Preferring!IInv'
  BY <1>5, EditUserPrefKeeps
<1>6. ASSUME NEW k \in PrefKeys, Preferring!ReportUserPrefChanged(k) PROVE Preferring!IInv'
  BY <1>6, ReportUserPrefChangedKeeps
<1>7. ASSUME NEW m \in Members, Preferring!OnPreferenceChanged(m) PROVE Preferring!IInv'
  BY <1>7, OnPreferenceChangedKeeps
<1>8. ASSUME NEW m \in Members, Preferring!Load(m) PROVE Preferring!IInv'
  BY <1>8, LoadKeeps
<1>9. ASSUME NEW m \in Members, Preferring!MoveToThread(m) PROVE Preferring!IInv'
  BY <1>9, MoveToThreadKeeps
<1>10. ASSUME NEW m \in Members, Preferring!RunPosted(m) PROVE Preferring!IInv'
  BY <1>10, RunPostedKeeps
<1>11. ASSUME NEW m \in Members, Preferring!Destroy(m) PROVE Preferring!IInv'
  BY <1>11, DestroyKeeps
<1>12. CASE Preferring!NotifyNext  BY <1>12, NotifyNextKeeps
<1>13. ASSUME NEW values \in [PrefKeys -> Preferring!Stored], Preferring!FileRead(values)
       PROVE  Preferring!IInv'
  BY <1>13, FileReadKeeps
<1>14. CASE UNCHANGED Preferring!vars  BY <1>14, PrefsStay
<1> QED  BY <1>1, <1>2, <1>3, <1>4, <1>5, <1>6, <1>7, <1>8, <1>9, <1>10, <1>11, <1>12, <1>13,
            <1>14 DEF Preferring!Next

(* Whatever the stores, the services and the members of preferences do,    *)
(* every member knows its preference's value, is owed a call by one of the *)
(* notifications under way, or watches a key whose last change was not     *)
(* notified.                                                               *)
THEOREM PrefsInvariance == Preferring!Spec => []Preferring!IInv
<1> QED  BY PrefsInit, PrefsNextKeeps, PTL DEF Preferring!Spec

(* A PrefMember stays in sync with its preference (pref_member.h).         *)
THEOREM MembersStayInSync == Preferring!Spec => []MemberInSync
<1>1. ASSUME NEW m, NEW f, Preferring!Owes(f, m)
      PROVE  f.key = KeyOf[m] /\ (m \in f.now \/ (m \notin Profile /\ f.next # ""))
  BY <1>1 DEF Preferring!Owes, Preferring!LetsThrough
<1>2. ASSUME NEW m, NEW j \in DOMAIN notifying, Preferring!Owes(notifying[j], m)
      PROVE  Preferring!Owed(m)
  BY <1>1, <1>2 DEF Preferring!Owed
<1>3. Preferring!KnowOrOwed => MemberInSync
  BY <1>2 DEF Preferring!KnowOrOwed, MemberInSync, Preferring!MemberInSync, Preferring!Knows
<1> QED  BY <1>3, PrefsInvariance, PTL DEF Preferring!IInv
================================================================================

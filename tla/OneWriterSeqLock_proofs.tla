----------------------- MODULE OneWriterSeqLock_proofs -----------------------
(* An accepted read is one whole record, for every number of readers and   *)
(* of updates and every even width of the counter; and lazy instances are  *)
(* built, once, when they are used, for any threads and uses: the proofs.  *)
EXTENDS MCLockFree, Integers, TLAPS, SequenceTheorems

(* Division with remainder, as the provers know it. *)
LEMMA DivMod ==
  ASSUME NEW a \in Nat, NEW m \in Nat, m > 0
  PROVE  /\ a = m * (a \div m) + (a % m)
         /\ a % m \in 0 .. m - 1
         /\ a \div m \in Nat
  OBVIOUS

(* The only multiple of m strictly between -m and m is 0. *)
LEMMA SmallMultiple ==
  ASSUME NEW m \in Nat, NEW d \in Int, m > 0, -m < m * d, m * d < m
  PROVE  d = 0
<1>1. CASE d >= 1
  <2>1. m * d >= m BY <1>1
  <2> QED BY <2>1
<1>2. CASE d <= -1
  <2>1. m * d <= -m BY <1>2
  <2> QED BY <2>1
<1> QED BY <1>1, <1>2

(* The remainder is unique. *)
LEMMA ModUnique ==
  ASSUME NEW a \in Nat, NEW m \in Nat, m > 0,
         NEW q \in Int, NEW r \in 0 .. m - 1, a = m * q + r
  PROVE  a % m = r
<1> DEFINE p == a \div m
<1>1. a = m * p + (a % m) /\ p \in Nat /\ a % m \in 0 .. m - 1
  BY DivMod
<1> HIDE DEF p
<1>2. m * (p - q) = r - (a % m)
  BY <1>1
<1>3. p - q = 0
  BY <1>1, <1>2, SmallMultiple
<1> QED BY <1>1, <1>3

(* Incrementing the wrapped counter is wrapping the incremented one. *)
LEMMA ModSucc ==
  ASSUME NEW a \in Nat, NEW m \in Nat, m > 0
  PROVE  ((a % m) + 1) % m = (a + 1) % m
<1> DEFINE p == a \div m
           r == a % m
<1>1. a = m * p + r /\ p \in Nat /\ r \in 0 .. m - 1
  BY DivMod
<1> HIDE DEF p, r
<1>2. CASE r + 1 < m
  <2>1. (r + 1) % m = r + 1
    BY <1>1, <1>2, ModUnique
  <2>2. a + 1 = m * p + (r + 1)
    BY <1>1
  <2>3. (a + 1) % m = r + 1
    BY <1>1, <1>2, <2>2, ModUnique
  <2> QED BY <2>1, <2>3 DEF r
<1>3. CASE r + 1 = m
  <2>1. r + 1 = m * 1 + 0
    BY <1>3
  <2>2. (r + 1) % m = 0
    BY <1>1, <2>1, ModUnique
  <2>3. a + 1 = m * (p + 1) + 0
    BY <1>1, <1>3
  <2>4. (a + 1) % m = 0
    BY <1>1, <2>3, ModUnique
  <2> QED BY <2>2, <2>4 DEF r
<1> QED BY <1>1, <1>2, <1>3

(* Two counts less than a full turn apart wrap to different values. *)
LEMMA ModDiffer ==
  ASSUME NEW a \in Nat, NEW b \in Nat, NEW m \in Nat, m > 0,
         b < a, a - b < m
  PROVE  a % m # b % m
<1> SUFFICES ASSUME a % m = b % m PROVE FALSE
  OBVIOUS
<1> DEFINE p == a \div m
           q == b \div m
<1>1. a = m * p + (a % m) /\ b = m * q + (b % m) /\ p \in Nat /\ q \in Nat
  BY DivMod
<1> HIDE DEF p, q
<1>2. m * (p - q) = a - b
  BY <1>1
<1>3. p - q = 0
  BY <1>1, <1>2, SmallMultiple
<1> QED BY <1>1, <1>3

(* An even modulus keeps the parity that ReadBegin tests. *)
LEMMA ModParity ==
  ASSUME NEW a \in Nat, NEW m \in Nat, m > 0, m % 2 = 0
  PROVE  (a % m) % 2 = a % 2
<1> DEFINE p == a \div m
           h == m \div 2
<1>1. a = m * p + (a % m) /\ p \in Nat /\ a % m \in Nat
  BY DivMod
<1>2. m = 2 * h /\ h \in Nat
  OBVIOUS
<1> HIDE DEF p, h
<1>3. m * p = 2 * (h * p) /\ h * p \in Nat
  BY <1>1, <1>2
<1> QED BY <1>1, <1>3
-----------------------------------------------------------------------------
(* How often sequence_ has been incremented since it was 0. *)
Total == IF wpc = "idle" THEN 2 * gen ELSE 2 * gen - 1

(* What the writer has stored when it stands at wpc. *)
WriterInv ==
  /\ wpc # "idle" => gen > 0
  /\ sequence_ = Total % Modulus
  /\ data[1] = IF wpc = "word1" THEN gen - 1 ELSE gen
  /\ data[2] = IF wpc \in {"word1", "word2"} THEN gen - 1 ELSE gen

(* What a reader past ReadBegin knows; the copied words are promised only  *)
(* while no update has begun since.                                        *)
ReaderInv(r) ==
  rpc[r] # "begin" =>
    /\ began[r] <= gen
    /\ version[r] = (2 * began[r]) % Modulus
    /\ gen = began[r] =>
         /\ wpc = "idle"
         /\ rpc[r] \in {"copy2", "retry", "accepted"} => copy[r][1] = began[r]
         /\ rpc[r] \in {"retry", "accepted"} => copy[r][2] = began[r]

IInv == TypeOK /\ WriterInv /\ (\A r \in Readers : ReaderInv(r))
               /\ AcceptedCopyIsWhole

LEMMA InitIInv == Init => IInv
  BY SeqLockAssumption, DivMod, ModUnique
     DEF Init, IInv, TypeOK, WriterInv, ReaderInv, AcceptedCopyIsWhole, Total, Words

(* A step of the writer. *)
LEMMA WriterIInv ==
  ASSUME IInv, Writer
  PROVE  IInv'
<1> USE SeqLockAssumption DEF IInv
<1>1. Total \in Nat /\ Modulus \in Nat /\ Modulus > 0
  BY DEF TypeOK, WriterInv, Total
<1> DEFINE T == Total
<1>a. ((T % Modulus) + 1) % Modulus = (T + 1) % Modulus
  <2> HIDE DEF T
  <2> QED BY <1>1, ModSucc DEF T
<1>2. CASE WriteBegin
  <2>1. Total' = Total + 1
    BY <1>2 DEF WriteBegin, Total, TypeOK
  <2>2. sequence_' = Total' % Modulus
    BY <1>a, <1>2, <2>1 DEF WriteBegin, Increment, WriterInv
  <2>3. TypeOK'
    BY <1>1, <1>2, <2>1, <2>2, DivMod DEF WriteBegin, TypeOK, readerVars
  <2>4. WriterInv'
    BY <1>2, <2>2 DEF WriteBegin, WriterInv, TypeOK
  <2>5. ASSUME NEW r \in Readers PROVE ReaderInv(r)'
    BY <1>2 DEF WriteBegin, readerVars, ReaderInv, TypeOK
  <2>6. AcceptedCopyIsWhole'
    BY <1>2 DEF WriteBegin, readerVars, AcceptedCopyIsWhole, TypeOK
  <2> QED BY <2>3, <2>4, <2>5, <2>6
<1>3. CASE WriteWord(1, "word1", "word2") \/ WriteWord(2, "word2", "end")
  <2>1. TypeOK' /\ WriterInv'
    BY <1>3 DEF WriteWord, TypeOK, WriterInv, Total, readerVars, Words
  <2>2. ASSUME NEW r \in Readers PROVE ReaderInv(r)'
    BY <1>3 DEF WriteWord, readerVars, ReaderInv, TypeOK
  <2>3. AcceptedCopyIsWhole'
    BY <1>3 DEF WriteWord, readerVars, AcceptedCopyIsWhole, TypeOK
  <2> QED BY <2>1, <2>2, <2>3
<1>4. CASE WriteEnd
  <2>1. Total' = Total + 1
    BY <1>4 DEF WriteEnd, Total, TypeOK
  <2>2. sequence_' = Total' % Modulus
    BY <1>a, <1>4, <2>1 DEF WriteEnd, Increment, WriterInv
  <2>3. TypeOK'
    BY <1>1, <1>4, <2>1, <2>2, DivMod DEF WriteEnd, TypeOK, readerVars
  <2>4. WriterInv'
    BY <1>4, <2>2 DEF WriteEnd, WriterInv, TypeOK
  <2>5. ASSUME NEW r \in Readers PROVE ReaderInv(r)'
    BY <1>4 DEF WriteEnd, readerVars, ReaderInv, TypeOK
  <2>6. AcceptedCopyIsWhole'
    BY <1>4 DEF WriteEnd, readerVars, AcceptedCopyIsWhole, TypeOK
  <2> QED BY <2>3, <2>4, <2>5, <2>6
<1> QED BY <1>2, <1>3, <1>4 DEF Writer

(* An even counter means that no update is under way. *)
LEMMA EvenIsIdle ==
  ASSUME IInv, sequence_ % 2 = 0
  PROVE  wpc = "idle"
<1>1. Total \in Nat /\ sequence_ = Total % Modulus
  BY DEF IInv, TypeOK, WriterInv, Total
<1>2. Total % 2 = 0
  BY <1>1, ModParity, SeqLockAssumption
<1> QED BY <1>2 DEF Total, IInv, TypeOK

(* The comparison in ReadRetry detects every update that began since       *)
(* ReadBegin, as long as fewer than Modulus/2 of them did.                 *)
LEMMA RetryDetects ==
  ASSUME IInv, NEW r \in Readers, rpc[r] = "retry", sequence_ = version[r],
         gen - began[r] < Modulus \div 2
  PROVE  gen = began[r]
<1>0. gen \in Nat /\ began[r] \in Nat /\ began[r] <= gen
  BY SeqLockAssumption DEF IInv, ReaderInv, TypeOK
<1> SUFFICES ASSUME began[r] < gen PROVE FALSE
  BY <1>0
<1> DEFINE a == Total
           b == 2 * began[r]
<1>1. a \in Nat /\ b \in Nat /\ b < a
  BY DEF Total, IInv, TypeOK
<1>2. a - b < Modulus /\ Modulus \in Nat /\ Modulus > 0
  BY SeqLockAssumption DEF Total, IInv, TypeOK
<1>3. a % Modulus # b % Modulus
  <2> HIDE DEF a, b
  <2> QED BY <1>1, <1>2, ModDiffer
<1> QED BY <1>3 DEF IInv, WriterInv, ReaderInv

(* A step of a reader. *)
LEMMA ReaderIInv ==
  ASSUME IInv, NEW r \in Readers, Reader(r) \/ ReadAgain(r)
  PROVE  IInv'
<1> USE SeqLockAssumption
<1>0. UNCHANGED writerVars
  BY DEF Reader, ReadBegin, ReadWord, ReadRetry, ReadAgain
<1>w. WriterInv'
  BY <1>0 DEF IInv, WriterInv, writerVars, Total
<1>t. TypeOK'
  <2>1. copy' \in [Readers -> [Words -> 0 .. MaxWrites]]
    BY DEF IInv, TypeOK, Reader, ReadBegin, ReadWord, ReadRetry, ReadAgain, Words
  <2>2. /\ rpc' \in [Readers -> {"begin", "copy1", "copy2", "retry", "accepted"}]
        /\ version' \in [Readers -> 0 .. Modulus - 1]
        /\ began' \in [Readers -> 0 .. MaxWrites]
    BY DEF IInv, TypeOK, Reader, ReadBegin, ReadWord, ReadRetry, ReadAgain
  <2> QED BY <1>0, <2>1, <2>2 DEF IInv, TypeOK, writerVars
<1>1. TypeOK' /\ WriterInv'
  BY <1>t, <1>w
<1>2. CASE ReadBegin(r)
  <2>1. wpc = "idle"
    BY <1>2, EvenIsIdle DEF ReadBegin
  <2>2. version'[r] = (2 * gen) % Modulus
    BY <1>2, <2>1 DEF ReadBegin, IInv, WriterInv, Total, TypeOK
  <2>3. ASSUME NEW s \in Readers PROVE ReaderInv(s)'
    <3>1. CASE s = r
      BY <1>2, <2>1, <2>2, <3>1 DEF ReadBegin, writerVars, IInv, ReaderInv, TypeOK
    <3>2. CASE s # r
      BY <1>2, <3>2 DEF ReadBegin, writerVars, IInv, ReaderInv, TypeOK
    <3> QED BY <3>1, <3>2
  <2>4. AcceptedCopyIsWhole'
    BY <1>2 DEF ReadBegin, writerVars, IInv, AcceptedCopyIsWhole, TypeOK
  <2> QED BY <1>1, <2>3, <2>4 DEF IInv
<1>3. CASE ReadWord(r, 1, "copy1", "copy2") \/ ReadWord(r, 2, "copy2", "retry")
  <2>1. ASSUME NEW s \in Readers PROVE ReaderInv(s)'
    BY <1>3 DEF ReadWord, writerVars, IInv, ReaderInv, WriterInv, TypeOK, Words
  <2>2. AcceptedCopyIsWhole'
    BY <1>3 DEF ReadWord, writerVars, IInv, AcceptedCopyIsWhole, TypeOK
  <2> QED BY <1>1, <2>1, <2>2 DEF IInv
<1>4. CASE ReadRetry(r)
  <2>1. ASSUME NEW s \in Readers PROVE ReaderInv(s)'
    BY <1>4 DEF ReadRetry, writerVars, IInv, ReaderInv, TypeOK
  <2>2. ASSUME NEW s \in Readers, rpc'[s] = "accepted",
               gen - began[s] < Modulus \div 2
        PROVE  copy[s] = [w \in Words |-> began[s]]
    <3>1. CASE s = r
      <4>1. rpc[r] = "retry" /\ sequence_ = version[r]
        BY <1>4, <2>2, <3>1 DEF ReadRetry, IInv, TypeOK
      <4>2. gen = began[r]
        BY <2>2, <3>1, <4>1, RetryDetects
      <4>3. copy[r][1] = began[r] /\ copy[r][2] = began[r]
        BY <4>1, <4>2 DEF IInv, ReaderInv
      <4> QED BY <3>1, <4>3 DEF IInv, TypeOK, Words
    <3>2. CASE s # r
      BY <1>4, <2>2, <3>2 DEF ReadRetry, IInv, AcceptedCopyIsWhole, TypeOK
    <3> QED BY <3>1, <3>2
  <2>3. AcceptedCopyIsWhole'
    BY <1>4, <2>2 DEF ReadRetry, writerVars, AcceptedCopyIsWhole, IInv, TypeOK
  <2> QED BY <1>1, <2>1, <2>3 DEF IInv
<1>5. CASE ReadAgain(r)
  <2>1. ASSUME NEW s \in Readers PROVE ReaderInv(s)'
    BY <1>5 DEF ReadAgain, writerVars, IInv, ReaderInv, TypeOK
  <2>2. AcceptedCopyIsWhole'
    BY <1>5 DEF ReadAgain, writerVars, IInv, AcceptedCopyIsWhole, TypeOK
  <2> QED BY <1>1, <2>1, <2>2 DEF IInv
<1> QED BY <1>2, <1>3, <1>4, <1>5 DEF Reader

(* The inductive invariant holds in every reachable state. *)
THEOREM Invariance == Spec => []IInv
<1>1. Init => IInv
  BY InitIInv
<1>2. IInv /\ [Next]_vars => IInv'
  <2> SUFFICES ASSUME IInv, [Next]_vars PROVE IInv'
    OBVIOUS
  <2>1. CASE UNCHANGED vars
    BY <2>1 DEF vars, IInv, TypeOK, WriterInv, Total, ReaderInv, AcceptedCopyIsWhole
  <2> QED BY <2>1, WriterIInv, ReaderIInv DEF Next
<1> QED BY <1>1, <1>2, PTL DEF Spec

(* one_writer_seqlock.cc ReadRetry: the variables keep their types. *)
THEOREM TypeCorrect == Spec => []TypeOK
<1>1. IInv => TypeOK
  BY DEF IInv
<1> QED BY <1>1, Invariance, PTL

(* one_writer_seqlock.cc ReadRetry: a copy it accepts is one whole record, *)
(* unless half a turn of the counter or more passed during the copy.       *)
THEOREM WholeCopies == Spec => []AcceptedCopyIsWhole
<1>1. IInv => AcceptedCopyIsWhole
  BY DEF IInv
<1> QED BY <1>1, Invariance, PTL
-----------------------------------------------------------------------------
(* Activations are nested: the top of a thread's stack changes, ...        *)
LEMMA StackTop ==
  ASSUME NEW s \in Seq(Lazy!Frames)
  PROVE  /\ Len(s) \in Nat /\ DOMAIN s = 1 .. Len(s) /\ \A n \in DOMAIN s : s[n] \in Lazy!Frames
         /\ s # <<>> <=> Len(s) \in DOMAIN s
         /\ Lazy!Called(s, Len(s)) = {}
<1>1. Len(s) \in Nat /\ DOMAIN s = 1 .. Len(s)  BY LenProperties
<1>2. \A n \in DOMAIN s : s[n] \in Lazy!Frames  BY <1>1, ElementOfSeq
<1>3. s # <<>> <=> Len(s) \in DOMAIN s  BY <1>1, EmptySeq
<1>4. Lazy!Called(s, Len(s)) = {}
  <2>1. DOMAIN s \intersect {Len(s) + 1} = {}  BY <1>1
  <2> QED  BY <2>1 DEF Lazy!Called
<1> QED  BY <1>1, <1>2, <1>3, <1>4

LEMMA TopChanges ==
  ASSUME NEW s \in Seq(Lazy!Frames), s # <<>>, NEW f \in Lazy!Frames, f.inst = s[Len(s)].inst
  PROVE  LET r == [s EXCEPT ![Len(s)] = f] IN
         /\ r \in Seq(Lazy!Frames) /\ Len(r) = Len(s) /\ DOMAIN r = DOMAIN s /\ r # <<>>
         /\ r[Len(s)] = f /\ \A n \in DOMAIN s : n # Len(s) => r[n] = s[n]
         /\ \A n \in Nat : Lazy!Called(r, n) = Lazy!Called(s, n)
<1> DEFINE r == [s EXCEPT ![Len(s)] = f]
<1>1. Len(s) \in DOMAIN s /\ DOMAIN s = 1 .. Len(s) /\ Len(s) \in Nat  BY StackTop
<1>2. r \in Seq(Lazy!Frames) /\ Len(r) = Len(s)  BY <1>1, ExceptSeq
<1>3. /\ DOMAIN r = DOMAIN s /\ r[Len(s)] = f
      /\ \A n \in DOMAIN s : n # Len(s) => r[n] = s[n]
  BY <1>1
<1> HIDE DEF r
<1>4. \A n \in DOMAIN s : r[n].inst = s[n].inst  BY <1>1, <1>3
<1>5. \A n \in Nat : Lazy!Called(r, n) = Lazy!Called(s, n)  BY <1>3, <1>4 DEF Lazy!Called
<1>6. r # <<>>  BY <1>1, <1>2, EmptySeq
<1> QED  BY <1>2, <1>3, <1>5, <1>6 DEF r

(* ... an activation returns ...                                           *)
LEMMA TopPops ==
  ASSUME NEW s \in Seq(Lazy!Frames), s # <<>>
  PROVE  LET r == Lazy!Pop(s) IN
         /\ r \in Seq(Lazy!Frames) /\ DOMAIN r = 1 .. Len(s) - 1
         /\ \A n \in DOMAIN r : n \in DOMAIN s /\ n # Len(s) /\ r[n] = s[n]
         /\ \A n \in DOMAIN r : n # Len(s) - 1 => Lazy!Called(r, n) = Lazy!Called(s, n)
         /\ Lazy!Called(r, Len(s) - 1) = {}
         /\ Len(s) > 1 => Lazy!Called(s, Len(s) - 1) = {s[Len(s)].inst}
<1> DEFINE r == Lazy!Pop(s)
<1>1. Len(s) \in DOMAIN s /\ DOMAIN s = 1 .. Len(s) /\ Len(s) \in Nat  BY StackTop
<1>2. \A n \in 1 .. Len(s) - 1 : s[n] \in Lazy!Frames  BY <1>1, StackTop
<1>3. /\ r \in Seq(Lazy!Frames) /\ DOMAIN r = 1 .. Len(s) - 1
      /\ \A n \in 1 .. Len(s) - 1 : r[n] = s[n]
  <2>1. r = [n \in 1 .. Len(s) - 1 |-> s[n]]  BY <1>1 DEF Lazy!Pop
  <2>2. r \in [1 .. Len(s) - 1 -> Lazy!Frames]  BY <1>2, <2>1
  <2>3. Len(s) - 1 \in Nat  BY <1>1
  <2> HIDE DEF r
  <2>4. r \in Seq(Lazy!Frames)  BY <2>2, <2>3, SeqDef
  <2> QED  BY <2>1, <2>4
<1> HIDE DEF r
<1>4. \A n \in DOMAIN r : n \in DOMAIN s /\ n # Len(s) /\ r[n] = s[n]  BY <1>1, <1>3
<1>5. ASSUME NEW n \in DOMAIN r, n # Len(s) - 1 PROVE Lazy!Called(r, n) = Lazy!Called(s, n)
  <2>1. n + 1 \in DOMAIN r /\ n + 1 \in DOMAIN s /\ r[n + 1] = s[n + 1]  BY <1>1, <1>3, <1>5
  <2> QED  BY <2>1 DEF Lazy!Called
<1>6. Lazy!Called(r, Len(s) - 1) = {}
  <2>1. DOMAIN r \intersect {Len(s) - 1 + 1} = {}  BY <1>1, <1>3
  <2> QED  BY <2>1 DEF Lazy!Called
<1>7. Lazy!Called(s, Len(s) - 1) = {s[Len(s)].inst}
  <2>1. DOMAIN s \intersect {Len(s) - 1 + 1} = {Len(s)}  BY <1>1
  <2> QED  BY <2>1 DEF Lazy!Called
<1> QED  BY <1>3, <1>4, <1>5, <1>6, <1>7 DEF r

(* ... and calls another.                                                  *)
LEMMA TopCalls ==
  ASSUME NEW s \in Seq(Lazy!Frames), NEW g \in Lazy!Frames
  PROVE  LET r == Append(s, g) IN
         /\ r \in Seq(Lazy!Frames) /\ DOMAIN r = DOMAIN s \union {Len(s) + 1}
         /\ r[Len(s) + 1] = g /\ \A n \in DOMAIN s : r[n] = s[n]
         /\ \A n \in DOMAIN s : n # Len(s) => Lazy!Called(r, n) = Lazy!Called(s, n)
         /\ Lazy!Called(r, Len(s)) = {g.inst} /\ Lazy!Called(r, Len(s) + 1) = {}
<1> DEFINE r == Append(s, g)
<1>1. DOMAIN s = 1 .. Len(s) /\ Len(s) \in Nat  BY StackTop
<1>2. r \in Seq(Lazy!Frames) /\ Len(r) = Len(s) + 1 /\ r[Len(s) + 1] = g
      /\ \A n \in 1 .. Len(s) : r[n] = s[n]
  BY AppendProperties
<1>3. DOMAIN r = 1 .. Len(s) + 1 /\ Lazy!Called(r, Len(r)) = {}  BY <1>2, StackTop
<1> HIDE DEF r
<1>4. DOMAIN r = DOMAIN s \union {Len(s) + 1}  BY <1>1, <1>3
<1>5. ASSUME NEW n \in DOMAIN s, n # Len(s) PROVE Lazy!Called(r, n) = Lazy!Called(s, n)
  <2>1. n + 1 \in DOMAIN r /\ n + 1 \in DOMAIN s /\ r[n + 1] = s[n + 1]  BY <1>1, <1>2, <1>3, <1>5
  <2> QED  BY <2>1 DEF Lazy!Called
<1>6. Lazy!Called(r, Len(s)) = {g.inst}
  <2>1. DOMAIN r \intersect {Len(s) + 1} = {Len(s) + 1}  BY <1>1, <1>3
  <2> QED  BY <1>2, <2>1 DEF Lazy!Called
<1> QED  BY <1>1, <1>2, <1>3, <1>4, <1>5, <1>6 DEF r

StacksTyped == stack \in [Lazy!Everyone -> Seq(Lazy!Frames)]

(* The top of t's stack becomes f, and the others know what they knew, but *)
(* for those, if there are any, that create what t creates.                *)
LEMMA TopGoesOn ==
  ASSUME Lazy!IInv, NEW t \in Lazy!Everyone, NEW s, s = stack[t], s # <<>>,
         NEW f \in Lazy!Frames, f.inst = s[Len(s)].inst,
         stack' = [stack EXCEPT ![t] = [s EXCEPT ![Len(s)] = f]],
         Lazy!Creates(f) => Lazy!Creates(s[Len(s)]) \/ private_instance_[f.inst] = "0",
         Lazy!Knows(t, Len(s), f, {})',
         \A u \in Lazy!Everyone, n \in Nat, g \in Lazy!Frames, c \in SUBSET Instances :
            (/\ Lazy!Knows(u, n, g, c)
             /\ ~(Lazy!Creates(s[Len(s)]) /\ Lazy!Creates(g) /\ g.inst = f.inst))
                => Lazy!Knows(u, n, g, c)'
  PROVE  StacksTyped' /\ Lazy!OneCreator' /\ Lazy!EveryoneKnows'
<1> DEFINE r == [s EXCEPT ![Len(s)] = f]
<1>1. stack \in [Lazy!Everyone -> Seq(Lazy!Frames)] /\ s \in Seq(Lazy!Frames)
  BY DEF Lazy!IInv, Lazy!TypeOK, Lazy!Everyone
<1>2. /\ Len(s) \in Nat /\ DOMAIN s = 1 .. Len(s) /\ Len(s) \in DOMAIN s
      /\ \A n \in DOMAIN s : s[n] \in Lazy!Frames
      /\ Lazy!Called(s, Len(s)) = {}
  BY <1>1, StackTop
<1>3. /\ r \in Seq(Lazy!Frames) /\ DOMAIN r = DOMAIN s
      /\ r[Len(s)] = f /\ \A n \in DOMAIN s : n # Len(s) => r[n] = s[n]
      /\ \A n \in Nat : Lazy!Called(r, n) = Lazy!Called(s, n)
  BY <1>1, TopChanges
<1> HIDE DEF r
<1>4. stack' \in [Lazy!Everyone -> Seq(Lazy!Frames)] /\ stack'[t] = r
      /\ \A u \in Lazy!Everyone : u # t => stack'[u] = stack[u]
  BY <1>1, <1>3 DEF r
<1>5. ASSUME NEW u \in Lazy!Everyone, NEW n \in DOMAIN stack[u], u # t \/ n # Len(s)
      PROVE  /\ ~(Lazy!Creates(s[Len(s)]) /\ Lazy!Creates(stack[u][n]) /\ stack[u][n].inst = f.inst)
             /\ ~(Lazy!Creates(f) /\ Lazy!Creates(stack[u][n]) /\ stack[u][n].inst = f.inst)
             /\ stack[u][n] \in Lazy!Frames /\ n \in Nat
             /\ Lazy!Called(stack[u], n) \in SUBSET Instances
             /\ Lazy!Knows(u, n, stack[u][n], Lazy!Called(stack[u], n))
  <2>1. Lazy!Knows(u, n, stack[u][n], Lazy!Called(stack[u], n))
    BY DEF Lazy!IInv, Lazy!EveryoneKnows
  <2>2. /\ stack[u] \in Seq(Lazy!Frames)
        /\ DOMAIN stack[u] = 1 .. Len(stack[u]) /\ Len(stack[u]) \in Nat
    BY <1>1, StackTop
  <2>3. \A m \in DOMAIN stack[u] : stack[u][m] \in Lazy!Frames  BY <2>2, StackTop
  <2>4. Lazy!Called(stack[u], n) \in SUBSET Instances  BY <2>3 DEF Lazy!Called, Lazy!Frames
  <2>5. ~(Lazy!Creates(s[Len(s)]) /\ Lazy!Creates(stack[u][n]) /\ stack[u][n].inst = f.inst)
    BY <1>2, <1>5 DEF Lazy!IInv, Lazy!OneCreator
  <2>6. Lazy!Creates(stack[u][n]) => private_instance_[stack[u][n].inst] # "0"
    BY <2>1 DEF Lazy!Knows, Lazy!KnowsWord, Lazy!Creates, Lazy!Created
  <2> QED  BY <2>1, <2>2, <2>3, <2>4, <2>5, <2>6
<1>6. ASSUME NEW u \in Lazy!Everyone, NEW n \in DOMAIN stack'[u]
      PROVE  /\ n \in DOMAIN stack[u] /\ Lazy!Called(stack'[u], n) = Lazy!Called(stack[u], n)
             /\ stack'[u][n] = IF u = t /\ n = Len(s) THEN f ELSE stack[u][n]
  <2>1. CASE u = t
    <3>1. stack'[u] = r /\ stack[u] = s  BY <1>4, <2>1
    <3>2. n \in DOMAIN s /\ n \in Nat  BY <1>2, <1>3, <3>1
    <3>3. Lazy!Called(r, n) = Lazy!Called(s, n) /\ r[n] = IF n = Len(s) THEN f ELSE s[n]
      BY <1>3, <3>2
    <3> QED  BY <2>1, <3>1, <3>2, <3>3
  <2>2. CASE u # t  BY <1>4, <2>2
  <2> QED  BY <2>1, <2>2
<1>7. Lazy!OneCreator'
  <2> SUFFICES ASSUME NEW u \in Lazy!Everyone, NEW v \in Lazy!Everyone, NEW m \in DOMAIN stack'[u],
                      NEW n \in DOMAIN stack'[v],
                      Lazy!Creates(stack'[u][m]), Lazy!Creates(stack'[v][n]),
                      stack'[u][m].inst = stack'[v][n].inst
               PROVE  u = v /\ m = n
    BY DEF Lazy!OneCreator, Lazy!Everyone, Lazy!Creates
  <2>1. CASE u = t /\ m = Len(s) /\ ~(v = t /\ n = Len(s))  BY <1>5, <1>6, <2>1
  <2>2. CASE v = t /\ n = Len(s) /\ ~(u = t /\ m = Len(s))  BY <1>5, <1>6, <2>2
  <2>3. CASE ~(v = t /\ n = Len(s)) /\ ~(u = t /\ m = Len(s))
    BY <1>6, <2>3 DEF Lazy!IInv, Lazy!OneCreator
  <2> QED  BY <2>1, <2>2, <2>3
<1>8. Lazy!EveryoneKnows'
  <2> SUFFICES ASSUME NEW u \in Lazy!Everyone, NEW n \in DOMAIN stack'[u]
               PROVE  Lazy!Knows(u, n, stack[u][n], Lazy!Called(stack[u], n))'
    BY DEF Lazy!EveryoneKnows, Lazy!Everyone
  <2>0. PICK g, c : g = stack'[u][n] /\ c = Lazy!Called(stack'[u], n)  OBVIOUS
  <2>1. Lazy!Knows(u, n, g, c)'
    <3>1. CASE u = t /\ n = Len(s)
      <4>1. g = f /\ c = {}  BY <1>2, <1>6, <2>0, <3>1
      <4> QED  BY <3>1, <4>1
    <3>2. CASE ~(u = t /\ n = Len(s))
      <4>1. /\ n \in DOMAIN stack[u] /\ g = stack[u][n] /\ c = Lazy!Called(stack[u], n)
            /\ u # t \/ n # Len(s)
        BY <1>6, <2>0, <3>2
      <4>2. /\ ~(Lazy!Creates(s[Len(s)]) /\ Lazy!Creates(g) /\ g.inst = f.inst)
            /\ g \in Lazy!Frames /\ n \in Nat /\ c \in SUBSET Instances /\ Lazy!Knows(u, n, g, c)
        BY <1>5, <4>1
      <4> QED  BY <4>2
    <3> QED  BY <3>1, <3>2
  <2>2. Lazy!Knows(u, n, stack[u][n], Lazy!Called(stack[u], n))' <=> Lazy!Knows(u, n, g, c)'
    BY <2>0 DEF Lazy!Knows, Lazy!KnowsWord, Lazy!KnowsPhase, Lazy!KnowsUses, Lazy!Called
  <2> QED  BY <2>1, <2>2
<1> QED  BY <1>4, <1>7, <1>8 DEF StacksTyped, Lazy!Everyone

(* The top of a stack, and what it knows. *)
LEMMA TopKnows ==
  ASSUME Lazy!IInv, NEW t \in Lazy!Everyone, stack[t] # <<>>
  PROVE  /\ stack[t] \in Seq(Lazy!Frames) /\ Len(stack[t]) \in Nat /\ Len(stack[t]) > 0
         /\ Lazy!Top(t) = stack[t][Len(stack[t])] /\ Lazy!Top(t) \in Lazy!Frames
         /\ Len(stack[t]) \in DOMAIN stack[t]
         /\ Lazy!Knows(t, Len(stack[t]), Lazy!Top(t), {})
<1>1. stack[t] \in Seq(Lazy!Frames)  BY DEF Lazy!IInv, Lazy!TypeOK, Lazy!Everyone
<1>2. /\ Len(stack[t]) \in Nat /\ DOMAIN stack[t] = 1 .. Len(stack[t])
      /\ Len(stack[t]) \in DOMAIN stack[t] /\ Lazy!Called(stack[t], Len(stack[t])) = {}
      /\ \A n \in DOMAIN stack[t] : stack[t][n] \in Lazy!Frames
  BY <1>1, StackTop
<1>3. Lazy!Top(t) = stack[t][Len(stack[t])]  BY DEF Lazy!Top, Lazy!Depth
<1>4. Lazy!Knows(t, Len(stack[t]), Lazy!Top(t), {})
  BY <1>2, <1>3 DEF Lazy!IInv, Lazy!EveryoneKnows
<1> QED  BY <1>1, <1>2, <1>3, <1>4

LEMMA GoesTo ==
  ASSUME Lazy!IInv, NEW t \in Lazy!Everyone, stack[t] # <<>>,
         NEW p \in {"load", "cas", "spin", "new", "publish", "register", "done", "delete"},
         Lazy!GoTo(t, p)
  PROVE  \E f \in Lazy!Frames :
            /\ f.inst = Lazy!Top(t).inst /\ f.pc = p /\ f.todo = Lazy!Top(t).todo
            /\ stack' = [stack EXCEPT ![t] = [stack[t] EXCEPT ![Len(stack[t])] = f]]
<1> DEFINE s == stack[t]
           f == [s[Len(s)] EXCEPT !.pc = p]
<1>1. Len(s) \in DOMAIN s /\ Lazy!Top(t) = s[Len(s)] /\ Lazy!Top(t) \in Lazy!Frames  BY TopKnows
<1>2. f \in Lazy!Frames /\ f.inst = Lazy!Top(t).inst /\ f.pc = p /\ f.todo = Lazy!Top(t).todo
  BY <1>1 DEF Lazy!Frames
<1>3. stack' = [stack EXCEPT ![t] = [s EXCEPT ![Len(s)] = f]]
  <2>1. t \in DOMAIN stack  BY DEF Lazy!IInv, Lazy!TypeOK, Lazy!Everyone
  <2> QED  BY <1>1, <2>1 DEF Lazy!GoTo, Lazy!Depth
<1> QED  BY <1>2, <1>3

others == <<private_instance_, dead_, lock_, stack_, phase, built, constructed, unregistered>>

(* Steps that only move a thread.                                          *)
LEMMA OthersStay ==
  ASSUME Lazy!IInv, UNCHANGED others
  PROVE  /\ (StacksTyped' => Lazy!TypeOK') /\ (phase = "exiting" <=> lock_ = Main)'
         /\ Lazy!WordsTell' /\ Lazy!InOrder' /\ Lazy!ConstructedOnceIfRegistered'
         /\ \A u, n, g, c : Lazy!Knows(u, n, g, c) => Lazy!Knows(u, n, g, c)'
<1>1. UNCHANGED <<private_instance_, dead_, lock_, stack_, phase, built, constructed,
                  unregistered>>
  BY DEF others
<1>2. StacksTyped' => Lazy!TypeOK'  BY <1>1 DEF Lazy!IInv, Lazy!TypeOK, StacksTyped, Lazy!Everyone
<1>3. (phase = "exiting" <=> lock_ = Main)'  BY <1>1 DEF Lazy!IInv
<1>4. Lazy!WordsTell'  BY <1>1 DEF Lazy!IInv, Lazy!WordsTell, Lazy!Created
<1>5. Lazy!InOrder'  BY <1>1 DEF Lazy!IInv, Lazy!InOrder, Lazy!Created, Lazy!Registered
<1>6. Lazy!ConstructedOnceIfRegistered'
  BY <1>1 DEF Lazy!IInv, Lazy!ConstructedOnceIfRegistered, Lazy!ConstructedOnce
<1>7. ASSUME NEW u, NEW n, NEW g, NEW c, Lazy!Knows(u, n, g, c) PROVE Lazy!Knows(u, n, g, c)'
  BY <1>1, <1>7
  DEF Lazy!Knows, Lazy!KnowsWord, Lazy!KnowsPhase, Lazy!KnowsUses, Lazy!Created, Lazy!Gone,
      Lazy!Kept, Lazy!Registered
<1> QED  BY <1>2, <1>3, <1>4, <1>5, <1>6, <1>7

LEMMA MovesKeep ==
  ASSUME Lazy!IInv, UNCHANGED others, NEW t \in Lazy!Everyone, stack[t] # <<>>,
         NEW f \in Lazy!Frames,
         f.inst = Lazy!Top(t).inst, ~Lazy!Creates(f), Lazy!Knows(t, Len(stack[t]), f, {}),
         stack' = [stack EXCEPT ![t] = [stack[t] EXCEPT ![Len(stack[t])] = f]]
  PROVE  Lazy!IInv'
<1>1. /\ (StacksTyped' => Lazy!TypeOK') /\ (phase = "exiting" <=> lock_ = Main)'
      /\ Lazy!WordsTell' /\ Lazy!InOrder' /\ Lazy!ConstructedOnceIfRegistered'
      /\ \A u, n, g, c : Lazy!Knows(u, n, g, c) => Lazy!Knows(u, n, g, c)'
  BY OthersStay
<1>2. StacksTyped' /\ Lazy!OneCreator' /\ Lazy!EveryoneKnows'
  <2>1. PICK s : s = stack[t]  OBVIOUS
  <2>2. Lazy!Top(t) = s[Len(s)] /\ s # <<>>  BY <2>1, TopKnows
  <2>3. Lazy!Knows(t, Len(s), f, {})'
    <3>1. Lazy!Knows(t, Len(s), f, {})  BY <2>1
    <3> QED  BY <1>1, <3>1
  <2> QED  BY <1>1, <2>1, <2>2, <2>3, TopGoesOn
<1> QED  BY <1>1, <1>2 DEF Lazy!IInv

LEMMA LoadKeeps ==
  ASSUME Lazy!IInv, NEW t \in Lazy!Everyone, Lazy!Load(t)
  PROVE  Lazy!IInv'
<1> DEFINE p == IF private_instance_[Lazy!Top(t).inst] = "created" THEN "done" ELSE "cas"
<1>1. stack[t] # <<>> /\ Lazy!Top(t).pc = "load" /\ Lazy!GoTo(t, p) /\ UNCHANGED others
  BY EmptySeq DEF Lazy!Load, Lazy!At, Lazy!Depth, others
<1>2. Lazy!Knows(t, Len(stack[t]), Lazy!Top(t), {})  BY <1>1, TopKnows
<1>3. p \in {"done", "cas"} /\ (p = "done" <=> Lazy!Created(Lazy!Top(t).inst))  BY DEF Lazy!Created
<1> HIDE DEF p
<1>4. PICK f \in Lazy!Frames :
        /\ f.inst = Lazy!Top(t).inst /\ f.pc = p
        /\ stack' = [stack EXCEPT ![t] = [stack[t] EXCEPT ![Len(stack[t])] = f]]
  BY <1>1, <1>3, GoesTo
<1>5. Lazy!Knows(t, Len(stack[t]), f, {})
  BY <1>1, <1>2, <1>3, <1>4 DEF Lazy!Knows, Lazy!KnowsWord, Lazy!KnowsPhase, Lazy!KnowsUses
<1> QED  BY <1>1, <1>3, <1>4, <1>5, MovesKeep DEF Lazy!Creates

LEMMA SpinKeeps ==
  ASSUME Lazy!IInv, NEW t \in Lazy!Everyone, Lazy!Spin(t)
  PROVE  Lazy!IInv'
<1>1. /\ stack[t] # <<>> /\ Lazy!Top(t).pc = "spin" /\ Lazy!GoTo(t, "done") /\ UNCHANGED others
      /\ private_instance_[Lazy!Top(t).inst] # "creating"
  BY EmptySeq DEF Lazy!Spin, Lazy!At, Lazy!Depth, others
<1>2. Lazy!Knows(t, Len(stack[t]), Lazy!Top(t), {}) /\ Lazy!Top(t).inst \in Instances
  BY <1>1, TopKnows DEF Lazy!Frames
<1>3. PICK f \in Lazy!Frames :
        /\ f.inst = Lazy!Top(t).inst /\ f.pc = "done"
        /\ stack' = [stack EXCEPT ![t] = [stack[t] EXCEPT ![Len(stack[t])] = f]]
  BY <1>1, GoesTo
<1>4. Lazy!Created(f.inst) \/ Lazy!Gone(f.inst)
  <2>1. private_instance_[f.inst] \in Lazy!States  BY <1>2, <1>3 DEF Lazy!IInv, Lazy!TypeOK
  <2> QED  BY <1>1, <1>2, <1>3, <2>1 DEF Lazy!Knows, Lazy!KnowsWord, Lazy!Created, Lazy!States
<1>5. (t = Main /\ ~unregistered) => FALSE
  BY <1>1, <1>2 DEF Lazy!Knows, Lazy!KnowsPhase
<1>6. Lazy!Knows(t, Len(stack[t]), f, {})
  BY <1>1, <1>2, <1>3, <1>4, <1>5 DEF Lazy!Knows, Lazy!KnowsWord, Lazy!KnowsPhase, Lazy!KnowsUses
<1> QED  BY <1>1, <1>3, <1>6, MovesKeep DEF Lazy!Creates

LEMMA ConstructKeeps ==
  ASSUME Lazy!IInv, NEW t \in Lazy!Everyone, stack[t] # <<>>, Lazy!Top(t).pc = "cas",
         private_instance_[Lazy!Top(t).inst] = "0", Lazy!Construct(t, Lazy!Top(t).inst),
         UNCHANGED <<lock_, stack_, phase, built, unregistered>>
  PROVE  Lazy!IInv'
<1> DEFINE i == Lazy!Top(t).inst
<1>1. /\ private_instance_' = [private_instance_ EXCEPT ![i] = "creating"]
      /\ dead_' = dead_ \union ({i} \intersect Static)
  BY DEF Lazy!Construct
<1>2. /\ Lazy!Knows(t, Len(stack[t]), Lazy!Top(t), {})
      /\ i \in Instances /\ Lazy!Top(t) \in Lazy!Frames
      /\ Lazy!Top(t) = stack[t][Len(stack[t])]
  BY TopKnows DEF Lazy!Frames
<1>3. private_instance_ \in [Instances -> Lazy!States] /\ dead_ \subseteq Static
  BY DEF Lazy!IInv, Lazy!TypeOK
<1>4. /\ private_instance_'[i] = "creating"
      /\ \A j \in Instances : j # i => private_instance_'[j] = private_instance_[j]
  BY <1>1, <1>2, <1>3
<1>5. /\ ~built[i] /\ (phase = "running" => constructed[i] = 0 /\ i \notin dead_)
      /\ i \in Static \ dead_ => constructed[i] = 0
  BY <1>2 DEF Lazy!IInv, Lazy!WordsTell
<1>6. (t = Main => phase = "exiting" /\ unregistered /\ Len(stack[t]) # 1)
      /\ (t # Main /\ phase # "running" => i \in dead_ /\ Len(stack[t]) = 1)
  BY <1>2 DEF Lazy!Knows, Lazy!KnowsPhase
<1>7. \A j \in Instances : Lazy!Created(j) => Lazy!Created(j)'  BY <1>4 DEF Lazy!Created
<1>8. \A u \in Lazy!Everyone, n \in Nat, g \in Lazy!Frames, c \in SUBSET Instances :
        Lazy!Knows(u, n, g, c) => Lazy!Knows(u, n, g, c)'
  <2> SUFFICES ASSUME NEW u \in Lazy!Everyone, NEW n \in Nat, NEW g \in Lazy!Frames,
                      NEW c \in SUBSET Instances, Lazy!Knows(u, n, g, c)
               PROVE  Lazy!Knows(u, n, g, c)'
    OBVIOUS
  <2>1. g.inst \in Instances  BY DEF Lazy!Frames
  <2>2. Lazy!KnowsWord(g)'
    <3>1. Lazy!Gone(g.inst) => Lazy!Gone(g.inst)'  BY <1>1 DEF Lazy!Gone
    <3>2. private_instance_[g.inst] # "0" => private_instance_'[g.inst] = private_instance_[g.inst]
      BY <1>4, <2>1
    <3>3. g.pc = "spin" => private_instance_'[g.inst] # "0" \/ Lazy!Gone(g.inst)'
      BY <1>4, <2>1, <3>1 DEF Lazy!Knows, Lazy!KnowsWord
    <3> QED  BY <3>1, <3>2, <3>3 DEF Lazy!Knows, Lazy!KnowsWord, Lazy!Created, Lazy!Registered
  <2>3. Lazy!KnowsPhase(u, n, g)'
    BY <1>1, <1>7, <2>1 DEF Lazy!Knows, Lazy!KnowsPhase
  <2>4. ~unregistered' => Lazy!KnowsUses(g, c)'
    <3>1. \A j \in Uses[g.inst] : Lazy!Kept(j) => Lazy!Kept(j)'
      BY <1>7, <2>1, LazyAssumption DEF Lazy!Kept, Lazy!Registered, Lazy!LazyInstanceAssumption
    <3> QED  BY <3>1 DEF Lazy!Knows, Lazy!KnowsUses
  <2> QED  BY <2>2, <2>3, <2>4 DEF Lazy!Knows
<1>9. Lazy!WordsTell'
  BY <1>1, <1>3, <1>4, <1>5
  DEF Lazy!IInv, Lazy!WordsTell, Lazy!Created, Lazy!Construct, Lazy!TypeOK
<1>10. Lazy!InOrder'
  <2>1. \A j \in Lazy!Registered : Lazy!Created(j)'
    BY <1>7 DEF Lazy!IInv, Lazy!InOrder, Lazy!Registered, Lazy!TypeOK
  <2> QED
    BY <1>7, <2>1, LazyAssumption
    DEF Lazy!IInv, Lazy!InOrder, Lazy!Registered, Lazy!LazyInstanceAssumption, Lazy!TypeOK
<1>11. Lazy!ConstructedOnceIfRegistered' /\ constructed' \in [Instances -> 0 .. 2]
  <2>1. constructed \in [Instances -> 0 .. 2] /\ Lazy!ConstructedOnceIfRegistered
    BY DEF Lazy!IInv, Lazy!TypeOK
  <2>2. CASE i \in dead_
    <3>1. UNCHANGED constructed  BY <2>2 DEF Lazy!Construct, Lazy!Refuses
    <3> QED  BY <2>1, <3>1 DEF Lazy!ConstructedOnceIfRegistered, Lazy!ConstructedOnce
  <2>3. CASE i \notin dead_
    <3>1. constructed' = [constructed EXCEPT ![i] = IF @ < 2 THEN @ + 1 ELSE @]
      BY <2>3 DEF Lazy!Construct, Lazy!Refuses
    <3>2. constructed' \in [Instances -> 0 .. 2]  BY <1>2, <2>1, <3>1
    <3>3. ~unregistered \/ i \in Static => constructed[i] = 0
      BY <1>5, <1>6, <2>3 DEF Lazy!IInv, Lazy!TypeOK, Lazy!Everyone
    <3>4. ~unregistered \/ i \in Static => constructed'[i] = 1
      BY <1>2, <2>1, <3>1, <3>3
    <3>5. \A j \in Instances : j # i => constructed'[j] = constructed[j]
      BY <2>1, <3>1
    <3>6. \A j \in Static : j \in Instances  BY LazyAssumption DEF Lazy!LazyInstanceAssumption
    <3> QED
      BY <2>1, <3>2, <3>4, <3>5, <3>6 DEF Lazy!ConstructedOnceIfRegistered, Lazy!ConstructedOnce
  <2> QED  BY <2>2, <2>3
<1>12. PICK f \in Lazy!Frames :
        /\ f.inst = i /\ f.pc \in {"new", "publish"}
        /\ f.pc = "new" => f.todo = Uses[i] /\ i \notin dead_
        /\ f.pc = "publish" => i \in dead_
        /\ stack' = [stack EXCEPT ![t] = [stack[t] EXCEPT ![Len(stack[t])] = f]]
  <2>1. CASE i \in dead_
    <3>1. Lazy!GoTo(t, "publish")  BY <2>1 DEF Lazy!Construct, Lazy!Refuses
    <3> QED  BY <2>1, <3>1, GoesTo
  <2>2. CASE i \notin dead_
    <3> DEFINE f == [inst |-> i, pc |-> "new", todo |-> Uses[i]]
    <3>1. Uses[i] \in SUBSET Instances  BY <1>2, LazyAssumption DEF Lazy!LazyInstanceAssumption
    <3>2. f \in Lazy!Frames  BY <1>2, <3>1 DEF Lazy!Frames
    <3>3. stack' = [stack EXCEPT ![t][Len(stack[t])] = f]
      BY <2>2 DEF Lazy!Construct, Lazy!Refuses, Lazy!Depth
    <3>4. stack' = [stack EXCEPT ![t] = [stack[t] EXCEPT ![Len(stack[t])] = f]]
      BY <3>3
    <3> QED  BY <2>2, <3>2, <3>4
  <2> QED  BY <2>1, <2>2
<1>13. StacksTyped' /\ Lazy!OneCreator' /\ Lazy!EveryoneKnows'
  <2>1. PICK s, n : s = stack[t] /\ n = Len(s)  OBVIOUS
  <2>2. Lazy!KnowsWord(f)'
    BY <1>1, <1>2, <1>4, <1>5, <1>12 DEF Lazy!KnowsWord, Lazy!Gone
  <2>3. Lazy!KnowsPhase(t, n, f)'
    <3>1. CASE t = Main
      <4>1. phase' = "exiting" /\ n # 1 /\ unregistered'  BY <1>6, <2>1, <3>1
      <4> QED  BY <1>12, <3>1, <4>1 DEF Lazy!KnowsPhase
    <3>2. CASE t # Main
      <4>1. phase' # "running" => n = 1 /\ f.inst \in dead_' /\ f.inst \in dead_ /\ ~built'[f.inst]
        BY <1>1, <1>5, <1>6, <1>12, <2>1, <3>2
      <4> QED  BY <1>12, <3>2, <4>1 DEF Lazy!KnowsPhase
    <3> QED  BY <3>1, <3>2
  <2>4. Lazy!KnowsUses(f, {})'
    BY <1>5, <1>12 DEF Lazy!KnowsUses
  <2>5. Lazy!Knows(t, n, f, {})'  BY <2>2, <2>3, <2>4 DEF Lazy!Knows
  <2> QED  BY <1>2, <1>8, <1>12, <2>1, <2>5, TopGoesOn
<1>14. Lazy!TypeOK'
  BY <1>1, <1>3, <1>11, <1>13 DEF Lazy!IInv, Lazy!TypeOK, StacksTyped, Lazy!States, Lazy!Everyone
<1> QED  BY <1>9, <1>10, <1>11, <1>13, <1>14 DEF Lazy!IInv

LEMMA CasKeeps ==
  ASSUME Lazy!IInv, NEW t \in Lazy!Everyone, Lazy!Cas(t)
  PROVE  Lazy!IInv'
<1>1. stack[t] # <<>> /\ Lazy!Top(t).pc = "cas"  BY EmptySeq DEF Lazy!Cas, Lazy!At, Lazy!Depth
<1>2. CASE private_instance_[Lazy!Top(t).inst] = "0"
  BY <1>1, <1>2, ConstructKeeps DEF Lazy!Cas
<1>3. CASE private_instance_[Lazy!Top(t).inst] # "0"
  <2>1. Lazy!GoTo(t, "spin") /\ UNCHANGED others  BY <1>3 DEF Lazy!Cas, others
  <2>2. PICK f \in Lazy!Frames :
          /\ f.inst = Lazy!Top(t).inst /\ f.pc = "spin"
          /\ stack' = [stack EXCEPT ![t] = [stack[t] EXCEPT ![Len(stack[t])] = f]]
    BY <1>1, <2>1, GoesTo
  <2>3. Lazy!Knows(t, Len(stack[t]), Lazy!Top(t), {})  BY <1>1, TopKnows
  <2>4. Lazy!Knows(t, Len(stack[t]), f, {})
    BY <1>1, <1>3, <2>2, <2>3 DEF Lazy!Knows, Lazy!KnowsWord, Lazy!KnowsPhase, Lazy!KnowsUses
  <2> QED  BY <1>1, <2>1, <2>2, <2>4, MovesKeep DEF Lazy!Creates
<1> QED  BY <1>2, <1>3

(* The stack of t becomes r, and nobody else creates.                      *)
LEMMA StackGoesOn ==
  ASSUME Lazy!IInv, NEW t \in Lazy!Everyone, NEW r \in Seq(Lazy!Frames),
         stack' = [stack EXCEPT ![t] = r],
         \A n \in DOMAIN r : Lazy!Creates(r[n]) =>
            n \in DOMAIN stack[t] /\ Lazy!Creates(stack[t][n]) /\ stack[t][n].inst = r[n].inst,
         \A n \in DOMAIN r : Lazy!Knows(t, n, r[n], Lazy!Called(r, n))',
         \A u \in Lazy!Everyone : \A n, g, c :
            u # t => (Lazy!Knows(u, n, g, c) => Lazy!Knows(u, n, g, c)')
  PROVE  StacksTyped' /\ Lazy!OneCreator' /\ Lazy!EveryoneKnows'
<1>1. stack \in [Lazy!Everyone -> Seq(Lazy!Frames)]  BY DEF Lazy!IInv, Lazy!TypeOK, Lazy!Everyone
<1>2. stack' \in [Lazy!Everyone -> Seq(Lazy!Frames)] /\ stack'[t] = r
      /\ \A u \in Lazy!Everyone : u # t => stack'[u] = stack[u]
  BY <1>1
<1>3. Lazy!OneCreator'
  <2> SUFFICES ASSUME NEW u \in Lazy!Everyone, NEW v \in Lazy!Everyone, NEW m \in DOMAIN stack'[u],
                      NEW n \in DOMAIN stack'[v],
                      Lazy!Creates(stack'[u][m]), Lazy!Creates(stack'[v][n]),
                      stack'[u][m].inst = stack'[v][n].inst
               PROVE  u = v /\ m = n
    BY DEF Lazy!OneCreator, Lazy!Everyone, Lazy!Creates
  <2>1. m \in DOMAIN stack[u] /\ Lazy!Creates(stack[u][m]) /\ stack[u][m].inst = stack'[u][m].inst
    BY <1>2
  <2>2. n \in DOMAIN stack[v] /\ Lazy!Creates(stack[v][n]) /\ stack[v][n].inst = stack'[v][n].inst
    BY <1>2
  <2> QED  BY <2>1, <2>2 DEF Lazy!IInv, Lazy!OneCreator
<1>4. Lazy!EveryoneKnows'
  <2> SUFFICES ASSUME NEW u \in Lazy!Everyone, NEW n \in DOMAIN stack'[u]
               PROVE  Lazy!Knows(u, n, stack[u][n], Lazy!Called(stack[u], n))'
    BY DEF Lazy!EveryoneKnows, Lazy!Everyone
  <2>1. PICK g, c : g = stack'[u][n] /\ c = Lazy!Called(stack'[u], n)  OBVIOUS
  <2>2. Lazy!Knows(u, n, g, c)'
    <3>1. CASE u = t
      <4>1. stack'[u] = r  BY <1>2, <3>1
      <4>2. PICK d : d = Lazy!Called(r, n)  OBVIOUS
      <4>3. Lazy!Knows(t, n, r[n], d)'  BY <4>1, <4>2
      <4> QED  BY <2>1, <3>1, <4>1, <4>2, <4>3
    <3>2. CASE u # t
      <4>1. stack'[u] = stack[u]  BY <1>2, <3>2
      <4>2. Lazy!Knows(u, n, g, c)  BY <2>1, <4>1 DEF Lazy!IInv, Lazy!EveryoneKnows
      <4> QED  BY <3>2, <4>2
    <3> QED  BY <3>1, <3>2
  <2>3. Lazy!Knows(u, n, stack[u][n], Lazy!Called(stack[u], n))' <=> Lazy!Knows(u, n, g, c)'
    BY <2>1 DEF Lazy!Knows, Lazy!KnowsWord, Lazy!KnowsPhase, Lazy!KnowsUses, Lazy!Called
  <2> QED  BY <2>2, <2>3
<1> QED  BY <1>2, <1>3, <1>4 DEF StacksTyped, Lazy!Everyone

LEMMA CallKeeps ==
  ASSUME Lazy!IInv, NEW t \in Threads, NEW i \in Instances, Lazy!Call(t, i)
  PROVE  Lazy!IInv'
<1> DEFINE f == Lazy!Pointer(i)
<1>1. stack[t] = <<>> /\ UNCHANGED others /\ (phase = "running" \/ i \in dead_)
      /\ stack' = [stack EXCEPT ![t] = <<f>>]
  BY DEF Lazy!Call, others
<1>2. f \in Lazy!Frames /\ f.inst = i /\ f.pc = "load"  BY DEF Lazy!Pointer, Lazy!Frames
<1> HIDE DEF f
<1>3. PICK r : r = <<f>>  OBVIOUS
<1>4. r \in Seq(Lazy!Frames) /\ DOMAIN r = {1} /\ r[1] = f  BY <1>2, <1>3
<1>5. t \in Lazy!Everyone /\ t # Main
  BY LazyAssumption DEF Lazy!Everyone, Lazy!LazyInstanceAssumption
<1>6. \A u, n, g, c : Lazy!Knows(u, n, g, c) => Lazy!Knows(u, n, g, c)'  BY <1>1, OthersStay
<1>7. \A c : Lazy!Knows(t, 1, f, c)
  BY <1>1, <1>2, <1>5 DEF Lazy!Knows, Lazy!KnowsWord, Lazy!KnowsPhase, Lazy!KnowsUses
<1>8. \A n \in DOMAIN r : Lazy!Knows(t, n, r[n], Lazy!Called(r, n))'
  <2>1. \A c : Lazy!Knows(t, 1, f, c)'  BY <1>6, <1>7
  <2> QED  BY <1>4, <2>1
<1>9. StacksTyped' /\ Lazy!OneCreator' /\ Lazy!EveryoneKnows'
  BY <1>1, <1>2, <1>3, <1>4, <1>5, <1>6, <1>8, StackGoesOn DEF Lazy!Creates
<1> QED  BY <1>1, <1>9, OthersStay DEF Lazy!IInv

(* A constructor, or a destructor, uses an instance.                       *)
LEMMA UseKeeps ==
  ASSUME Lazy!IInv, NEW t \in Lazy!Everyone, Lazy!Use(t)
  PROVE  Lazy!IInv'
<1> DEFINE s == stack[t]
<1>1. s # <<>> /\ Lazy!Top(t).pc \in {"new", "delete"} /\ UNCHANGED others
  BY EmptySeq DEF Lazy!Use, Lazy!At, Lazy!Depth, others
<1>2. PICK j \in Lazy!Top(t).todo :
        stack' = [stack EXCEPT ![t] =
            Append([s EXCEPT ![Len(s)].todo = Lazy!Top(t).todo \ {j}], Lazy!Pointer(j))]
  BY DEF Lazy!Use, Lazy!Depth
<1>3. /\ s \in Seq(Lazy!Frames) /\ Len(s) \in Nat /\ Len(s) > 0 /\ Len(s) \in DOMAIN s
      /\ Lazy!Top(t) = s[Len(s)] /\ Lazy!Top(t) \in Lazy!Frames
      /\ Lazy!Knows(t, Len(s), Lazy!Top(t), {})
  BY <1>1, TopKnows
<1> DEFINE f == [Lazy!Top(t) EXCEPT !.todo = Lazy!Top(t).todo \ {j}]
           g == Lazy!Pointer(j)
           q == [s EXCEPT ![Len(s)] = f]
<1>4. /\ f \in Lazy!Frames /\ f.inst = Lazy!Top(t).inst /\ f.pc = Lazy!Top(t).pc
      /\ f.todo = Lazy!Top(t).todo \ {j}
  BY <1>3 DEF Lazy!Frames
<1>5. j \in Instances /\ g \in Lazy!Frames /\ g.inst = j /\ g.pc = "load"
  BY <1>3 DEF Lazy!Frames, Lazy!Pointer
<1>6. stack' = [stack EXCEPT ![t] = Append(q, g)]  BY <1>2, <1>3
<1> HIDE DEF f, g
<1>7. /\ q \in Seq(Lazy!Frames) /\ Len(q) = Len(s) /\ DOMAIN q = DOMAIN s
      /\ q[Len(s)] = f /\ \A n \in DOMAIN s : n # Len(s) => q[n] = s[n]
      /\ \A n \in Nat : Lazy!Called(q, n) = Lazy!Called(s, n)
  BY <1>1, <1>3, <1>4, TopChanges
<1> HIDE DEF q
<1>8. PICK r \in Seq(Lazy!Frames) :
      /\ stack' = [stack EXCEPT ![t] = r] /\ DOMAIN r = DOMAIN q \union {Len(q) + 1}
      /\ r[Len(q) + 1] = g /\ \A n \in DOMAIN q : r[n] = q[n]
      /\ \A n \in DOMAIN q : n # Len(q) => Lazy!Called(r, n) = Lazy!Called(q, n)
      /\ Lazy!Called(r, Len(q)) = {g.inst} /\ Lazy!Called(r, Len(q) + 1) = {}
  BY <1>5, <1>6, <1>7, TopCalls
<1>9. \A u, n, h, c : Lazy!Knows(u, n, h, c) => Lazy!Knows(u, n, h, c)'  BY <1>1, OthersStay
<1>10. Lazy!Knows(t, Len(s), f, {j})
  BY <1>3, <1>4 DEF Lazy!Knows, Lazy!KnowsWord, Lazy!KnowsPhase, Lazy!KnowsUses
<1>11. Lazy!Knows(t, Len(s) + 1, g, {})
  <2>1. CASE t = Main
    <3>1. phase = "exiting" /\ Len(s) + 1 # 1  BY <1>3, <2>1 DEF Lazy!Knows, Lazy!KnowsPhase
    <3>2. ~unregistered => Len(s) + 1 = 2 /\ Lazy!Created(j)
      <4>1. SUFFICES ASSUME ~unregistered PROVE Len(s) + 1 = 2 /\ Lazy!Created(j)  OBVIOUS
      <4>2. /\ Len(s) = 1 /\ Lazy!Top(t).todo \subseteq Uses[Lazy!Top(t).inst]
            /\ stack_ # <<>> /\ Lazy!Top(t).inst = stack_[Len(stack_)]
        BY <1>1, <1>3, <2>1, <4>1 DEF Lazy!Knows, Lazy!KnowsPhase
      <4>3. Len(stack_) \in DOMAIN stack_
        BY <4>2, LenProperties, EmptySeq DEF Lazy!IInv, Lazy!TypeOK
      <4>4. j \in Leaky \/ j \in Lazy!Registered => Lazy!Created(j)
        BY <4>1, <4>2, <4>3 DEF Lazy!IInv, Lazy!InOrder
      <4>5. j \in Leaky \/ j \in Lazy!Registered
        BY <4>1, <4>2, <4>3 DEF Lazy!IInv, Lazy!InOrder, Lazy!Registered
      <4> QED  BY <4>2, <4>4, <4>5
    <3> QED
      BY <1>5, <2>1, <3>1, <3>2 DEF Lazy!Knows, Lazy!KnowsWord, Lazy!KnowsPhase, Lazy!KnowsUses
  <2>2. CASE t # Main
    <3>1. phase = "running"  BY <1>1, <1>3, <2>2 DEF Lazy!Knows, Lazy!KnowsPhase
    <3> QED  BY <1>5, <2>2, <3>1 DEF Lazy!Knows, Lazy!KnowsWord, Lazy!KnowsPhase, Lazy!KnowsUses
  <2> QED  BY <2>1, <2>2
<1>12. \A n \in DOMAIN r : Lazy!Knows(t, n, r[n], Lazy!Called(r, n))'
  <2> SUFFICES ASSUME NEW n \in DOMAIN r PROVE Lazy!Knows(t, n, r[n], Lazy!Called(r, n))  BY <1>9
  <2>1. CASE n = Len(s)  BY <1>3, <1>5, <1>7, <1>8, <1>10, <2>1
  <2>2. CASE n = Len(s) + 1  BY <1>7, <1>8, <1>11, <2>2
  <2>3. CASE n \in DOMAIN s /\ n # Len(s)
    <3>1. n \in Nat  BY <1>3, <2>3, StackTop
    <3>2. r[n] = s[n] /\ Lazy!Called(r, n) = Lazy!Called(s, n)  BY <1>7, <1>8, <2>3, <3>1
    <3> QED  BY <2>3, <3>2 DEF Lazy!IInv, Lazy!EveryoneKnows
  <2> QED  BY <1>7, <1>8, <2>1, <2>2, <2>3
<1>13. \A n \in DOMAIN r : Lazy!Creates(r[n]) =>
          n \in DOMAIN s /\ Lazy!Creates(s[n]) /\ s[n].inst = r[n].inst
  <2>1. \A n \in DOMAIN s : r[n] = IF n = Len(s) THEN f ELSE s[n]  BY <1>3, <1>7, <1>8
  <2>2. ~Lazy!Creates(r[Len(s) + 1])  BY <1>5, <1>7, <1>8 DEF Lazy!Creates
  <2> QED  BY <1>3, <1>4, <1>7, <1>8, <2>1, <2>2 DEF Lazy!Creates
<1>14. StacksTyped' /\ Lazy!OneCreator' /\ Lazy!EveryoneKnows'
  BY <1>8, <1>9, <1>12, <1>13, StackGoesOn
<1> QED  BY <1>1, <1>14, OthersStay DEF Lazy!IInv

LEMMA NewKeeps ==
  ASSUME Lazy!IInv, NEW t \in Lazy!Everyone, Lazy!New(t)
  PROVE  Lazy!IInv'
<1> DEFINE i == Lazy!Top(t).inst
<1>1. /\ stack[t] # <<>> /\ Lazy!Top(t).pc = "new" /\ Lazy!Top(t).todo = {}
      /\ Lazy!GoTo(t, "publish")
      /\ built' = [built EXCEPT ![i] = TRUE]
      /\ UNCHANGED <<private_instance_, dead_, lock_, stack_, phase, constructed, unregistered>>
  BY EmptySeq DEF Lazy!New, Lazy!At, Lazy!Depth
<1>2. /\ Lazy!Knows(t, Len(stack[t]), Lazy!Top(t), {}) /\ i \in Instances
      /\ Lazy!Top(t) = stack[t][Len(stack[t])]
  BY <1>1, TopKnows DEF Lazy!Frames
<1>3. built \in [Instances -> BOOLEAN]  BY DEF Lazy!IInv, Lazy!TypeOK
<1>4. built' \in [Instances -> BOOLEAN]  BY <1>1, <1>3
<1>5. built'[i] /\ \A j \in Instances : j # i => built'[j] = built[j]  BY <1>1, <1>2, <1>3
<1>6. PICK f \in Lazy!Frames :
        /\ f.inst = i /\ f.pc = "publish"
        /\ stack' = [stack EXCEPT ![t] = [stack[t] EXCEPT ![Len(stack[t])] = f]]
  BY <1>1, GoesTo
<1>7. private_instance_[i] = "creating"  BY <1>1, <1>2 DEF Lazy!Knows, Lazy!KnowsWord
<1> HIDE DEF i
<1>8. Lazy!WordsTell'  BY <1>1, <1>5, <1>7 DEF Lazy!IInv, Lazy!WordsTell, Lazy!Created
<1>9. Lazy!InOrder' /\ Lazy!ConstructedOnceIfRegistered' /\ (phase = "exiting" <=> lock_ = Main)'
  BY <1>1 DEF Lazy!IInv, Lazy!InOrder, Lazy!Created, Lazy!Registered,
              Lazy!ConstructedOnceIfRegistered, Lazy!ConstructedOnce
<1>10. \A u \in Lazy!Everyone, n \in Nat, g \in Lazy!Frames, c \in SUBSET Instances :
         Lazy!Knows(u, n, g, c) /\ ~(Lazy!Creates(g) /\ g.inst = i) => Lazy!Knows(u, n, g, c)'
  <2> SUFFICES ASSUME NEW u \in Lazy!Everyone, NEW n \in Nat, NEW g \in Lazy!Frames,
                      NEW c \in SUBSET Instances, Lazy!Knows(u, n, g, c),
                      ~(Lazy!Creates(g) /\ g.inst = i)
               PROVE  Lazy!Knows(u, n, g, c)'
    OBVIOUS
  <2>1. g.inst \in Instances  BY DEF Lazy!Frames
  <2>2. g.pc = "publish" => built'[g.inst] = built[g.inst]  BY <1>5, <2>1 DEF Lazy!Creates
  <2> QED  BY <1>1, <2>1, <2>2
           DEF Lazy!Knows, Lazy!KnowsWord, Lazy!KnowsPhase, Lazy!KnowsUses, Lazy!Created,
               Lazy!Gone, Lazy!Kept, Lazy!Registered
<1>11. StacksTyped' /\ Lazy!OneCreator' /\ Lazy!EveryoneKnows'
  <2>1. PICK s, n : s = stack[t] /\ n = Len(s)  OBVIOUS
  <2>2. Lazy!KnowsWord(f)'  BY <1>1, <1>5, <1>6, <1>7 DEF Lazy!KnowsWord
  <2>3. Lazy!KnowsPhase(t, n, f)'
    <3>1. CASE t = Main
      <4>1. phase = "exiting" /\ n # 1 /\ unregistered
        BY <1>1, <1>2, <2>1, <3>1 DEF Lazy!Knows, Lazy!KnowsPhase
      <4> QED  BY <1>1, <1>6, <3>1, <4>1 DEF Lazy!KnowsPhase
    <3>2. CASE t # Main
      <4>1. phase = "running"  BY <1>1, <1>2, <3>2 DEF Lazy!Knows, Lazy!KnowsPhase
      <4> QED  BY <1>1, <1>6, <3>2, <4>1 DEF Lazy!KnowsPhase
    <3> QED  BY <3>1, <3>2
  <2>4. ~unregistered' => Lazy!KnowsUses(f, {})'
    BY <1>1, <1>2, <1>6 DEF Lazy!Knows, Lazy!KnowsUses, Lazy!Kept, Lazy!Created, Lazy!Registered, i
  <2>5. Lazy!Knows(t, n, f, {})'  BY <2>2, <2>3, <2>4 DEF Lazy!Knows
  <2>6. s # <<>> /\ s[Len(s)] = Lazy!Top(t) /\ Lazy!Creates(s[Len(s)])
    BY <1>1, <1>2, <2>1 DEF Lazy!Creates
  <2> QED  BY <1>6, <1>10, <2>1, <2>5, <2>6, TopGoesOn DEF i
<1>12. Lazy!TypeOK'  BY <1>1, <1>4, <1>11 DEF Lazy!IInv, Lazy!TypeOK, StacksTyped, Lazy!Everyone
<1> QED  BY <1>8, <1>9, <1>11, <1>12 DEF Lazy!IInv

LEMMA PublishKeeps ==
  ASSUME Lazy!IInv, NEW t \in Lazy!Everyone, Lazy!Publish(t)
  PROVE  Lazy!IInv'
<1> PICK i : i = Lazy!Top(t).inst  OBVIOUS
<1> PICK w : w = IF built[i] THEN "created" ELSE "0"  OBVIOUS
<1> PICK p : p = IF built[i] /\ i \notin Leaky THEN "register" ELSE "done"  OBVIOUS
<1>1. /\ stack[t] # <<>> /\ Lazy!Top(t).pc = "publish" /\ Lazy!GoTo(t, p)
      /\ private_instance_' = [private_instance_ EXCEPT ![i] = w]
      /\ UNCHANGED <<dead_, lock_, stack_, phase, built, constructed, unregistered>>
  BY EmptySeq DEF Lazy!Publish, Lazy!At, Lazy!Depth
<1>2. /\ Lazy!Knows(t, Len(stack[t]), Lazy!Top(t), {}) /\ i \in Instances
      /\ Lazy!Top(t) = stack[t][Len(stack[t])]
  BY <1>1, TopKnows DEF Lazy!Frames
<1>3. private_instance_ \in [Instances -> Lazy!States]  BY DEF Lazy!IInv, Lazy!TypeOK
<1>4. w \in Lazy!States  BY DEF Lazy!States
<1>5. private_instance_[i] = "creating" /\ (built[i] \/ Lazy!Gone(i))
  BY <1>1, <1>2 DEF Lazy!Knows, Lazy!KnowsWord
<1>6. p \in {"register", "done"}  OBVIOUS
<1>7. (w = "created" /\ built[i]) \/ (w = "0" /\ ~built[i] /\ Lazy!Gone(i))  BY <1>5
<1>8. p = "register" => built[i] /\ i \notin Leaky  OBVIOUS
<1>9. PICK f \in Lazy!Frames :
        /\ f.inst = i /\ f.pc = p
        /\ stack' = [stack EXCEPT ![t] = [stack[t] EXCEPT ![Len(stack[t])] = f]]
  BY <1>1, <1>6, GoesTo
<1>10. /\ private_instance_' \in [Instances -> Lazy!States] /\ private_instance_'[i] = w
       /\ \A j \in Instances : j # i => private_instance_'[j] = private_instance_[j]
  BY <1>1, <1>2, <1>3, <1>4
<1>11. \A j \in Instances : Lazy!Created(j) => Lazy!Created(j)'  BY <1>5, <1>10 DEF Lazy!Created
<1>12. Lazy!WordsTell'
  BY <1>1, <1>7, <1>10 DEF Lazy!IInv, Lazy!WordsTell, Lazy!Created, Lazy!Gone
<1>13. Lazy!InOrder'
  <2>1. \A j \in Lazy!Registered : Lazy!Created(j)'
    BY <1>11 DEF Lazy!IInv, Lazy!InOrder, Lazy!Registered, Lazy!TypeOK
  <2> QED
    BY <1>1, <1>11, <2>1, LazyAssumption
    DEF Lazy!IInv, Lazy!InOrder, Lazy!Registered, Lazy!LazyInstanceAssumption, Lazy!TypeOK
<1>14. Lazy!ConstructedOnceIfRegistered' /\ (phase = "exiting" <=> lock_ = Main)'
  BY <1>1 DEF Lazy!IInv, Lazy!ConstructedOnceIfRegistered, Lazy!ConstructedOnce
<1>15. \A j \in Instances : Lazy!Kept(j) => Lazy!Kept(j)'
  BY <1>1, <1>11 DEF Lazy!Kept, Lazy!Registered
<1>16. \A u \in Lazy!Everyone, n \in Nat, g \in Lazy!Frames, c \in SUBSET Instances :
         Lazy!Knows(u, n, g, c) /\ ~(Lazy!Creates(g) /\ g.inst = i) => Lazy!Knows(u, n, g, c)'
  <2> SUFFICES ASSUME NEW u \in Lazy!Everyone, NEW n \in Nat, NEW g \in Lazy!Frames,
                      NEW c \in SUBSET Instances, Lazy!Knows(u, n, g, c),
                      ~(Lazy!Creates(g) /\ g.inst = i)
               PROVE  Lazy!Knows(u, n, g, c)'
    OBVIOUS
  <2>1. g.inst \in Instances  BY DEF Lazy!Frames
  <2>2. Lazy!KnowsWord(g)'
    <3>1. Lazy!Gone(g.inst) => Lazy!Gone(g.inst)'  BY <1>1 DEF Lazy!Gone
    <3>2. CASE g.inst = i
      <4>1. private_instance_'[i] # "0" \/ Lazy!Gone(i)'  BY <1>7, <1>10, <3>1, <3>2
      <4>2. Lazy!Created(i) => Lazy!Created(i)'  BY <1>2, <1>11
      <4> QED  BY <3>1, <3>2, <4>1, <4>2 DEF Lazy!Knows, Lazy!KnowsWord, Lazy!Creates
    <3>3. CASE g.inst # i
      <4>1. private_instance_'[g.inst] = private_instance_[g.inst]  BY <1>10, <2>1, <3>3
      <4> QED  BY <1>1, <3>1, <4>1 DEF Lazy!Knows, Lazy!KnowsWord, Lazy!Created, Lazy!Registered
    <3> QED  BY <3>2, <3>3
  <2>3. Lazy!KnowsPhase(u, n, g)'  BY <1>1, <1>11, <2>1 DEF Lazy!Knows, Lazy!KnowsPhase
  <2>4. ~unregistered' => Lazy!KnowsUses(g, c)'
    <3>1. \A j \in Uses[g.inst] : Lazy!Kept(j) => Lazy!Kept(j)'
      BY <1>15, <2>1, LazyAssumption DEF Lazy!LazyInstanceAssumption
    <3> QED  BY <1>1, <3>1 DEF Lazy!Knows, Lazy!KnowsUses
  <2> QED  BY <2>2, <2>3, <2>4 DEF Lazy!Knows
<1>17. StacksTyped' /\ Lazy!OneCreator' /\ Lazy!EveryoneKnows'
  <2>1. PICK s, n : s = stack[t] /\ n = Len(s)  OBVIOUS
  <2>2. Lazy!KnowsWord(f)'
    <3>1. i \notin Lazy!Registered  BY <1>5 DEF Lazy!IInv, Lazy!InOrder, Lazy!Created
    <3>2. f.pc = "register" => private_instance_'[i] = "created"  BY <1>7, <1>8, <1>9, <1>10
    <3>3. private_instance_'[i] = "created" \/ Lazy!Gone(i)'  BY <1>1, <1>7, <1>10 DEF Lazy!Gone
    <3> QED
      BY <1>1, <1>6, <1>8, <1>9, <3>1, <3>2, <3>3 DEF Lazy!KnowsWord, Lazy!Created, Lazy!Registered
  <2>3. Lazy!KnowsPhase(t, n, f)'
    <3>1. CASE t = Main
      <4>1. phase = "exiting" /\ n # 1 /\ unregistered
        BY <1>1, <1>2, <2>1, <3>1 DEF Lazy!Knows, Lazy!KnowsPhase
      <4> QED  BY <1>1, <1>6, <1>9, <3>1, <4>1 DEF Lazy!KnowsPhase
    <3>2. CASE t # Main
      <4>1. phase # "running" => n = 1 /\ i \in dead_ /\ ~built[i]
        BY <1>1, <1>2, <2>1, <3>2 DEF Lazy!Knows, Lazy!KnowsPhase
      <4> QED  BY <1>1, <1>6, <1>8, <1>9, <3>2, <4>1 DEF Lazy!KnowsPhase
    <3> QED  BY <3>1, <3>2
  <2>4. ~unregistered' => Lazy!KnowsUses(f, {})'
    <3>1. \A j \in Uses[i] : Lazy!Kept(j) => Lazy!Kept(j)'
      BY <1>2, <1>15, LazyAssumption DEF Lazy!LazyInstanceAssumption
    <3>2. ~unregistered /\ built[i] => \A j \in Uses[i] : Lazy!Kept(j)
      BY <1>1, <1>2 DEF Lazy!Knows, Lazy!KnowsUses
    <3> QED  BY <1>1, <1>6, <1>8, <1>9, <3>1, <3>2 DEF Lazy!KnowsUses
  <2>5. Lazy!Knows(t, n, f, {})'  BY <2>2, <2>3, <2>4 DEF Lazy!Knows
  <2>6. s # <<>> /\ s[Len(s)] = Lazy!Top(t) /\ Lazy!Creates(s[Len(s)])
    BY <1>1, <1>2, <2>1 DEF Lazy!Creates
  <2> QED  BY <1>9, <1>16, <2>1, <2>5, <2>6, TopGoesOn
<1>18. Lazy!TypeOK'  BY <1>1, <1>10, <1>17 DEF Lazy!IInv, Lazy!TypeOK, StacksTyped, Lazy!Everyone
<1> QED  BY <1>12, <1>13, <1>14, <1>17, <1>18 DEF Lazy!IInv

LEMMA RegisterKeeps ==
  ASSUME Lazy!IInv, NEW t \in Lazy!Everyone, Lazy!RegisterCallback(t)
  PROVE  Lazy!IInv'
<1> DEFINE i == Lazy!Top(t).inst
<1>1. /\ stack[t] # <<>> /\ Lazy!Top(t).pc = "register" /\ Lazy!GoTo(t, "done") /\ lock_ = Free
      /\ stack_' = Append(stack_, i)
      /\ UNCHANGED <<private_instance_, dead_, lock_, phase, built, constructed, unregistered>>
  BY EmptySeq DEF Lazy!RegisterCallback, Lazy!At, Lazy!Depth
<1>2. /\ Lazy!Knows(t, Len(stack[t]), Lazy!Top(t), {}) /\ i \in Instances
      /\ Lazy!Top(t) = stack[t][Len(stack[t])]
  BY <1>1, TopKnows DEF Lazy!Frames
<1>3. phase = "running" /\ t # Main
  <2>1. phase # "exiting"  BY <1>1, LazyAssumption DEF Lazy!IInv, Lazy!LazyInstanceAssumption
  <2> QED  BY <1>1, <1>2, <2>1 DEF Lazy!Knows, Lazy!KnowsPhase
<1>4. Lazy!Created(i) /\ i \notin Lazy!Registered /\ i \notin Leaky
  BY <1>1, <1>2 DEF Lazy!Knows, Lazy!KnowsWord
<1>5. ~unregistered => \A j \in Uses[i] : Lazy!Kept(j)
  BY <1>1, <1>2 DEF Lazy!Knows, Lazy!KnowsUses
<1>6. PICK f \in Lazy!Frames :
        /\ f.inst = i /\ f.pc = "done"
        /\ stack' = [stack EXCEPT ![t] = [stack[t] EXCEPT ![Len(stack[t])] = f]]
  BY <1>1, GoesTo
<1> HIDE DEF i
<1>7. stack_ \in Seq(Instances \ Leaky) /\ i \in Instances \ Leaky
  BY <1>2, <1>4 DEF Lazy!IInv, Lazy!TypeOK
<1>8. /\ stack_' \in Seq(Instances \ Leaky)
      /\ DOMAIN stack_' = DOMAIN stack_ \union {Len(stack_) + 1} /\ Len(stack_) \in Nat
      /\ DOMAIN stack_ = 1 .. Len(stack_)
      /\ stack_'[Len(stack_) + 1] = i /\ \A n \in DOMAIN stack_ : stack_'[n] = stack_[n]
  <2>1. PICK q : q = stack_'  OBVIOUS
  <2>2. /\ q \in Seq(Instances \ Leaky) /\ Len(q) = Len(stack_) + 1
        /\ q[Len(stack_) + 1] = i /\ \A n \in 1 .. Len(stack_) : q[n] = stack_[n]
    BY <1>1, <1>7, <2>1, AppendProperties
  <2>3. Len(stack_) \in Nat /\ DOMAIN stack_ = 1 .. Len(stack_) /\ DOMAIN q = 1 .. Len(stack_) + 1
    BY <1>7, <2>2, LenProperties
  <2> QED  BY <2>1, <2>2, <2>3
<1>9. Lazy!Registered' = Lazy!Registered \union {i}  BY <1>8 DEF Lazy!Registered
<1>10. \A j : Lazy!Created(j)' <=> Lazy!Created(j)  BY <1>1 DEF Lazy!Created
<1>11. \A j : Lazy!Kept(j) => Lazy!Kept(j)'  BY <1>9, <1>10 DEF Lazy!Kept
<1>12. Lazy!WordsTell' /\ Lazy!ConstructedOnceIfRegistered' /\ (phase = "exiting" <=> lock_ = Main)'
  BY <1>1 DEF Lazy!IInv, Lazy!WordsTell, Lazy!Created, Lazy!ConstructedOnceIfRegistered,
              Lazy!ConstructedOnce
<1>13. Lazy!InOrder'
  <2>1. \A m, n \in DOMAIN stack_' : stack_'[m] = stack_'[n] => m = n
    BY <1>4, <1>8 DEF Lazy!IInv, Lazy!InOrder, Lazy!Registered
  <2>2. \A j \in Lazy!Registered' : Lazy!Created(j)'
    BY <1>4, <1>9, <1>10 DEF Lazy!IInv, Lazy!InOrder
  <2>3. ASSUME ~unregistered', NEW n \in DOMAIN stack_', NEW j \in Uses[stack_'[n]]
        PROVE  IF j \in Leaky THEN Lazy!Created(j)'
               ELSE \E m \in DOMAIN stack_' : m < n /\ stack_'[m] = j
    <3>1. CASE n \in DOMAIN stack_
      <4>1. j \in Uses[stack_[n]]  BY <1>8, <2>3, <3>1
      <4>2. IF j \in Leaky THEN Lazy!Created(j) ELSE \E m \in DOMAIN stack_ : m < n /\ stack_[m] = j
        BY <1>1, <2>3, <3>1, <4>1 DEF Lazy!IInv, Lazy!InOrder
      <4> QED  BY <1>8, <1>10, <4>2
    <3>2. CASE n = Len(stack_) + 1
      <4>1. Lazy!Kept(j)  BY <1>1, <1>5, <1>8, <2>3, <3>2
      <4>2. j \notin Leaky => \E m \in DOMAIN stack_ : stack_[m] = j
        BY <4>1 DEF Lazy!Kept, Lazy!Registered
      <4>3. \A m \in DOMAIN stack_ : m < n  BY <1>8, <3>2
      <4> QED  BY <1>8, <1>10, <4>1, <4>2, <4>3 DEF Lazy!Kept
    <3> QED  BY <1>8, <3>1, <3>2
  <2> QED  BY <2>1, <2>2, <2>3 DEF Lazy!InOrder
<1>14. \A u \in Lazy!Everyone, n \in Nat, g \in Lazy!Frames, c \in SUBSET Instances :
         Lazy!Knows(u, n, g, c) /\ ~(Lazy!Creates(g) /\ g.inst = i) => Lazy!Knows(u, n, g, c)'
  <2> SUFFICES ASSUME NEW u \in Lazy!Everyone, NEW n \in Nat, NEW g \in Lazy!Frames,
                      NEW c \in SUBSET Instances, Lazy!Knows(u, n, g, c),
                      ~(Lazy!Creates(g) /\ g.inst = i)
               PROVE  Lazy!Knows(u, n, g, c)'
    OBVIOUS
  <2>1. Lazy!KnowsWord(g)'
    BY <1>1, <1>9, <1>10 DEF Lazy!Knows, Lazy!KnowsWord, Lazy!Gone, Lazy!Creates
  <2>2. Lazy!KnowsPhase(u, n, g)'  BY <1>1, <1>3 DEF Lazy!Knows, Lazy!KnowsPhase
  <2>3. ~unregistered' => Lazy!KnowsUses(g, c)'  BY <1>1, <1>11 DEF Lazy!Knows, Lazy!KnowsUses
  <2> QED  BY <2>1, <2>2, <2>3 DEF Lazy!Knows
<1>15. StacksTyped' /\ Lazy!OneCreator' /\ Lazy!EveryoneKnows'
  <2>1. PICK s, n : s = stack[t] /\ n = Len(s)  OBVIOUS
  <2>2. Lazy!Knows(t, n, f, {})'
    BY <1>1, <1>3, <1>4, <1>6, <1>10
    DEF Lazy!Knows, Lazy!KnowsWord, Lazy!KnowsPhase, Lazy!KnowsUses
  <2>3. s # <<>> /\ s[Len(s)] = Lazy!Top(t) /\ Lazy!Creates(s[Len(s)])
    BY <1>1, <1>2, <2>1 DEF Lazy!Creates
  <2> QED  BY <1>6, <1>14, <2>1, <2>2, <2>3, TopGoesOn DEF Lazy!Creates, i
<1>16. Lazy!TypeOK'  BY <1>1, <1>8, <1>15 DEF Lazy!IInv, Lazy!TypeOK, StacksTyped, Lazy!Everyone
<1> QED  BY <1>12, <1>13, <1>15, <1>16 DEF Lazy!IInv

LEMMA DoneKeeps ==
  ASSUME Lazy!IInv, NEW t \in Lazy!Everyone, Lazy!Done(t)
  PROVE  Lazy!IInv'
<1> PICK i : i = Lazy!Top(t).inst  OBVIOUS
<1> PICK s : s = stack[t]  OBVIOUS
<1>1. /\ s # <<>> /\ Lazy!Top(t).pc = "done" /\ stack' = [stack EXCEPT ![t] = Lazy!Pop(s)]
      /\ UNCHANGED <<private_instance_, dead_, lock_, stack_, phase, built, constructed>>
  BY EmptySeq DEF Lazy!Done, Lazy!At, Lazy!Depth
<1>2. unregistered' = (unregistered \/ (Len(s) > 1 /\ i \notin Leaky \union Lazy!Registered))
  BY DEF Lazy!Done, Lazy!Depth
<1>3. /\ Lazy!Knows(t, Len(s), Lazy!Top(t), {}) /\ i \in Instances /\ Lazy!Top(t) = s[Len(s)]
      /\ s \in Seq(Lazy!Frames) /\ Len(s) \in Nat
  BY <1>1, TopKnows DEF Lazy!Frames
<1>4. PICK r \in Seq(Lazy!Frames) :
      /\ stack' = [stack EXCEPT ![t] = r] /\ DOMAIN r = 1 .. Len(s) - 1
      /\ \A n \in DOMAIN r : n \in DOMAIN s /\ n # Len(s) /\ r[n] = s[n]
      /\ \A n \in DOMAIN r : n # Len(s) - 1 => Lazy!Called(r, n) = Lazy!Called(s, n)
      /\ Lazy!Called(r, Len(s) - 1) = {}
      /\ Len(s) > 1 => Lazy!Called(s, Len(s) - 1) = {s[Len(s)].inst}
  BY <1>1, <1>3, TopPops
<1>5. unregistered' \in BOOLEAN /\ (unregistered => unregistered')
  BY <1>2 DEF Lazy!IInv, Lazy!TypeOK
<1>6. Len(s) > 1 /\ ~unregistered' => ~unregistered /\ Lazy!Kept(i)
  <2>1. Lazy!Created(i) \/ i \in dead_  BY <1>1, <1>3 DEF Lazy!Knows, Lazy!KnowsWord, Lazy!Gone
  <2>2. i \in Leaky => i \notin dead_
    BY LazyAssumption DEF Lazy!IInv, Lazy!TypeOK, Lazy!LazyInstanceAssumption
  <2> QED  BY <1>2, <2>1, <2>2 DEF Lazy!Kept
<1>7. \A u \in Lazy!Everyone : \A n, g, c : Lazy!Knows(u, n, g, c) => Lazy!Knows(u, n, g, c)'
  BY <1>1, <1>5
  DEF Lazy!Knows, Lazy!KnowsWord, Lazy!KnowsPhase, Lazy!KnowsUses, Lazy!Created, Lazy!Gone,
      Lazy!Kept, Lazy!Registered
<1>8. \A n \in DOMAIN r : Lazy!Knows(t, n, r[n], Lazy!Called(r, n))'
  <2> SUFFICES ASSUME NEW n \in DOMAIN r PROVE Lazy!Knows(t, n, r[n], Lazy!Called(r, n))'  OBVIOUS
  <2>1. Lazy!Knows(t, n, r[n], Lazy!Called(s, n))  BY <1>4 DEF Lazy!IInv, Lazy!EveryoneKnows
  <2>2. CASE n # Len(s) - 1  BY <1>4, <1>7, <2>1, <2>2
  <2>3. CASE n = Len(s) - 1
    <3>1. Lazy!Called(s, n) = {i} /\ Lazy!Called(r, n) = {}  BY <1>3, <1>4, <2>3
    <3>2. Lazy!Knows(t, n, r[n], {i})'  BY <1>7, <2>1, <3>1
    <3>3. ~unregistered' => Lazy!Kept(i)'
      <4>1. Len(s) > 1  BY <1>3, <1>4, <2>3
      <4> QED  BY <1>1, <1>6, <4>1 DEF Lazy!Kept, Lazy!Created, Lazy!Registered
    <3>4. Lazy!Knows(t, n, r[n], {})'  BY <3>2, <3>3 DEF Lazy!Knows, Lazy!KnowsUses
    <3> QED  BY <3>1, <3>4
  <2> QED  BY <2>2, <2>3
<1>9. StacksTyped' /\ Lazy!OneCreator' /\ Lazy!EveryoneKnows'
  BY <1>4, <1>7, <1>8, StackGoesOn
<1>10. Lazy!WordsTell' /\ Lazy!InOrder' /\ (phase = "exiting" <=> lock_ = Main)'
  BY <1>1, <1>5 DEF Lazy!IInv, Lazy!WordsTell, Lazy!InOrder, Lazy!Created, Lazy!Registered
<1>11. Lazy!ConstructedOnceIfRegistered'
  BY <1>1, <1>5 DEF Lazy!IInv, Lazy!ConstructedOnceIfRegistered, Lazy!ConstructedOnce
<1>12. Lazy!TypeOK'  BY <1>1, <1>5, <1>9 DEF Lazy!IInv, Lazy!TypeOK, StacksTyped, Lazy!Everyone
<1> QED  BY <1>9, <1>10, <1>11, <1>12 DEF Lazy!IInv

(* The main thread is at work in the exit only.                            *)
LEMMA MainWorksAtExit ==
  ASSUME Lazy!IInv, stack[Main] # <<>>
  PROVE  /\ phase = "exiting"
         /\ Lazy!Top(Main).pc = "delete" =>
              /\ Len(stack[Main]) = 1 /\ stack_ # <<>> /\ Lazy!Top(Main).inst = stack_[Len(stack_)]
<1>1. Main \in Lazy!Everyone  BY DEF Lazy!Everyone
<1>2. Lazy!Knows(Main, Len(stack[Main]), Lazy!Top(Main), {})  BY <1>1, TopKnows
<1> QED  BY <1>2 DEF Lazy!Knows, Lazy!KnowsPhase

LEMMA ProcessCallbacksNowKeeps ==
  ASSUME Lazy!IInv, Lazy!ProcessCallbacksNow
  PROVE  Lazy!IInv'
<1>1. /\ phase = "running" /\ \A t \in Threads : stack[t] = <<>>
      /\ phase' = "exiting" /\ lock_' = Main
      /\ UNCHANGED <<private_instance_, dead_, stack, stack_, built, constructed, unregistered>>
  BY DEF Lazy!ProcessCallbacksNow
<1>2. \A t \in Lazy!Everyone : stack'[t] = <<>>
  <2>1. stack[Main] = <<>>  BY <1>1, MainWorksAtExit
  <2> QED  BY <1>1, <2>1 DEF Lazy!Everyone
<1>3. \A t \in Lazy!Everyone : DOMAIN stack'[t] = {}  BY <1>2
<1>4. Lazy!OneCreator' /\ Lazy!EveryoneKnows'
  BY <1>3 DEF Lazy!OneCreator, Lazy!EveryoneKnows, Lazy!Everyone
<1>5. Lazy!TypeOK' /\ (phase = "exiting" <=> lock_ = Main)'  BY <1>1 DEF Lazy!IInv, Lazy!TypeOK
<1>6. Lazy!WordsTell' /\ Lazy!InOrder' /\ Lazy!ConstructedOnceIfRegistered'
  BY <1>1 DEF Lazy!IInv, Lazy!WordsTell, Lazy!InOrder, Lazy!Created, Lazy!Registered,
              Lazy!ConstructedOnceIfRegistered,
              Lazy!ConstructedOnce
<1> QED  BY <1>4, <1>5, <1>6 DEF Lazy!IInv

LEMMA RunTaskKeeps ==
  ASSUME Lazy!IInv, Lazy!RunTask
  PROVE  Lazy!IInv'
<1> PICK i : i = stack_[Len(stack_)]  OBVIOUS
<1> DEFINE f == [inst |-> i, pc |-> "delete", todo |-> Uses[i]]
<1>1. /\ phase = "exiting" /\ stack_ # <<>> /\ UNCHANGED others
      /\ stack' = [stack EXCEPT ![Main] = <<f>>]
  BY DEF Lazy!RunTask, others
<1>2. i \in Instances
  <2>1. stack_ \in Seq(Instances \ Leaky)  BY DEF Lazy!IInv, Lazy!TypeOK
  <2>2. Len(stack_) \in 1 .. Len(stack_)  BY <1>1, <2>1, EmptySeq, LenProperties
  <2> QED  BY <2>1, <2>2, ElementOfSeq
<1>3. f \in Lazy!Frames /\ f.inst = i /\ f.pc = "delete" /\ f.todo = Uses[i]
  BY <1>2, LazyAssumption DEF Lazy!Frames, Lazy!LazyInstanceAssumption
<1> HIDE DEF f
<1>4. PICK r : r = <<f>>  OBVIOUS
<1>5. r \in Seq(Lazy!Frames) /\ DOMAIN r = {1} /\ r[1] = f  BY <1>3, <1>4
<1>6. \A u, n, g, c : Lazy!Knows(u, n, g, c) => Lazy!Knows(u, n, g, c)'  BY <1>1, OthersStay
<1>7. \A c : Lazy!Knows(Main, 1, f, c)
  BY <1>1, <1>3 DEF Lazy!Knows, Lazy!KnowsWord, Lazy!KnowsPhase, Lazy!KnowsUses
<1>8. \A n \in DOMAIN r : Lazy!Knows(Main, n, r[n], Lazy!Called(r, n))'
  <2>1. \A c : Lazy!Knows(Main, 1, f, c)'  BY <1>6, <1>7
  <2> QED  BY <1>5, <2>1
<1>9. StacksTyped' /\ Lazy!OneCreator' /\ Lazy!EveryoneKnows'
  <2>1. Main \in Lazy!Everyone  BY DEF Lazy!Everyone
  <2> QED  BY <1>1, <1>3, <1>4, <1>5, <1>6, <1>8, <2>1, StackGoesOn DEF Lazy!Creates
<1> QED  BY <1>1, <1>9, OthersStay DEF Lazy!IInv

(* The last that was registered is deleted: the threads that still call    *)
(* know that it may be gone.                                               *)
LEMMA OnExitKeeps ==
  ASSUME Lazy!IInv, Lazy!OnExit
  PROVE  Lazy!IInv'
<1> PICK i : i = Lazy!Top(Main).inst  OBVIOUS
<1>1. /\ stack[Main] # <<>> /\ Lazy!Top(Main).pc = "delete"
      /\ built' = [built EXCEPT ![i] = FALSE]
      /\ private_instance_' = [private_instance_ EXCEPT ![i] = "0"]
      /\ stack_' = Lazy!Pop(stack_) /\ stack' = [stack EXCEPT ![Main] = <<>>]
      /\ UNCHANGED <<dead_, lock_, phase, constructed, unregistered>>
  BY EmptySeq DEF Lazy!OnExit, Lazy!At, Lazy!Depth
<1>2. phase = "exiting" /\ stack_ # <<>> /\ i = stack_[Len(stack_)]
  BY <1>1, MainWorksAtExit
<1>3. stack_ \in Seq(Instances \ Leaky)  BY DEF Lazy!IInv, Lazy!TypeOK
<1>4. Len(stack_) \in Nat /\ DOMAIN stack_ = 1 .. Len(stack_) /\ Len(stack_) > 0
  BY <1>2, <1>3, EmptySeq, LenProperties
<1>5. \A n \in DOMAIN stack_ : stack_[n] \in Instances \ Leaky  BY <1>3, <1>4, ElementOfSeq
<1>6. i \in Lazy!Registered /\ i \in Instances \ Leaky  BY <1>2, <1>4, <1>5 DEF Lazy!Registered
<1>7. /\ stack_' \in Seq(Instances \ Leaky) /\ DOMAIN stack_' = 1 .. Len(stack_) - 1
      /\ \A n \in DOMAIN stack_' : stack_'[n] = stack_[n]
  <2>1. PICK r : r = stack_'  OBVIOUS
  <2>2. r = [n \in 1 .. Len(stack_) - 1 |-> stack_[n]]  BY <1>1, <1>4, <2>1 DEF Lazy!Pop
  <2>3. r \in [1 .. Len(stack_) - 1 -> Instances \ Leaky] /\ Len(stack_) - 1 \in Nat
    BY <1>4, <1>5, <2>2
  <2>4. r \in Seq(Instances \ Leaky)  BY <2>3, SeqDef
  <2> QED  BY <2>1, <2>2, <2>4
<1>8. \A j \in Lazy!Registered' : j \in Lazy!Registered /\ j # i
  <2>1. \A n \in DOMAIN stack_' : n \in DOMAIN stack_ /\ stack_[n] # stack_[Len(stack_)]
    BY <1>4, <1>7 DEF Lazy!IInv, Lazy!InOrder
  <2> QED  BY <1>2, <1>7, <2>1 DEF Lazy!Registered
<1>9. /\ private_instance_' \in [Instances -> Lazy!States] /\ built' \in [Instances -> BOOLEAN]
      /\ private_instance_'[i] = "0" /\ ~built'[i]
      /\ \A j \in Instances : j # i =>
            private_instance_'[j] = private_instance_[j] /\ built'[j] = built[j]
  BY <1>1, <1>6 DEF Lazy!IInv, Lazy!TypeOK, Lazy!States
<1>10. Lazy!WordsTell'  BY <1>1, <1>2, <1>9 DEF Lazy!IInv, Lazy!WordsTell, Lazy!Created
<1>11. Lazy!InOrder'
  <2>1. \A m, n \in DOMAIN stack_' : stack_'[m] = stack_'[n] => m = n
    BY <1>4, <1>7 DEF Lazy!IInv, Lazy!InOrder
  <2>2. \A j \in Lazy!Registered' : Lazy!Created(j)'
    <3>1. \A j \in Lazy!Registered : Lazy!Created(j) /\ j \in Instances
      BY <1>5 DEF Lazy!IInv, Lazy!InOrder, Lazy!Registered
    <3> QED  BY <1>8, <1>9, <3>1 DEF Lazy!Created
  <2>3. ASSUME ~unregistered', NEW n \in DOMAIN stack_', NEW j \in Uses[stack_'[n]]
        PROVE  IF j \in Leaky THEN Lazy!Created(j)'
               ELSE \E m \in DOMAIN stack_' : m < n /\ stack_'[m] = j
    <3>1. n \in DOMAIN stack_ /\ j \in Uses[stack_[n]] /\ n < Len(stack_) /\ n \in Nat
      BY <1>4, <1>7, <2>3
    <3>2. IF j \in Leaky THEN Lazy!Created(j) ELSE \E m \in DOMAIN stack_ : m < n /\ stack_[m] = j
      BY <1>1, <2>3, <3>1 DEF Lazy!IInv, Lazy!InOrder
    <3>3. CASE j \in Leaky
      <4>1. j # i /\ j \in Instances  BY <1>6, <3>3, LazyAssumption DEF Lazy!LazyInstanceAssumption
      <4> QED  BY <1>9, <3>2, <3>3, <4>1 DEF Lazy!Created
    <3>4. CASE j \notin Leaky  BY <1>4, <1>7, <3>1, <3>2, <3>4
    <3> QED  BY <3>3, <3>4
  <2> QED  BY <2>1, <2>2, <2>3 DEF Lazy!InOrder
<1>12. Lazy!ConstructedOnceIfRegistered' /\ (phase = "exiting" <=> lock_ = Main)'
  BY <1>1 DEF Lazy!IInv, Lazy!ConstructedOnceIfRegistered, Lazy!ConstructedOnce
<1>13. ASSUME NEW u \in Lazy!Everyone, u # Main, NEW n, NEW g, NEW c, Lazy!Knows(u, n, g, c)
       PROVE  Lazy!Knows(u, n, g, c)'
  <2>1. n = 1 /\ g.inst \in dead_ /\ g.pc \notin {"new", "register", "delete"}
        /\ (g.pc = "publish" => ~built[g.inst])
    BY <1>2, <1>13 DEF Lazy!Knows, Lazy!KnowsPhase
  <2>2. g.inst \in Instances /\ Lazy!Gone(g.inst)'
    BY <1>1, <1>2, <2>1, LazyAssumption
    DEF Lazy!IInv, Lazy!TypeOK, Lazy!Gone, Lazy!LazyInstanceAssumption
  <2>3. g.pc = "publish" => ~built'[g.inst] /\ private_instance_'[g.inst] = "creating"
    <3>1. SUFFICES ASSUME g.pc = "publish"
                   PROVE  ~built'[g.inst] /\ private_instance_'[g.inst] = "creating"
      OBVIOUS
    <3>2. private_instance_[g.inst] = "creating"  BY <1>13, <3>1 DEF Lazy!Knows, Lazy!KnowsWord
    <3>3. g.inst # i  BY <1>6, <3>2 DEF Lazy!IInv, Lazy!InOrder, Lazy!Created
    <3> QED  BY <1>9, <2>1, <2>2, <3>1, <3>2, <3>3
  <2>4. Lazy!KnowsWord(g)'  BY <2>1, <2>2, <2>3 DEF Lazy!KnowsWord
  <2>5. Lazy!KnowsPhase(u, n, g)'  BY <1>1, <1>13, <2>1, <2>3 DEF Lazy!KnowsPhase
  <2>6. Lazy!KnowsUses(g, c)'  BY <2>1, <2>3 DEF Lazy!KnowsUses
  <2> QED  BY <2>4, <2>5, <2>6 DEF Lazy!Knows
<1>14. StacksTyped' /\ Lazy!OneCreator' /\ Lazy!EveryoneKnows'
  <2>1. Main \in Lazy!Everyone  BY DEF Lazy!Everyone
  <2>2. PICK r : r = <<>>  OBVIOUS
  <2>3. r \in Seq(Lazy!Frames) /\ DOMAIN r = {}  BY <2>2
  <2> QED  BY <1>1, <1>13, <2>1, <2>2, <2>3, StackGoesOn
<1>15. Lazy!TypeOK'
  BY <1>1, <1>7, <1>9, <1>14 DEF Lazy!IInv, Lazy!TypeOK, StacksTyped, Lazy!Everyone
<1> QED  BY <1>10, <1>11, <1>12, <1>14, <1>15 DEF Lazy!IInv

LEMMA ExitedKeeps ==
  ASSUME Lazy!IInv, Lazy!Exited
  PROVE  Lazy!IInv'
<1>1. /\ phase = "exiting" /\ stack[Main] = <<>> /\ phase' = "exited" /\ lock_' = Free
      /\ UNCHANGED <<private_instance_, dead_, stack, stack_, built, constructed, unregistered>>
  BY DEF Lazy!Exited
<1>2. Lazy!TypeOK' /\ (phase = "exiting" <=> lock_ = Main)'
  BY <1>1, LazyAssumption DEF Lazy!IInv, Lazy!TypeOK, Lazy!LazyInstanceAssumption
<1>3. Lazy!WordsTell' /\ Lazy!InOrder' /\ Lazy!ConstructedOnceIfRegistered' /\ Lazy!OneCreator'
  BY <1>1 DEF Lazy!IInv, Lazy!WordsTell, Lazy!InOrder, Lazy!Created, Lazy!Registered,
              Lazy!ConstructedOnceIfRegistered,
              Lazy!ConstructedOnce, Lazy!OneCreator, Lazy!Everyone, Lazy!Creates
<1>4. ASSUME NEW u \in Lazy!Everyone, u # Main, NEW n, NEW g, NEW c, Lazy!Knows(u, n, g, c)
      PROVE  Lazy!Knows(u, n, g, c)'
  BY <1>1, <1>4
  DEF Lazy!Knows, Lazy!KnowsWord, Lazy!KnowsPhase, Lazy!KnowsUses, Lazy!Created, Lazy!Gone,
      Lazy!Kept, Lazy!Registered
<1>5. Lazy!EveryoneKnows'
  <2> SUFFICES ASSUME NEW u \in Lazy!Everyone, NEW n \in DOMAIN stack[u]
               PROVE  Lazy!Knows(u, n, stack[u][n], Lazy!Called(stack[u], n))'
    BY <1>1 DEF Lazy!EveryoneKnows, Lazy!Everyone
  <2>1. u # Main  BY <1>1
  <2>2. PICK g, c : g = stack[u][n] /\ c = Lazy!Called(stack[u], n)  OBVIOUS
  <2>3. Lazy!Knows(u, n, g, c)'  BY <1>4, <2>1, <2>2 DEF Lazy!IInv, Lazy!EveryoneKnows
  <2>4. Lazy!Knows(u, n, stack[u][n], Lazy!Called(stack[u], n))' <=> Lazy!Knows(u, n, g, c)'
    BY <1>1, <2>2 DEF Lazy!Knows, Lazy!KnowsWord, Lazy!KnowsPhase, Lazy!KnowsUses, Lazy!Called
  <2> QED  BY <2>3, <2>4
<1> QED  BY <1>2, <1>3, <1>5 DEF Lazy!IInv

LEMMA LazyInit == Lazy!Init => Lazy!IInv
<1> SUFFICES ASSUME Lazy!Init PROVE Lazy!IInv  OBVIOUS
<1> USE DEF Lazy!Init
<1>1. <<>> \in Seq(Lazy!Frames) /\ <<>> \in Seq(Instances \ Leaky)  BY EmptySeq
<1>2. Lazy!TypeOK
  <2>1. private_instance_ \in [Instances -> Lazy!States] /\ dead_ \subseteq Static
    BY DEF Lazy!States
  <2>2. stack \in [Threads \union {Main} -> Seq(Lazy!Frames)] /\ stack_ \in Seq(Instances \ Leaky)
    BY <1>1
  <2>3. built \in [Instances -> BOOLEAN] /\ unregistered \in BOOLEAN  OBVIOUS
  <2>4. constructed \in [Instances -> 0 .. 2]  OBVIOUS
  <2> QED  BY <2>1, <2>2, <2>3, <2>4 DEF Lazy!TypeOK
<1>3. \A t \in Lazy!Everyone : DOMAIN stack[t] = {}  BY DEF Lazy!Everyone
<1>4. Lazy!OneCreator /\ Lazy!EveryoneKnows  BY <1>3 DEF Lazy!OneCreator, Lazy!EveryoneKnows
<1>5. Lazy!WordsTell  BY DEF Lazy!WordsTell, Lazy!Created
<1>6. Lazy!InOrder  BY DEF Lazy!InOrder, Lazy!Registered
<1>7. Lazy!ConstructedOnceIfRegistered
  BY LazyAssumption
  DEF Lazy!ConstructedOnceIfRegistered, Lazy!ConstructedOnce, Lazy!LazyInstanceAssumption
<1>8. phase = "exiting" <=> lock_ = Main  BY LazyAssumption DEF Lazy!LazyInstanceAssumption
<1> QED  BY <1>2, <1>4, <1>5, <1>6, <1>7, <1>8 DEF Lazy!IInv

LEMMA StandsStill ==
  ASSUME Lazy!IInv, UNCHANGED Lazy!vars
  PROVE  Lazy!IInv'
  BY DEF Lazy!vars, Lazy!IInv, Lazy!TypeOK, Lazy!OneCreator, Lazy!WordsTell, Lazy!InOrder,
         Lazy!EveryoneKnows, Lazy!Knows, Lazy!KnowsWord,
         Lazy!KnowsPhase, Lazy!KnowsUses, Lazy!Created, Lazy!Creates, Lazy!Gone, Lazy!Kept,
         Lazy!Called, Lazy!Registered, Lazy!Everyone,
         Lazy!ConstructedOnceIfRegistered, Lazy!ConstructedOnce

LEMMA LazyNextKeeps ==
  ASSUME Lazy!IInv, [Lazy!Next]_Lazy!vars
  PROVE  Lazy!IInv'
<1>1. ASSUME NEW t \in Threads, NEW i \in Instances, Lazy!Call(t, i) PROVE Lazy!IInv'
  BY <1>1, CallKeeps
<1>2. ASSUME NEW t \in Threads \union {Main}, Lazy!Step(t) PROVE Lazy!IInv'
  <2> t \in Lazy!Everyone  BY <1>2 DEF Lazy!Everyone
  <2> QED  BY <1>2, UseKeeps, LoadKeeps, CasKeeps, SpinKeeps, NewKeeps, PublishKeeps,
              RegisterKeeps, DoneKeeps DEF Lazy!Step
<1>3. CASE Lazy!ProcessCallbacksNow  BY <1>3, ProcessCallbacksNowKeeps
<1>4. CASE Lazy!Exit  BY <1>4, RunTaskKeeps, OnExitKeeps, ExitedKeeps DEF Lazy!Exit
<1>5. CASE UNCHANGED Lazy!vars  BY <1>5, StandsStill
<1> QED  BY <1>1, <1>2, <1>3, <1>4, <1>5 DEF Lazy!Next

(* Threads that race to create instances which use one another, and the    *)
(* exit that destroys them: each knows what it relies on.                  *)
THEOREM LazyInvariance == Lazy!Spec => []Lazy!IInv
<1> QED  BY LazyInit, LazyNextKeeps, PTL DEF Lazy!Spec

(* What Pointer returns is built, and a destructor finds what it uses.     *)
THEOREM UsedInstancesAreBuilt == Lazy!Spec => []UsedIsBuilt
<1>1. Lazy!IInv => Lazy!PointerIsBuilt
  <2> SUFFICES ASSUME Lazy!IInv, NEW t \in Lazy!Everyone, Lazy!At(t, "done")
               PROVE  built[Lazy!Top(t).inst] \/ (Lazy!Top(t).inst \in dead_ /\ phase # "running")
    BY DEF Lazy!PointerIsBuilt, Lazy!Everyone
  <2>1. stack[t] # <<>>  BY EmptySeq DEF Lazy!At, Lazy!Depth
  <2>2. Lazy!Knows(t, Len(stack[t]), Lazy!Top(t), {}) /\ Lazy!Top(t).inst \in Instances
    BY <2>1, TopKnows DEF Lazy!Frames
  <2>3. Lazy!Created(Lazy!Top(t).inst) \/ Lazy!Gone(Lazy!Top(t).inst)
    BY <2>2 DEF Lazy!At, Lazy!Knows, Lazy!KnowsWord
  <2> QED  BY <2>2, <2>3 DEF Lazy!IInv, Lazy!WordsTell, Lazy!Gone
<1>2. Lazy!IInv => Lazy!DestroyedBeforeUsed
  <2> SUFFICES ASSUME Lazy!IInv, Lazy!At(Main, "delete"), ~unregistered,
                      NEW j \in Uses[Lazy!Top(Main).inst]
               PROVE  built[j]
    BY DEF Lazy!DestroyedBeforeUsed
  <2>1. stack[Main] # <<>> /\ Main \in Lazy!Everyone
    BY EmptySeq DEF Lazy!At, Lazy!Depth, Lazy!Everyone
  <2>2. Lazy!Knows(Main, Len(stack[Main]), Lazy!Top(Main), {}) /\ Lazy!Top(Main).inst \in Instances
    BY <2>1, TopKnows DEF Lazy!Frames
  <2>3. stack_ # <<>> /\ Lazy!Top(Main).inst = stack_[Len(stack_)]
    BY <2>2 DEF Lazy!At, Lazy!Knows, Lazy!KnowsPhase
  <2>4. Len(stack_) \in DOMAIN stack_
    BY <2>3, LenProperties, EmptySeq DEF Lazy!IInv, Lazy!TypeOK
  <2>5. Lazy!Created(j)  BY <2>3, <2>4 DEF Lazy!IInv, Lazy!InOrder, Lazy!Registered
  <2>6. j \in Instances  BY <2>2, LazyAssumption DEF Lazy!LazyInstanceAssumption
  <2> QED  BY <2>5, <2>6 DEF Lazy!IInv, Lazy!WordsTell
<1>3. Lazy!IInv => UsedIsBuilt  BY <1>1, <1>2 DEF UsedIsBuilt
<1> QED  BY <1>3, LazyInvariance, PTL

(* "The Type constructor will only ever be called once" (lazy_instance.h), *)
(* but for instances that were used between their publication and their    *)
(* registration, and whatever is done for singletons in static memory.     *)
THEOREM ConstructorsAreCalledOnce == Lazy!Spec => []ConstructedOnceIfRegistered
<1>1. Lazy!IInv => ConstructedOnceIfRegistered  BY DEF Lazy!IInv, ConstructedOnceIfRegistered
<1> QED  BY <1>1, LazyInvariance, PTL

(* Whichever of the two is the subject of a behaviour, the variables of    *)
(* both keep their types.                                                  *)
THEOREM TypesAreCorrect == EachSpec => []TypesOK
<1>1. EachInit => Init /\ Lazy!Init  BY DEF EachInit
<1>2. [EachNext]_<<subject, vars, lazy>> => [Next]_vars /\ [Lazy!Next]_Lazy!vars
  BY DEF EachNext, Locking, Creating, lazy, Lazy!vars
<1>3. EachSpec => Spec /\ Lazy!Spec  BY <1>1, <1>2, PTL DEF EachSpec, Spec, Lazy!Spec
<1>4. TypeOK /\ Lazy!IInv => TypesOK  BY DEF TypesOK, Lazy!IInv
<1> QED  BY <1>3, <1>4, TypeCorrect, LazyInvariance, PTL
=============================================================================

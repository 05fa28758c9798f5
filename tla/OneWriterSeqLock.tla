-------------------------- MODULE OneWriterSeqLock --------------------------
(***************************************************************************)
(* base/synchronization/one_writer_seqlock.{h,cc}: one writer publishes a  *)
(* record of two words, any number of readers copy it without a lock.      *)
(*                                                                         *)
(* sequence_ is an Atomic32 that wraps, here modulo Modulus (2^32 in the   *)
(* code).  The data the lock protects belongs to the caller; it is two     *)
(* words that hold the generation number of the update that wrote them.    *)
(* The reader is the retry loop that the header asks of every caller:      *)
(* ReadBegin, copy, ReadRetry, and again if ReadRetry says so.             *)
(***************************************************************************)
EXTENDS Naturals

CONSTANTS Readers,    \* the reading threads
          Modulus,    \* number of values of sequence_
          MaxWrites   \* bound: how many updates the writer performs

ASSUME SeqLockAssumption ==
  /\ Modulus \in Nat /\ Modulus > 1 /\ Modulus % 2 = 0
  /\ MaxWrites \in Nat

Words == {1, 2}

VARIABLES sequence_,  \* the sequence counter
          data,       \* the two protected words
          wpc,        \* writer: "idle", or the step it takes next
          gen,        \* generation being, or last, written
          rpc,        \* reader: step it takes next
          version,    \* reader: value ReadBegin returned
          copy,       \* reader: the words copied so far
          began       \* history: gen at the moment ReadBegin returned

vars == <<sequence_, data, wpc, gen, rpc, version, copy, began>>
writerVars == <<sequence_, data, wpc, gen>>
readerVars == <<rpc, version, copy, began>>

Init ==
  /\ sequence_ = 0
  /\ data = [w \in Words |-> 0]
  /\ wpc = "idle"
  /\ gen = 0
  /\ rpc = [r \in Readers |-> "begin"]
  /\ version = [r \in Readers |-> 0]
  /\ copy = [r \in Readers |-> [w \in Words |-> 0]]
  /\ began = [r \in Readers |-> 0]

(* Mutated forms, one plausible slip each: the checks put them in place of *)
(* the definition they are named after and expect a property to fail.      *)
IncrementNoWrap == sequence_' = sequence_ + 1   \* a counter wider than 32 bits
WriteEndNoIncrement ==                          \* the counter is left odd
  /\ wpc = "end"
  /\ wpc' = "idle"
  /\ UNCHANGED <<sequence_, data, gen, readerVars>>
ReadRetryParityOnly(r) ==                       \* tests the low bit only
  /\ rpc[r] = "retry"
  /\ rpc' = [rpc EXCEPT ![r] = IF sequence_ % 2 # 0 THEN "begin"
                                                    ELSE "accepted"]
  /\ UNCHANGED <<writerVars, version, copy, began>>

(* Barrier_AtomicIncrement of a 32-bit counter. *)
Increment == sequence_' = (sequence_ + 1) % Modulus

(* The single writer: WriteBegin, one store per word, WriteEnd. *)
WriteBegin ==
  /\ wpc = "idle" /\ gen < MaxWrites
  /\ Increment
  /\ gen' = gen + 1
  /\ wpc' = "word1"
  /\ UNCHANGED <<data, readerVars>>

WriteWord(w, at, next) ==
  /\ wpc = at
  /\ data' = [data EXCEPT ![w] = gen]
  /\ wpc' = next
  /\ UNCHANGED <<sequence_, gen, readerVars>>

WriteEnd ==
  /\ wpc = "end"
  /\ Increment
  /\ wpc' = "idle"
  /\ UNCHANGED <<data, gen, readerVars>>

Writer ==
  \/ WriteBegin
  \/ WriteWord(1, "word1", "word2")
  \/ WriteWord(2, "word2", "end")
  \/ WriteEnd

(* ReadBegin spins until the counter is even: only then does it return. *)
ReadBegin(r) ==
  /\ rpc[r] = "begin"
  /\ sequence_ % 2 = 0
  /\ version' = [version EXCEPT ![r] = sequence_]
  /\ began' = [began EXCEPT ![r] = gen]
  /\ rpc' = [rpc EXCEPT ![r] = "copy1"]
  /\ UNCHANGED <<writerVars, copy>>

ReadWord(r, w, at, next) ==
  /\ rpc[r] = at
  /\ copy' = [copy EXCEPT ![r][w] = data[w]]
  /\ rpc' = [rpc EXCEPT ![r] = next]
  /\ UNCHANGED <<writerVars, version, began>>

(* ReadRetry: the copy is good only if the counter has not moved. *)
ReadRetry(r) ==
  /\ rpc[r] = "retry"
  /\ rpc' = [rpc EXCEPT ![r] = IF sequence_ # version[r] THEN "begin"
                                                         ELSE "accepted"]
  /\ UNCHANGED <<writerVars, version, copy, began>>

(* The caller uses the copy and later reads again. *)
ReadAgain(r) ==
  /\ rpc[r] = "accepted"
  /\ rpc' = [rpc EXCEPT ![r] = "begin"]
  /\ UNCHANGED <<writerVars, version, copy, began>>

Reader(r) ==
  \/ ReadBegin(r)
  \/ ReadWord(r, 1, "copy1", "copy2")
  \/ ReadWord(r, 2, "copy2", "retry")
  \/ ReadRetry(r)

Next == Writer \/ \E r \in Readers : Reader(r) \/ ReadAgain(r)

Spec == Init /\ [][Next]_vars

(* The writer finishes an update it began, and a reading thread keeps      *)
(* running its loop; nobody is obliged to start another update or read.    *)
FairSpec ==
  /\ Spec
  /\ WF_vars(Writer)
  /\ \A r \in Readers : WF_vars(Reader(r))
-----------------------------------------------------------------------------
(* Types; sequence_ stays within its word when it wraps.                   *)
TypeOK ==
  /\ sequence_ \in 0 .. Modulus - 1
  /\ data \in [Words -> 0 .. MaxWrites]
  /\ wpc \in {"idle", "word1", "word2", "end"}
  /\ gen \in 0 .. MaxWrites
  /\ rpc \in [Readers -> {"begin", "copy1", "copy2", "retry", "accepted"}]
  /\ version \in [Readers -> 0 .. Modulus - 1]
  /\ copy \in [Readers -> [Words -> 0 .. MaxWrites]]
  /\ began \in [Readers -> 0 .. MaxWrites]

(* A copy that ReadRetry accepted is one whole record, the one that was    *)
(* current when ReadBegin returned.  The counter wraps, so the code can    *)
(* promise this only while fewer than Modulus/2 updates began since then.  *)
AcceptedCopyIsWhole ==
  \A r \in Readers :
    rpc[r] = "accepted" =>
      \/ copy[r] = [w \in Words |-> began[r]]
      \/ gen - began[r] >= Modulus \div 2

(* Every read that starts is accepted in the end once updates stop: the    *)
(* retry loop makes progress (the header's "low contention" case).         *)
ReadsComplete ==
  \A r \in Readers : rpc[r] = "copy1" ~> rpc[r] = "accepted"
=============================================================================

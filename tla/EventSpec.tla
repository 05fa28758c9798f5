------------------------------ MODULE EventSpec ------------------------------
(***************************************************************************)
(* What base::WaitableEvent promises (waitable_event.h), with no locks and *)
(* no wait-lists.  A blocked thread waits on a set of events and is        *)
(* released by exactly one of them; a signal of an auto-reset event        *)
(* releases one thread or, when nobody waits, leaves the event set; a      *)
(* signal of a manual-reset event releases everybody that waits.  Nobody   *)
(* returns from a wait for any other reason than that its deadline passed. *)
(***************************************************************************)
EXTENDS Naturals

CONSTANTS Threads, Events,
          Manual,           \* the events that stay set until Reset
          NoEvent           \* "no event": not blocked, or the wait failed

VARIABLES set,              \* the events that are set
          on,               \* the events a thread is blocked on
          left,             \* its deadline: "never", "later" or "past"
          sig,              \* the event a thread is in the middle of signalling
          got               \* what released the thread's latest wait

vars == <<set, on, left, sig, got>>

Init ==
  /\ set \in [Events -> BOOLEAN]
  /\ on = [t \in Threads |-> {}]
  /\ left = [t \in Threads |-> "never"]
  /\ sig = [t \in Threads |-> NoEvent]
  /\ got = [t \in Threads |-> NoEvent]

Free(t) == on[t] = {} /\ sig[t] = NoEvent

(* An auto-reset event is cleared by the wait it satisfies. *)
Consume(e) == set' = [set EXCEPT ![e] = e \in Manual]

Reset(e) == set' = [set EXCEPT ![e] = FALSE] /\ UNCHANGED <<on, left, sig, got>>

(* IsSignaled, or a wait that finds one of its events set. *)
Take(t, e) ==
  /\ Free(t) /\ set[e]
  /\ Consume(e)
  /\ got' = [got EXCEPT ![t] = e]
  /\ UNCHANGED <<on, left, sig>>

(* IsSignaled of an event that is not set. *)
Miss(t, e) ==
  /\ Free(t) /\ ~set[e]
  /\ got' = [got EXCEPT ![t] = NoEvent]
  /\ UNCHANGED <<set, on, left, sig>>

(* A thread blocks only if none of its events is set. *)
Block(t, E, d) ==
  /\ Free(t)
  /\ \A e \in E : ~set[e]
  /\ on' = [on EXCEPT ![t] = E]
  /\ left' = [left EXCEPT ![t] = d]
  /\ got' = [got EXCEPT ![t] = NoEvent]
  /\ UNCHANGED <<set, sig>>

(* A deadline passes. *)
Expire(t) ==
  /\ left[t] = "later"
  /\ left' = [left EXCEPT ![t] = "past"]
  /\ UNCHANGED <<set, on, sig, got>>

Unblock(t) == on' = [on EXCEPT ![t] = {}] /\ left' = [left EXCEPT ![t] = "never"]

(* A timed wait gives up, but not before its deadline, and no signal may   *)
(* have been spent on it.                                                  *)
GiveUp(t) ==
  /\ left[t] = "past"
  /\ Unblock(t)
  /\ UNCHANGED <<set, sig, got>>

(* Signalling an event that is already set does nothing. *)
BeginSignal(s, e) ==
  /\ Free(s) /\ ~set[e]
  /\ sig' = [sig EXCEPT ![s] = e]
  /\ UNCHANGED <<set, on, left, got>>

(* The signal releases a blocked thread.  On an auto-reset event that is   *)
(* all it does; a manual-reset event goes on to the next thread.           *)
Release(s, t) ==
  /\ sig[s] \in on[t]
  /\ Unblock(t)
  /\ got' = [got EXCEPT ![t] = sig[s]]
  /\ sig' = [sig EXCEPT ![s] = IF sig[s] \in Manual THEN sig[s] ELSE NoEvent]
  /\ UNCHANGED set

(* With nobody left to release, the signal sets the event. *)
EndSignal(s) ==
  /\ sig[s] # NoEvent
  /\ \A t \in Threads : sig[s] \notin on[t]
  /\ set' = [set EXCEPT ![sig[s]] = TRUE]
  /\ sig' = [sig EXCEPT ![s] = NoEvent]
  /\ UNCHANGED <<on, left, got>>

Next ==
  \/ \E e \in Events : Reset(e)
  \/ \E t \in Threads, e \in Events : Take(t, e) \/ Miss(t, e) \/ BeginSignal(t, e)
  \/ \E t \in Threads, E \in (SUBSET Events) \ {{}}, d \in {"never", "later"} : Block(t, E, d)
  \/ \E t \in Threads : Expire(t) \/ GiveUp(t) \/ EndSignal(t)
  \/ \E s, t \in Threads : Release(s, t)

Spec == Init /\ [][Next]_vars
=============================================================================

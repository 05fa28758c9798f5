--------------------------- MODULE MCWaitableEvent ---------------------------
(* Event 1 is auto-reset, event 2 manual-reset; a behaviour has threads    *)
(* that wait for them, or watchers on a message loop, for its subject.     *)
EXTENDS WaitableEvent, TLC

CONSTANTS Watchers, Addresses, NULL, MaxWatches

VARIABLES subject, set, list, exists, waiter, value, cancel_flag_, waiter_, kernel_,
          message_loop_, tasks, loop, watches, stopped, called

watching == <<set, list, exists, waiter, value, cancel_flag_, waiter_, kernel_,
              message_loop_, tasks, loop, watches, stopped, called>>

Watching == INSTANCE WaitableEventWatcher WITH signaled_ <- set, waiters_ <- list

ASSUME WatchingAssumption == Watching!WatcherAssumption

Symmetry == Permutations(Threads)

EachInit ==
    /\ subject \in {"waiting", "watching"}
    /\ Init /\ Watching!Init
    /\ subject = "waiting" => \A e \in Events : ~set[e]
    /\ subject = "watching" => \A e \in Events : ~signaled_[e]

EachNext ==
    /\ \/ subject = "waiting" /\ Next /\ UNCHANGED watching
       \/ subject = "watching" /\ Watching!Next /\ UNCHANGED vars
    /\ UNCHANGED subject

EachSpec == EachInit /\ [][EachNext]_<<subject, vars, watching>>

(* The types of both; a lock is held by the thread whose step says so, and *)
(* by nobody when WaitMany has returned.                                   *)
TypesOK == TypeOK /\ LocksMatch /\ Watching!TypeOK

(* A watch that was neither called nor stopped is pending once, in a list  *)
(* or in the loop's queue; a waiter in a list belongs to its watcher.      *)
WatchersArePaired == Watching!EveryWaiterHasItsWatcher /\ Watching!WatchIsPendingOnce

(* No callback after StopWatching has returned, and none twice. *)
StoppedIsSilent == Watching!StoppedIsSilent
=============================================================================

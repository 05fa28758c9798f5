------------------------- MODULE NotificationList --------------------------
(***************************************************************************)
(* What a list of observers or of callbacks promises (the overviews of     *)
(* base/observer_list.h and base/callback_list.h): it may be changed, or   *)
(* notified again, while it is being notified.  A notification owes a call *)
(* to each member, in the order they were added; who leaves is no longer   *)
(* owed one, and policy says whether who joins is.                         *)
(***************************************************************************)
EXTENDS Filters

CONSTANTS Members, Nobody

VARIABLES
    members,   \* the members, in the order they were added
    running,   \* the nested notifications, innermost last: whom each calls
               \* at the moment, and whom it still owes a call
    alive,     \* the list exists
    policy     \* "all": who joins during a notification is called by it;
               \* "existing": is not; "pending": is if somebody else was
               \* still to be called, and may be otherwise

vars == <<members, running, alive, policy>>

Policies == {"all", "existing", "pending"}
Notifications == [calling : Members \union {Nobody}, owed : Seq(Members)]

Range(s) == {s[i] : i \in DOMAIN s}
Without(s, m) == Filter(s, Members \ {m})
Top == running[Len(running)]

(* Only a member's callback, or nobody, can be at work on the list.        *)
InClient == running # <<>> => Top.calling # Nobody

Init ==
    /\ members = <<>> /\ running = <<>>
    /\ alive = TRUE
    /\ policy \in Policies

(* Whether m, joining, is owed a call by notification n.                   *)
MayJoin(n) == policy = "all" \/ policy = "pending"
MustJoin(n) == policy = "all" \/ (policy = "pending" /\ n.owed # <<>>)

Add(m) ==
    /\ alive /\ InClient /\ m \notin Range(members)
    /\ members' = Append(members, m)
    /\ \E J \in SUBSET DOMAIN running :
        /\ \A i \in DOMAIN running : MustJoin(running[i]) => i \in J
        /\ \A i \in J : MayJoin(running[i])
        /\ running' = [i \in DOMAIN running |->
                IF i \in J THEN [running[i] EXCEPT !.owed = Append(@, m)] ELSE running[i]]
    /\ UNCHANGED <<alive, policy>>

Remove(m) ==
    /\ alive /\ InClient
    /\ members' = Without(members, m)
    /\ running' = [i \in DOMAIN running |-> [running[i] EXCEPT !.owed = Without(@, m)]]
    /\ UNCHANGED <<alive, policy>>

(* Everybody leaves, and the list may be destroyed. *)
Empty(stays) ==
    /\ alive /\ InClient
    /\ members' = <<>>
    /\ running' = [i \in DOMAIN running |-> [running[i] EXCEPT !.owed = <<>>]]
    /\ alive' = stays
    /\ UNCHANGED policy

Notify ==
    /\ alive /\ InClient
    /\ running' = Append(running, [calling |-> Nobody, owed |-> members])
    /\ UNCHANGED <<members, alive, policy>>

CallNext ==
    /\ ~InClient /\ Top.owed # <<>>
    /\ running' = [running EXCEPT ![Len(running)] =
                        [calling |-> Head(Top.owed), owed |-> Tail(Top.owed)]]
    /\ UNCHANGED <<members, alive, policy>>

CallReturns ==
    /\ running # <<>> /\ Top.calling # Nobody
    /\ running' = [running EXCEPT ![Len(running)].calling = Nobody]
    /\ UNCHANGED <<members, alive, policy>>

(* A notification ends when it owes nothing any more. *)
Finish ==
    /\ ~InClient /\ Top.owed = <<>>
    /\ running' = SubSeq(running, 1, Len(running) - 1)
    /\ UNCHANGED <<members, alive, policy>>

Next ==
    \/ \E m \in Members : Add(m) \/ Remove(m)
    \/ \E stays \in BOOLEAN : Empty(stays)
    \/ Notify \/ CallNext \/ CallReturns \/ Finish

Spec == Init /\ [][Next]_vars
=============================================================================

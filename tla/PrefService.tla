----------------------------- MODULE PrefService -----------------------------
(***************************************************************************)
(* Two PrefServices (prefs/pref_service.cc) over the same stores: that of  *)
(* a profile, and that of its incognito windows, whose user store is an    *)
(* OverlayUserPrefStore over the profile's.  PrefValueStore layers the     *)
(* stores and passes their notifications to PrefNotifierImpl; PrefMembers  *)
(* keep a copy of a preference, perhaps on another thread.  Observers may  *)
(* change preferences while they are being notified.                       *)
(***************************************************************************)
EXTENDS Naturals, Sequences, FiniteSets, FiniteSetsExt

CONSTANTS
    Keys,
    Values,      \* of the registered type
    Members,     \* PrefMembers
    Profile,     \* those of the profile's service
    KeyOf,       \* the preference of a member
    MaxChanges,  \* bound: changes of the stores
    MaxDepth,    \* bound: nested notifications
    MaxPosted    \* bound: updates on their way to a member's thread

Services == {"profile", "incognito"}
Stored == Values \cup {"none", "other type"}

VARIABLES
    managed, command_line, prefs_, overlay_, defaults_,   \* the stores' values
    overlaid,     \* keys of RegisterOverlayPref
    changes,      \* number of changes of the stores
    internal_,    \* of each member: {}, or {what it knows}
    moved,        \* members on another thread, and ...
    posted,       \* ... the updates posted to it
    observing,    \* members between Init and Destroy
    calls,        \* the nested notifications, innermost last
    silent,       \* history: <<service, key>> changed, and nobody told since
    initialized_  \* the user store's file has been read

storeVars == <<managed, command_line, prefs_, overlay_, defaults_, overlaid, changes>>
memberVars == <<internal_, moved, posted, observing>>
vars == <<storeVars, memberVars, calls, silent, initialized_>>

Init ==
    /\ managed = [k \in Keys |-> "none"] /\ command_line = managed
    /\ prefs_ = managed /\ overlay_ = managed
    /\ defaults_ \in [Keys -> Values]
    /\ overlaid \in SUBSET Keys /\ changes = 0
    /\ internal_ = [m \in Members |-> {}]
    /\ moved = {} /\ posted = [m \in Members |-> <<>>]
    /\ observing = Members
    /\ calls = <<>> /\ silent = {}
    /\ initialized_ = FALSE
-----------------------------------------------------------------------------
(* PrefValueStore: the stores of a service by falling priority.            *)
UserValue(s, k) ==
    IF s = "incognito" /\ overlay_[k] # "none" THEN overlay_[k] ELSE prefs_[k]

Layers(s, k) == <<managed[k], command_line[k], UserValue(s, k), defaults_[k]>>
UserStore == 3

GetValue(s, k) ==
    LET l == Layers(s, k) IN l[Min({i \in DOMAIN l : l[i] \in Values})]

ControllingPrefStoreForPref(s, k) ==
    LET l == Layers(s, k) IN Min({i \in DOMAIN l : l[i] # "none"})

(* What PrefMemberBase::UpdateValueFromPref passes on.                     *)
Current(s, k) ==
    [value |-> GetValue(s, k),
     is_managed |-> managed[k] # "none",
     is_user_modifiable |-> ControllingPrefStoreForPref(s, k) >= UserStore]

ServiceOf(m) == IF m \in Profile THEN "profile" ELSE "incognito"
Observers(s, k) == {m \in observing : ServiceOf(m) = s /\ KeyOf[m] = k}
-----------------------------------------------------------------------------
(* A notification calls the observers of one service, then perhaps those   *)
(* of the other: directly, or if the overlay lets the change through.      *)
Depth == Len(calls)
Top == calls[Depth]

(* Code of a client runs: outside of notifications, or in an observer.     *)
Client == IF calls = <<>> THEN TRUE ELSE Top.calling

(* A client, or the file, changes a store. *)
Change == changes < MaxChanges /\ changes' = changes + 1

Notify(s, k, next) ==
    /\ Depth < MaxDepth
    /\ calls' = Append(calls, [key |-> k, now |-> Observers(s, k), next |-> next,
                               calling |-> FALSE])
    /\ silent' = silent \ {<<s, k>>}

(* OverlayUserPrefStore::OnPrefValueChanged. *)
OverlayForgets(k) == FALSE           \* the underlay is not observed
OverlayAsks(k) == overlay_[k] = "none"

LetsThrough(f) == f.next = "keeper" \/ (f.next = "overlay" /\ OverlayAsks(f.key))

(* Internal::UpdateValue, here or by a task for the member's thread.       *)
UpdateValuePostsOnce(m, v) ==        \* a task is on its way already
    IF m \in moved
    THEN /\ posted' = IF posted[m] = <<>> THEN [posted EXCEPT ![m] = <<v>>] ELSE posted
         /\ UNCHANGED internal_
    ELSE internal_' = [internal_ EXCEPT ![m] = {v}] /\ UNCHANGED posted

UpdateValue(m, v) ==
    IF m \in moved
    THEN /\ Len(posted[m]) < MaxPosted
         /\ posted' = [posted EXCEPT ![m] = Append(@, v)]
         /\ UNCHANGED internal_
    ELSE internal_' = [internal_ EXCEPT ![m] = {v}] /\ UNCHANGED posted

(* PrefMemberBase::OnPreferenceChanged; then the member's observer runs.   *)
OnPreferenceChanged(m) ==
    /\ calls # <<>> /\ m \in Top.now \cap observing
    /\ UpdateValue(m, Current(ServiceOf(m), KeyOf[m]))
    /\ calls' = [calls EXCEPT ![Depth].now = @ \ {m}, ![Depth].calling = m \notin moved]
    /\ UNCHANGED <<storeVars, moved, observing, silent, initialized_>>

(* The service's observers have been called: on to the other service, or   *)
(* return.                                                                 *)
NotifyNext ==
    /\ calls # <<>> /\ Top.now \cap observing = {}
    /\ IF LetsThrough(Top)
       THEN /\ calls' = [calls EXCEPT ![Depth] =
                    [Top EXCEPT !.now = Observers("incognito", Top.key), !.next = "",
                                !.calling = FALSE]]
            /\ silent' = silent \ {<<"incognito", Top.key>>}
       ELSE calls' = SubSeq(calls, 1, Depth - 1) /\ UNCHANGED silent
    /\ UNCHANGED <<storeVars, memberVars, initialized_>>
-----------------------------------------------------------------------------
(* Set, or ClearPref, through one of the services.                         *)
SetOverlayQuietly(k, v) ==           \* as SetValueSilently does
    /\ overlay_' = [overlay_ EXCEPT ![k] = v]
    /\ UNCHANGED <<prefs_, calls, silent>>

SetOverlay(k, v) ==
    /\ overlay_[k] # v
    /\ overlay_' = [overlay_ EXCEPT ![k] = v]
    /\ Notify("incognito", k, "")
    /\ UNCHANGED prefs_

SetUserPrefValue(s, k, v) ==
    /\ Client /\ Change /\ v # "other type"
    /\ IF s = "incognito" /\ k \in overlaid
       THEN SetOverlay(k, v)
       ELSE /\ prefs_[k] # v
            /\ prefs_' = [prefs_ EXCEPT ![k] = v]
            /\ Notify("profile", k, "overlay")
            /\ UNCHANGED overlay_
    /\ UNCHANGED <<managed, command_line, defaults_, overlaid, memberVars, initialized_>>

(* A policy comes or goes (a ValueMapPrefStore); both services have it.    *)
SetManaged(k, v) ==
    /\ Client /\ Change /\ managed[k] # v
    /\ managed' = [managed EXCEPT ![k] = v]
    /\ Notify("profile", k, "keeper")
    /\ UNCHANGED <<command_line, prefs_, overlay_, defaults_, overlaid, memberVars, initialized_>>

ReplaceDefaultValue(k, v) ==
    /\ Client /\ Change /\ v \in Values /\ defaults_[k] # v
    /\ defaults_' = [defaults_ EXCEPT ![k] = v]
    /\ Notify("profile", k, "keeper")
    /\ UNCHANGED <<managed, command_line, prefs_, overlay_, overlaid, memberVars, initialized_>>

(* UpdateCommandLinePrefStore tells no observer.                           *)
UpdateCommandLinePrefStore(k, v) ==
    /\ Client /\ Change /\ command_line[k] # v
    /\ command_line' = [command_line EXCEPT ![k] = v]
    /\ silent' = silent \cup Services \X {k}
    /\ UNCHANGED <<managed, prefs_, overlay_, defaults_, overlaid, memberVars, calls, initialized_>>

(* A list or dictionary is edited in place (GetMutableUserPref), and the   *)
(* edit reported when its scope ends (ReportUserPrefChanged).              *)
EditUserPref(k, v) ==
    /\ Client /\ Change /\ v \in Values /\ prefs_[k] # v
    /\ prefs_' = [prefs_ EXCEPT ![k] = v]
    /\ silent' = silent \cup Services \X {k}
    /\ UNCHANGED <<managed, command_line, overlay_, defaults_, overlaid, memberVars, calls, initialized_>>

ReportUserPrefChanged(k) ==
    /\ Client /\ <<"profile", k>> \in silent
    /\ Notify("profile", k, "overlay")
    /\ UNCHANGED <<storeVars, memberVars, initialized_>>
-----------------------------------------------------------------------------
(* The user store's file has been read; the values come without a word.    *)
FileRead(values) ==
    /\ calls = <<>> /\ Change /\ ~initialized_
    /\ initialized_' = TRUE
    /\ prefs_' = values
    /\ silent' = silent \cup Services \X {k \in Keys : prefs_'[k] # prefs_[k]}
    /\ UNCHANGED <<managed, command_line, overlay_, defaults_, overlaid, memberVars, calls>>
-----------------------------------------------------------------------------
(* PrefMember::GetValue on the main thread loads the value (VerifyPref).   *)
Load(m) ==
    /\ Client /\ m \in observing \ moved /\ internal_[m] = {}
    /\ UpdateValue(m, Current(ServiceOf(m), KeyOf[m]))
    /\ UNCHANGED <<storeVars, moved, observing, calls, silent, initialized_>>

MoveToThread(m) ==
    /\ Client /\ m \in observing \ moved
    /\ internal_' = [internal_ EXCEPT
            ![m] = IF @ = {} THEN {Current(ServiceOf(m), KeyOf[m])} ELSE @]
    /\ moved' = moved \cup {m}
    /\ UNCHANGED <<storeVars, posted, observing, calls, silent, initialized_>>

RunPosted(m) ==
    /\ posted[m] # <<>>
    /\ internal_' = [internal_ EXCEPT ![m] = {Head(posted[m])}]
    /\ posted' = [posted EXCEPT ![m] = Tail(@)]
    /\ UNCHANGED <<storeVars, moved, observing, calls, silent, initialized_>>

(* ~PrefMember: tasks that were posted to it find nobody who looks.        *)
Destroy(m) ==
    /\ Client /\ m \in observing
    /\ observing' = observing \ {m} /\ moved' = moved \ {m}
    /\ internal_' = [internal_ EXCEPT ![m] = {}]
    /\ posted' = [posted EXCEPT ![m] = <<>>]
    /\ UNCHANGED <<storeVars, calls, silent, initialized_>>

Next ==
    \/ \E k \in Keys, v \in Stored :
        \/ \E s \in Services : SetUserPrefValue(s, k, v)
        \/ SetManaged(k, v) \/ ReplaceDefaultValue(k, v)
        \/ UpdateCommandLinePrefStore(k, v) \/ EditUserPref(k, v)
    \/ \E k \in Keys : ReportUserPrefChanged(k)
    \/ \E m \in Members : \/ OnPreferenceChanged(m) \/ Load(m) \/ MoveToThread(m)
                          \/ RunPosted(m) \/ Destroy(m)
    \/ NotifyNext
    \/ \E values \in [Keys -> Stored] : FileRead(values)

Spec == Init /\ [][Next]_vars
-----------------------------------------------------------------------------
Owed(m) == \E i \in DOMAIN calls :
    /\ calls[i].key = KeyOf[m]
    /\ m \in calls[i].now \/ (m \notin Profile /\ calls[i].next # "")

(* "my_string_ should stay in sync with the pref" (pref_member.h): what a  *)
(* member knows, or last was sent, is the value, and its modifiability, of *)
(* the stores now, unless a notification that is under way still owes it a *)
(* call, or the last change was one that is not notified.                  *)
MemberInSync ==
    \A m \in observing :
        LET s == ServiceOf(m)
            k == KeyOf[m]
            knows == IF posted[m] = <<>> THEN internal_[m] ELSE {posted[m][Len(posted[m])]}
        IN  (internal_[m] # {} /\ ~Owed(m) /\ <<s, k>> \notin silent) => knows = {Current(s, k)}

(* What makes it inductive: of the notifications under way, those of the   *)
(* user store owe the incognito members a call only as long as the overlay *)
(* has no value of its own, and updates travel to moved members alone.     *)
Knowledge == [value : Values, is_managed : BOOLEAN, is_user_modifiable : BOOLEAN]
Frames == [key : Keys, now : SUBSET Members, next : {"keeper", "overlay", ""}, calling : BOOLEAN]

TypesOK ==
    /\ managed \in [Keys -> Stored] /\ command_line \in [Keys -> Stored]
    /\ prefs_ \in [Keys -> Stored] /\ overlay_ \in [Keys -> Stored]
    /\ defaults_ \in [Keys -> Values]
    /\ DOMAIN internal_ = Members /\ posted \in [Members -> Seq(Knowledge)]
    /\ moved \subseteq Members /\ observing \subseteq Members
    /\ calls \in Seq(Frames)

MovedKnow ==
    \A m \in Members :
        /\ m \in moved => internal_[m] # {}
        /\ m \notin moved => posted[m] = <<>>

Knows(m) == IF posted[m] = <<>> THEN internal_[m] ELSE {posted[m][Len(posted[m])]}

Owes(f, m) ==
    f.key = KeyOf[m] /\ (m \in f.now \/ (m \notin Profile /\ LetsThrough(f)))

KnowOrOwed ==
    \A m \in observing :
        \/ internal_[m] = {}
        \/ \E i \in DOMAIN calls : Owes(calls[i], m)
        \/ <<ServiceOf(m), KeyOf[m]>> \in silent
        \/ Knows(m) = {Current(ServiceOf(m), KeyOf[m])}

IInv == TypesOK /\ MovedKnow /\ KnowOrOwed
=============================================================================

----------------------------- MODULE MCSettings -----------------------------
(* Where things are and what the user prefers: the path service, the file  *)
(* of a JsonPrefStore, or the PrefServices, is the subject of a behaviour. *)
EXTENDS PathService, TLC

CONSTANTS FileExe, DirExe, AppDir,
          FileKeys, Data, Marked, MaxTasks,
          PrefKeys, PrefValues, Members, Profile, KeyOf, MaxPrefChanges, MaxDepth, MaxPosted

VARIABLES subject,
          in_file, file_read, read_only_, writer_, runner, report, disk, no_dir, open,
          policy, failed, waiting, told, early, kept,
          managed, command_line, prefs_, overlay_, defaults_, overlaid, pref_changes,
          internal_, moved, posted, observing, notifying, silent, initialized_

filing == <<in_file, file_read, read_only_, writer_, runner, report, disk, no_dir, open,
            policy, failed, waiting, told, early, kept>>
preferring == <<managed, command_line, prefs_, overlay_, defaults_, overlaid, pref_changes,
                internal_, moved, posted, observing, notifying, silent, initialized_>>

ParentDef == DirExe :> FileExe @@ AppDir :> DirExe
LenientDef == {DirExe}
BaseKeysDef == Keys \ {AppDir}
KeyOfDef == [m \in Members |-> CHOOSE k \in PrefKeys : TRUE]

(* A PrefMember is of a preference.                                        *)
ASSUME MembersAssumption == KeyOf \in [Members -> PrefKeys]

Filing == INSTANCE JsonPrefStore WITH
    Keys <- FileKeys, prefs_ <- in_file, initialized_ <- file_read
Preferring == INSTANCE PrefService WITH
    Keys <- PrefKeys, Values <- PrefValues,
    MaxChanges <- MaxPrefChanges, changes <- pref_changes, calls <- notifying

Symmetry == Permutations(Threads) \cup Permutations(Paths) \cup Permutations(PrefValues)

EachInit ==
    /\ subject \in {"paths", "file", "preferences"}
    /\ Init /\ Filing!Init /\ Preferring!Init
    /\ subject # "file" => disk.error = "parse" /\ ~no_dir /\ ~policy
    /\ subject # "preferences" =>
        overlaid = {} /\ \A k \in PrefKeys : defaults_[k] = CHOOSE v \in PrefValues : TRUE

EachNext ==
    /\ \/ subject = "paths" /\ Next /\ UNCHANGED <<filing, preferring>>
       \/ subject = "file" /\ Filing!Next /\ UNCHANGED <<vars, preferring>>
       \/ subject = "preferences" /\ Preferring!Next /\ UNCHANGED <<vars, filing>>
    /\ UNCHANGED subject

EachSpec == EachInit /\ [][EachNext]_<<subject, vars, filing, preferring>>

(* What a PrefMember knows is the preference's value, once it is notified. *)
MemberInSync == Preferring!MemberInSync

(* A store that is read again has what it had when it was closed.          *)
ReopenedAsClosed == Filing!ReopenedAsClosed

(* A file that could not be read is written over only by what was          *)
(* scheduled before the reading ended.                                     *)
ReadOnlyWritesNothingNew == Filing!ReadOnlyWritesNothingNew

(* Init observers are told once at most, and the truth. *)
InitObserversToldOnce == Filing!InitObserversToldOnce
=============================================================================

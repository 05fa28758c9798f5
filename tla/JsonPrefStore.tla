---------------------------- MODULE JsonPrefStore ----------------------------
(***************************************************************************)
(* JsonPrefStore (prefs/json_pref_store.cc): preferences in memory, read   *)
(* from a file by the store's thread or by its task runner, and written    *)
(* back by an ImportantFileWriter (external: ScheduleWrite starts a timer, *)
(* DoScheduledWrite serializes at once and posts the writing to the same   *)
(* runner).  The store lives, is destroyed and is opened again.            *)
(***************************************************************************)
EXTENDS Naturals, Sequences

CONSTANTS
    Keys,
    Data,     \* values that are not empty lists or dictionaries
    Marked,   \* keys of MarkNeedsEmptyValue: their default is not empty
    MaxTasks  \* bound: tasks in the runner's queue

Values == Data \cup {"none", "empty"}
Contents == [Keys -> Values]
Nothing == [k \in Keys |-> "none"]
NoFile == [error |-> "no file", value |-> Nothing]
Unreadable == [NoFile EXCEPT !.error = "access"]
Files == {NoFile, [NoFile EXCEPT !.error = "parse"]}
             \cup [error : {"none"}, value : Contents]

VARIABLES
    prefs_, initialized_, read_only_,
    writer_,    \* HasPendingWrite
    runner,     \* tasks of sequenced_task_runner_: a reading has an empty data
    report,     \* {}, or the result that ReportOnOriginThread brings
    disk,       \* the file: the error of reading it, if any, and its value
    no_dir,     \* the directory of the file does not exist
    open,       \* the store exists
    policy,     \* the managed store is initialized, too
    failed,     \* initialization_failed_ of the PrefValueStore
    waiting,    \* PrefNotifierImpl has an init_observer, and ...
    told,       \* ... history: what init observers were told
    early,      \* history: it was written to before it was initialized
    kept        \* history: what a clean close left to be found again, or {}

vars == <<prefs_, initialized_, read_only_, writer_, runner, report, disk, no_dir,
          open, policy, failed, waiting, told, early, kept>>
initVars == <<policy, failed, waiting, told>>

Init ==
    /\ prefs_ = Nothing
    /\ initialized_ = FALSE /\ read_only_ = FALSE /\ writer_ = FALSE
    /\ runner = <<>> /\ report = {}
    /\ disk \in Files
    /\ no_dir \in BOOLEAN /\ (no_dir => disk = NoFile)
    /\ open = FALSE
    /\ policy \in BOOLEAN /\ failed = FALSE
    /\ waiting = FALSE /\ told = <<>>
    /\ early = FALSE /\ kept = {}
Reading == {}
-----------------------------------------------------------------------------
(* SerializeData: empty children are pruned, but not those marked.         *)
SerializeData(p) ==
    [k \in Keys |-> IF p[k] = "empty" /\ k \notin Marked THEN "none" ELSE p[k]]

(* DoReading and HandleErrors: a file that cannot be parsed is moved aside *)
(* and one that is locked or denied is left alone.                         *)
DoReading(result) ==
    disk' = IF result.error = "parse" THEN NoFile ELSE disk

(* PrefValueStore::OnInitializationCompleted, when the managed and the     *)
(* user store are initialized like this or reading failed; its notifier    *)
(* copies and clears the list of init observers before it runs them.       *)
CompletesAnyhow(managed, user, succeeded) ==   \* does not look at the stores
    /\ failed' = (failed \/ ~succeeded)
    /\ IF failed
       THEN UNCHANGED <<waiting, told>>
       ELSE waiting' = FALSE /\ told' = IF waiting THEN Append(told, succeeded) ELSE told

OnInitializationCompleted(managed, user, succeeded) ==
    /\ failed' = (failed \/ ~succeeded)
    /\ IF failed \/ (succeeded /\ ~(managed /\ user))
       THEN UNCHANGED <<waiting, told>>
       ELSE waiting' = FALSE /\ told' = IF waiting THEN Append(told, succeeded) ELSE told

OnFileRead(result) ==
    /\ initialized_' = ~no_dir
    /\ read_only_' = (~no_dir /\ result.error = "access")
    /\ prefs_' = IF result.error = "none" /\ ~no_dir THEN result.value ELSE prefs_
    /\ OnInitializationCompleted(policy, ~no_dir, ~no_dir)
    /\ UNCHANGED policy

(* A store is opened, and its file read at once: in a new process, for     *)
(* which the tasks that blocked the shutdown have run (BLOCK_SHUTDOWN).    *)
(* Nothing keeps a program from doing so in the same process while they    *)
(* are queued, and from reading the file as it was before them ...         *)
ReadPrefs ==
    /\ ~open /\ runner = <<>>
    /\ open' = TRUE
    /\ \E result \in {disk, Unreadable} : DoReading(result) /\ OnFileRead(result)
    /\ UNCHANGED <<writer_, runner, report, no_dir, early, kept>>

ReadPrefsUnsequenced ==              \* read by a runner of its own
    /\ ~open /\ Len(runner) < MaxTasks
    /\ open' = TRUE
    /\ runner' = <<Reading>> \o runner
    /\ UNCHANGED <<prefs_, initialized_, read_only_, writer_, report, disk, no_dir, initVars,
                   early, kept>>

(* ... or it is read by a task of the same runner, behind the writings of  *)
(* the store before, and reports to the store's thread.                    *)
ReadPrefsAsync ==
    /\ ~open /\ Len(runner) < MaxTasks
    /\ open' = TRUE
    /\ runner' = Append(runner, Reading)
    /\ UNCHANGED <<prefs_, initialized_, read_only_, writer_, report, disk, no_dir, initVars,
                   early, kept>>

ReadFileAndReport ==
    /\ runner # <<>> /\ Head(runner) = Reading
    /\ runner' = Tail(runner)
    /\ \E result \in {disk, Unreadable} : DoReading(result) /\ report' = {result}
    /\ UNCHANGED <<prefs_, initialized_, read_only_, writer_, no_dir, open, initVars, early, kept>>

ReportOnOriginThread ==
    /\ \E result \in report : OnFileRead(result)
    /\ report' = {}
    /\ UNCHANGED <<writer_, runner, disk, no_dir, open, early, kept>>
-----------------------------------------------------------------------------
(* A client that finds INITIALIZATION_STATUS_WAITING asks to be told.      *)
AddInitObserver ==
    /\ open /\ ~initialized_ /\ ~waiting
    /\ waiting' = TRUE
    /\ UNCHANGED <<prefs_, initialized_, read_only_, writer_, runner, report, disk, no_dir,
                   open, policy, failed, told, early, kept>>

(* The managed store becomes initialized. *)
PolicyLoaded ==
    /\ ~policy /\ policy' = TRUE
    /\ OnInitializationCompleted(TRUE, initialized_, TRUE)
    /\ UNCHANGED <<prefs_, initialized_, read_only_, writer_, runner, report, disk, no_dir,
                   open, early, kept>>
-----------------------------------------------------------------------------
(* SetValue or RemoveValue; with silently, SetValueSilently, which does    *)
(* the same to the file.  ScheduleWrite unless read_only_.                 *)
SetValueSchedules(k, v) ==           \* if (!read_only_) is lost
    /\ open /\ prefs_[k] # v
    /\ prefs_' = [prefs_ EXCEPT ![k] = v]
    /\ writer_' = TRUE
    /\ early' = (early \/ ~initialized_)
    /\ UNCHANGED <<initialized_, read_only_, runner, report, disk, no_dir, open,
                   initVars, kept>>

SetValue(k, v) ==
    /\ open /\ prefs_[k] # v
    /\ prefs_' = [prefs_ EXCEPT ![k] = v]
    /\ writer_' = (writer_ \/ ~read_only_)
    /\ early' = (early \/ ~initialized_)
    /\ UNCHANGED <<initialized_, read_only_, runner, report, disk, no_dir, open,
                   initVars, kept>>

(* DoScheduledWrite, from the timer or from CommitPendingWrite.            *)
DoScheduledWrite ==
    /\ Len(runner) < MaxTasks
    /\ writer_' = FALSE
    /\ runner' = Append(runner, {SerializeData(prefs_)})

Timer ==
    /\ open /\ writer_
    /\ DoScheduledWrite
    /\ UNCHANGED <<prefs_, initialized_, read_only_, report, disk, no_dir, open,
                   initVars, early, kept>>

(* The runner replaces the file, if it has a directory for it.             *)
Write ==
    /\ runner # <<>>
    /\ \E data \in Head(runner) :
        disk' = IF no_dir THEN disk ELSE [error |-> "none", value |-> data]
    /\ runner' = Tail(runner)
    /\ UNCHANGED <<prefs_, initialized_, read_only_, writer_, report, no_dir, open,
                   initVars, early, kept>>

(* ~JsonPrefStore: CommitPendingWrite, which drops the write of a store    *)
(* that has turned out to be read-only.  A reader holds the store until it *)
(* has reported.  The tasks block the shutdown, so they still run.         *)
CloseCommits ==                      \* if (writer_.HasPendingWrite())
    /\ open /\ report = {} /\ \A i \in DOMAIN runner : runner[i] # Reading
    /\ open' = FALSE
    /\ IF writer_ THEN DoScheduledWrite ELSE UNCHANGED <<writer_, runner>>
    /\ prefs_' = Nothing
    /\ initialized_' = FALSE /\ read_only_' = FALSE /\ early' = FALSE
    /\ failed' = FALSE /\ waiting' = FALSE /\ told' = <<>>
    /\ kept' = IF initialized_ /\ ~read_only_ /\ ~early THEN {prefs_} ELSE {}
    /\ UNCHANGED <<report, disk, no_dir, policy>>

CloseUncommitted ==                  \* ~JsonPrefStore() {}
    /\ open /\ report = {} /\ \A i \in DOMAIN runner : runner[i] # Reading
    /\ open' = FALSE
    /\ prefs_' = Nothing /\ writer_' = FALSE
    /\ initialized_' = FALSE /\ read_only_' = FALSE /\ early' = FALSE
    /\ failed' = FALSE /\ waiting' = FALSE /\ told' = <<>>
    /\ kept' = IF initialized_ /\ ~read_only_ /\ ~early THEN {prefs_} ELSE {}
    /\ UNCHANGED <<runner, report, disk, no_dir, policy>>

Close ==
    /\ open /\ report = {} /\ \A i \in DOMAIN runner : runner[i] # Reading
    /\ open' = FALSE
    /\ IF writer_ /\ ~read_only_ THEN DoScheduledWrite ELSE writer_' = FALSE /\ UNCHANGED runner
    /\ prefs_' = Nothing
    /\ initialized_' = FALSE /\ read_only_' = FALSE /\ early' = FALSE
    /\ failed' = FALSE /\ waiting' = FALSE /\ told' = <<>>
    /\ kept' = IF initialized_ /\ ~read_only_ /\ ~early THEN {prefs_} ELSE {}
    /\ UNCHANGED <<report, disk, no_dir, policy>>

Next ==
    \/ ReadPrefs \/ ReadPrefsAsync \/ ReadFileAndReport \/ ReportOnOriginThread
    \/ \E k \in Keys, v \in Values : SetValue(k, v)
    \/ AddInitObserver \/ PolicyLoaded \/ Timer \/ Write \/ Close

Spec == Init /\ [][Next]_vars
-----------------------------------------------------------------------------
(* A store that is read without error again has what it had when it was    *)
(* closed, or "none" for an empty value that the default stands for: no    *)
(* change is lost between the timer, the commit in the destructor and the  *)
(* order of the runner's tasks (ReportValueChanged, CommitPendingWrite).   *)
ReopenedAsClosed ==
    [][(~initialized_ /\ initialized_' /\ ~read_only_' /\ ~early) =>
        \A p \in kept : \A k \in Keys :
            \/ prefs_'[k] = p[k]
            \/ k \notin Marked /\ p[k] = "empty" /\ prefs_'[k] = "none"]_vars

(* What a store that turned out to be read-only still has to write: what   *)
(* was scheduled before its reading ended.                                 *)
Owed == Len(runner) + (IF writer_ THEN 1 ELSE 0)

(* A file that was read, or could not be, is left alone until the store    *)
(* has it, if nobody set a value too early.  If somebody did, the write    *)
(* that SetValue scheduled is carried out, over a file that could not be   *)
(* read, too; but a read-only store never comes to owe more ("changes are  *)
(* not actually persisted to disk", persistent_pref_store.h), each change  *)
(* of the file is one it owed, and its destructor adds none.               *)
ReadOnlyWritesNothingNew ==
    [][open /\ (\A i \in DOMAIN runner : runner[i] # Reading) =>
        /\ (~initialized_ \/ read_only_) /\ ~early => disk' = disk
        /\ read_only_ => /\ Owed' <= Owed
                         /\ disk' # disk => Owed' < Owed
                         /\ ~open' => runner' = runner]_vars

(* "We run the callback once, when initialization completes" (pref_        *)
(* service.h): TRUE when the file has been read and the policy is there,   *)
(* in whatever order, FALSE when reading failed, and nothing after that;   *)
(* nobody is left waiting when both are ready (but for ever after a        *)
(* failure, who comes later than it).                                      *)
InitObserversToldOnce ==
    /\ Len(told) <= 1
    /\ \A i \in DOMAIN told : told[i] = (policy /\ initialized_ /\ ~failed)
    /\ (open /\ policy /\ initialized_) => ~waiting

(* What makes them inductive.  The tasks of the runner, the results of     *)
(* readings, and what is going to be in the file when the tasks have run.  *)
Tasks == {Reading} \cup {{c} : c \in Contents}
Results == Files \cup {Unreadable}
Latest ==
    LET n == Len(runner)
        last == IF runner # <<>> /\ runner[n] = Reading THEN n - 1 ELSE n
    IN  IF last = 0 THEN {disk.value} ELSE runner[last]

TypesOK ==
    /\ prefs_ \in Contents /\ disk \in Files /\ report \in {{}} \cup {{r} : r \in Results}
    /\ runner \in Seq(Tasks) /\ kept \subseteq Contents
    /\ initialized_ \in BOOLEAN /\ read_only_ \in BOOLEAN /\ writer_ \in BOOLEAN
    /\ no_dir \in BOOLEAN /\ open \in BOOLEAN /\ policy \in BOOLEAN /\ failed \in BOOLEAN
    /\ waiting \in BOOLEAN /\ early \in BOOLEAN /\ told \in Seq(BOOLEAN)

(* One reading at a time, and the store waits for it.                      *)
ReadsOnce ==
    /\ \A i \in DOMAIN runner : runner[i] = Reading =>
        report = {} /\ \A j \in DOMAIN runner : runner[j] = Reading => i = j
    /\ (report # {} \/ \E i \in DOMAIN runner : runner[i] = Reading) =>
        open /\ ~initialized_ /\ ~read_only_ /\ ~failed /\ told = <<>>

(* A closed store is as a new one; one without a directory is not read.    *)
ClosedForgets ==
    /\ ~open => /\ prefs_ = Nothing /\ ~initialized_ /\ ~read_only_ /\ ~writer_ /\ ~early
                /\ ~failed /\ ~waiting /\ told = <<>>
    /\ failed => ~initialized_
    /\ no_dir => ~initialized_ /\ kept = {} /\ disk = NoFile
    /\ told # <<>> => failed \/ (policy /\ initialized_)

(* As long as nobody set a value too early, a store that is not read, or   *)
(* could not be, has nothing to write: what is queued is of the store      *)
(* before, ahead of the reading.                                           *)
NothingToWrite ==
    ~early =>
        /\ ~initialized_ => prefs_ = Nothing
        /\ open /\ (~initialized_ \/ read_only_) =>
            ~writer_ /\ (runner = <<>> \/ runner[Len(runner)] = Reading)
        /\ \A r \in report : r.error # "access" => r.value = disk.value

(* The file, when the tasks have run, has what the store has, or what it   *)
(* was closed with.                                                        *)
Keeps(data, p) ==
    \A k \in Keys : data[k] = p[k] \/ (k \notin Marked /\ p[k] = "empty" /\ data[k] = "none")

FileKeeps ==
    ~early =>
        /\ ~initialized_ => \A data \in Latest, p \in kept : Keeps(data, p)
        /\ open /\ initialized_ /\ ~read_only_ /\ ~writer_ =>
            \A data \in Latest : Keeps(data, prefs_)

IInv ==
    TypesOK /\ ReadsOnce /\ ClosedForgets /\ NothingToWrite /\ FileKeeps /\ InitObserversToldOnce
=============================================================================

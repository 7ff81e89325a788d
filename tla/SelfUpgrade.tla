---------------------------- MODULE SelfUpgrade ----------------------------
(***************************************************************************)
(* Self-upgrade of a managed install: the engine (server/src/              *)
(* self_upgrade.rs), the journal and the link it shares with the boot      *)
(* guard (bootguard/src), and the guard itself, run by systemd before      *)
(* every start.  `current` names a version for the directory               *)
(* releases/<version>.  What is on disk -- releases, current, journal,     *)
(* attempts, schema -- outlives a crash; the process and the upgrade task  *)
(* in it do not.                                                           *)
(***************************************************************************)
EXTENDS UpdateCheck, TLC

CONSTANTS
    Broken,          \* versions whose process never gets to reconcile_on_boot
    NotExecutable,   \* versions whose binary the host refuses to exec
    SchemaOf,        \* the newest migration each version carries
    KeepReleases,    \* KEEP_RELEASES of prune_releases
    MaxBootAttempts, \* MAX_BOOT_ATTEMPTS of the guard
    MaxCrashes,      \* how often the host may fail: a bound
    MaxFaults        \* how often an operation on the disk may fail: a bound

ASSUME UpgradeAssumption ==
    /\ Broken \subseteq Version \ {1}
    /\ NotExecutable \subseteq Version \ {1}
    /\ SchemaOf \in [Version -> Nat]
    /\ KeepReleases \in Nat
    /\ MaxBootAttempts \in Nat \ {0}
    /\ MaxCrashes \in Nat
    /\ MaxFaults \in Nat

VARIABLES
    enabled,    \* self_upgrade_settings.enabled
    proc,       \* where the nudo process is, the guard included
    running,    \* the version of the last process that ran
    task,       \* the spawned upgrade: its step, and the version it installs
    releases,   \* what is under releases/<version>
    current,    \* the version `current` links to
    journal,    \* the upgrade journal: resting, "staged" or "swapped"
    attempts,   \* the guard's counter file
    schema,     \* the newest migration applied to the database
    guardFrom,  \* the version the stable copy of the guard was taken from
    crashes,
    faults,
    strayed     \* history: an upgrade that gave up left the link on its release

diskVars == <<releases, current, journal, attempts, schema, guardFrom>>
vars == <<checkVars, enabled, proc, running, task, diskVars, crashes, faults, strayed>>

NoTask == [step |-> "none", to |-> None]

(* At rest it is "idle", "confirmed", "exec_failed", "rolled_back" or      *)
(* "failed".                                                               *)
Entry(state, to, previous) == [state |-> state, to |-> to, previous |-> previous]

Down == {"down", "reverted", "resetting", "counted"}     \* systemd is (re)starting it
Up == {"opening", "reconciling", "tidying", "serving"}

Init ==
    /\ CheckInit
    /\ enabled = FALSE
    /\ proc = "serving"
    /\ running = 1
    /\ task = NoTask
    /\ releases = [v \in Version |-> IF v = 1 THEN "whole" ELSE "absent"]
    /\ current = 1
    /\ journal = Entry("idle", None, None)
    /\ attempts = 0
    /\ schema = SchemaOf[1]
    /\ guardFrom = 1
    /\ crashes = 0
    /\ faults = 0
    /\ strayed = FALSE

Runnable(v) == releases[v] = "whole" /\ v \notin NotExecutable

Fault == faults < MaxFaults /\ faults' = faults + 1

(* Journal::store, swap_current and write_attempts: written under another  *)
(* name, renamed into place, and the directory synced.  One that fails has *)
(* left the old value, or, failing in the sync, the new one all the same.  *)
Puts(file, value, Then, Else) ==
    \/ file' = value /\ UNCHANGED faults /\ Then
    \/ Fault /\ file' \in {file, value} /\ Else

--------------------------------------------------------------------------
(* The operator and the release check. *)

SetSelfUpgrade ==
    /\ proc = "serving"
    /\ enabled' = ~enabled
    /\ UNCHANGED <<checkVars, proc, running, task, diskVars, crashes, faults, strayed>>

CheckStep ==
    /\ proc = "serving"
    /\ Fetch \/ Record(running) \/ SetReleaseCheck
    /\ UNCHANGED <<enabled, proc, running, task, diskVars, crashes, faults, strayed>>

(* Faulty variant: start without the ladder against going back. *)
MayStartAnyLatest(v) ==
    /\ enabled
    /\ v # running
    /\ v \in recordedManifest
    /\ v = Latest(recordedManifest)
    /\ task = NoTask

(* SelfUpgrader::start: the switch, the ladder against going back, the     *)
(* recorded manifest, and the one live slot of the process.                *)
MayStart(v) ==
    /\ enabled
    /\ v > running
    /\ v \in recordedManifest
    /\ v = Latest(recordedManifest)
    /\ task = NoTask

Start(v) ==
    /\ proc = "serving"
    /\ MayStart(v)
    /\ task' = [step |-> "clear", to |-> v]
    /\ UNCHANGED <<checkVars, enabled, proc, running, diskVars, crashes, faults, strayed>>

--------------------------------------------------------------------------
(* SelfUpgrader::run, one action per effect on the disk.                   *)

At(step) == proc = "serving" /\ task.step = step
Goto(step) == task' = [task EXCEPT !.step = step]

taskKeeps == <<checkVars, enabled, proc, running, attempts, schema, guardFrom, crashes>>

(* Whatever an earlier attempt left under releases/<version> is removed    *)
(* before anything else is done; a removal may break off half way.         *)
ClearStale ==
    /\ At("clear")
    /\ \/ releases' = [releases EXCEPT ![task.to] = "absent"] /\ Goto("download")
       \/ /\ releases[task.to] # "absent"
          /\ releases' \in {releases, [releases EXCEPT ![task.to] = "partial"]}
          /\ Goto("fail")
    /\ UNCHANGED <<taskKeeps, current, journal, faults, strayed>>

(* The download and the digest check: an error leaves nothing behind. *)
Download ==
    /\ At("download")
    /\ Goto("unpack") \/ Goto("fail")
    /\ UNCHANGED <<taskKeeps, releases, current, journal, faults, strayed>>

(* unpack writes file by file; it may fail with some of them written. *)
Unpack ==
    /\ At("unpack")
    /\ \/ releases' = [releases EXCEPT ![task.to] = "whole"] /\ Goto("snapshot")
       \/ releases' = [releases EXCEPT ![task.to] = "partial"] /\ Goto("fail")
    /\ UNCHANGED <<taskKeeps, current, journal, faults, strayed>>

Snapshot ==
    /\ At("snapshot")
    /\ Goto("stage") \/ Goto("fail")
    /\ UNCHANGED <<taskKeeps, releases, current, journal, faults, strayed>>

(* The way back is whatever `current` names now. *)
StageEntry == Entry("staged", task.to, current)

(* An upgrade from the release that is linked is a fresh start. *)
Stage ==
    /\ At("stage")
    /\ Puts(journal, StageEntry, Goto("swap")  /\ strayed' = (current # running),
                                 Goto("fail") /\ UNCHANGED strayed)
    /\ UNCHANGED <<taskKeeps, releases, current>>

(* From here to the exec every error is an error of the whole upgrade,     *)
(* though the link may have moved.                                         *)
Swap ==
    /\ At("swap")
    /\ Puts(current, task.to, Goto("record") /\ UNCHANGED strayed,
                              Goto("fail") /\ strayed' = (strayed \/ current' = task.to))
    /\ UNCHANGED <<taskKeeps, releases, journal>>

RecordSwap ==
    /\ At("record")
    /\ Puts(journal, [journal EXCEPT !.state = "swapped"], Goto("exec") /\ UNCHANGED strayed,
                                                           Goto("fail") /\ strayed' = TRUE)
    /\ UNCHANGED <<taskKeeps, releases, current>>

(* exec through `current`.  It either replaces the process, and with it    *)
(* the task, or returns to a process that is still the old one.            *)
Exec ==
    /\ At("exec")
    /\ \/ /\ Runnable(current)
          /\ proc' = "opening" /\ running' = current
          /\ task' = NoTask /\ fetched' = {}
       \/ Goto("revert") /\ UNCHANGED <<proc, running, fetched>>
    /\ UNCHANGED <<releaseCheck, latestVersion, recordedManifest, enabled,
                   diskVars, crashes, faults, strayed>>

(* Faulty variant: a failed exec is recorded and the link left alone. *)
RevertNothing ==
    /\ At("revert")
    /\ Goto("unexec")
    /\ UNCHANGED <<taskKeeps, releases, current, journal, faults, strayed>>

(* Putting the link back may fail as well, and is then no more than an     *)
(* error of the upgrade.                                                   *)
Revert ==
    /\ At("revert")
    /\ Puts(current, journal.previous, Goto("unexec") /\ UNCHANGED strayed,
                                       Goto("fail") /\ strayed' = (strayed \/ current' = task.to))
    /\ UNCHANGED <<taskKeeps, releases, journal>>

ExecFailed ==
    /\ At("unexec")
    /\ Puts(journal, [journal EXCEPT !.state = "exec_failed"], task' = NoTask, Goto("fail"))
    /\ UNCHANGED <<taskKeeps, releases, current, strayed>>

(* Faulty variant: the error arm forgets to free the slot. *)
TaskFailsSlotKept ==
    /\ At("fail")
    /\ Puts(journal, Entry("failed", task.to, None), TRUE, TRUE)
    /\ UNCHANGED <<taskKeeps, releases, current, task, strayed>>

(* The error arm of the spawned task.  A failed write is only logged; the  *)
(* slot is freed either way.  Nothing looks where the link is.             *)
TaskFails ==
    /\ At("fail")
    /\ Puts(journal, Entry("failed", task.to, None), TRUE, TRUE)
    /\ task' = NoTask
    /\ UNCHANGED <<taskKeeps, releases, current, strayed>>

TaskStep == ClearStale \/ Download \/ Unpack \/ Snapshot \/ Stage \/ Swap
              \/ RecordSwap \/ Exec \/ Revert \/ ExecFailed \/ TaskFails

--------------------------------------------------------------------------
(* A start by systemd: the guard, then whatever `current` names.           *)

guardKeeps == <<checkVars, enabled, running, task, releases, schema, guardFrom, crashes, strayed>>

(* A journal that cannot be read stops neither the guard nor the start. *)
GuardCannotRead ==
    /\ proc = "down"
    /\ Fault
    /\ proc' = "counted"
    /\ UNCHANGED <<guardKeeps, current, journal, attempts>>

GuardStandsAside ==
    /\ proc = "down"
    /\ journal.state # "swapped"
    /\ proc' = "resetting"
    /\ UNCHANGED <<guardKeeps, current, journal, attempts, faults>>

GuardCounts ==
    /\ proc = "down"
    /\ journal.state = "swapped"
    /\ attempts + 1 < MaxBootAttempts
    /\ Puts(attempts, attempts + 1, TRUE, TRUE)
    /\ proc' = "counted"
    /\ UNCHANGED <<guardKeeps, current, journal>>

(* A counter that cannot be read is at zero. *)
GuardMiscounts ==
    /\ proc = "down"
    /\ journal.state = "swapped"
    /\ 1 < MaxBootAttempts
    /\ Fault /\ attempts' = 1
    /\ proc' = "counted"
    /\ UNCHANGED <<guardKeeps, current, journal>>

(* A revert that fails is tried again at the next start. *)
GuardReverts ==
    /\ proc = "down"
    /\ journal.state = "swapped"
    /\ attempts + 1 >= MaxBootAttempts
    /\ Puts(current, journal.previous, proc' = "reverted", proc' = "counted")
    /\ UNCHANGED <<guardKeeps, attempts, journal>>

GuardRecords ==
    /\ proc = "reverted"
    /\ Puts(journal, [journal EXCEPT !.state = "rolled_back"], TRUE, TRUE)
    /\ proc' = "resetting"
    /\ UNCHANGED <<guardKeeps, current, attempts>>

GuardResets ==
    /\ proc = "resetting"
    /\ \/ attempts' = 0 /\ UNCHANGED faults
       \/ Fault /\ UNCHANGED attempts
    /\ proc' = "counted"
    /\ UNCHANGED <<guardKeeps, current, journal>>

ExecStart ==
    /\ proc = "counted"
    /\ IF Runnable(current)
         THEN proc' = "opening" /\ running' = current
         ELSE proc' = "down" /\ UNCHANGED running
    /\ UNCHANGED <<checkVars, enabled, task, diskVars, crashes, faults, strayed>>

--------------------------------------------------------------------------
(* A process on its way up.                                                *)

bootKeeps == <<checkVars, enabled, running, task, crashes, strayed>>

(* Store::open refuses a database a newer version has migrated. *)
CanOpen == schema <= SchemaOf[running]

OpenStore ==
    /\ proc = "opening"
    /\ running \notin Broken
    /\ IF CanOpen THEN proc' = "reconciling" /\ schema' = SchemaOf[running]
                  ELSE proc' = "down" /\ UNCHANGED schema
    /\ UNCHANGED <<bootKeeps, releases, current, journal, attempts, guardFrom, faults>>

(* A broken version goes down before it can confirm, with its migrations   *)
(* applied or not.                                                         *)
BrokenBoot ==
    /\ proc = "opening"
    /\ running \in Broken
    /\ schema' \in IF CanOpen THEN {schema, SchemaOf[running]} ELSE {schema}
    /\ proc' = "down"
    /\ UNCHANGED <<bootKeeps, releases, current, journal, attempts, guardFrom, faults>>

(* reconcile_in up to the journal write; it serves whatever it finds.      *)
Reconcile ==
    /\ proc = "reconciling"
    /\ \/ /\ journal.state # "swapped"
          /\ proc' = "serving"
          /\ UNCHANGED <<journal, faults>>
       \/ Fault /\ proc' = "serving" /\ UNCHANGED journal
       \/ /\ journal.state = "swapped" /\ journal.to = running
          /\ Puts(journal, [journal EXCEPT !.state = "confirmed"],
                  proc' = "tidying", proc' = "serving")
       \/ /\ journal.state = "swapped" /\ journal.to # running
          /\ Puts(journal, [journal EXCEPT !.state = "failed"],
                  proc' = "serving", proc' = "serving")
    /\ UNCHANGED <<bootKeeps, releases, current, attempts, schema, guardFrom>>

Installed == {v \in Version : releases[v] # "absent"}

(* Faulty variant: the sweep goes by age alone. *)
DoomedByAge ==
    {v \in Installed : Cardinality({w \in Installed : w > v}) >= KeepReleases}

(* prune_releases: beyond the newest KeepReleases, and not named by the    *)
(* journal or the link.                                                    *)
Doomed ==
    {v \in Installed \ {journal.previous, journal.to, current} :
        Cardinality({w \in Installed : w > v}) >= KeepReleases}

(* What a removal may leave of a directory. *)
Remains(v) == {"absent", "partial", releases[v]}

(* The rest of the confirmation: the counter, the stable guard, the prune, *)
(* each of which may fail and is then left as it is.                       *)
Tidy ==
    /\ proc = "tidying"
    /\ \/ /\ attempts' = 0 /\ guardFrom' = current
          /\ releases' = [v \in Version |-> IF v \in Doomed THEN "absent" ELSE releases[v]]
          /\ UNCHANGED faults
       \/ /\ Fault
          /\ attempts' \in {0, attempts} /\ guardFrom' \in {guardFrom, current}
          /\ releases' \in {rest \in [Version -> {"absent", "partial", "whole"}] :
                \A v \in Version : rest[v] \in IF v \in Doomed THEN Remains(v) ELSE {releases[v]}}
    /\ proc' = "serving"
    /\ UNCHANGED <<bootKeeps, current, journal, schema>>

(* The host fails, or the process is killed, at any point of all of this.  *)
Crash ==
    /\ crashes < MaxCrashes
    /\ proc # "down"
    /\ proc' = "down"
    /\ task' = NoTask
    /\ fetched' = {}
    /\ crashes' = crashes + 1
    /\ UNCHANGED <<releaseCheck, latestVersion, recordedManifest, enabled,
                   running, diskVars, faults, strayed>>

BootStep == GuardCannotRead \/ GuardStandsAside \/ GuardCounts \/ GuardMiscounts
              \/ GuardReverts \/ GuardRecords \/ GuardResets \/ ExecStart
              \/ OpenStore \/ BrokenBoot \/ Reconcile \/ Tidy

Next ==
    \/ SetSelfUpgrade
    \/ CheckStep
    \/ \E v \in Version : Start(v)
    \/ TaskStep
    \/ BootStep
    \/ Crash

Spec == Init /\ [][Next]_vars

(* Restart=always starts the process again, a boot goes on by itself, and  *)
(* the task is spawned on the runtime.  Nothing makes an operator act.     *)
FairSpec == Spec /\ WF_vars(BootStep) /\ WF_vars(TaskStep)

--------------------------------------------------------------------------
(* What the dashboard shows: a live phase outranks the journal. *)
StatusState == IF task # NoTask THEN "live" ELSE journal.state

(* Property.  The release that ran last is whole.  `current` names a whole *)
(* release, and while the journal holds a way back it names another whole  *)
(* release, one that has run: whatever was retried, pruned, reverted or    *)
(* interrupted before, and whichever writes failed.  Only an upgrade that  *)
(* gives up with the link on its release may undo it: a retry then clears  *)
(* the linked directory, or goes back to a release that has never run.     *)
WayBack ==
    /\ releases[running] = "whole"
    /\ ~strayed =>
         /\ releases[current] = "whole"
         /\ journal.state \in {"swapped", "confirmed"} =>
              /\ journal.previous # journal.to
              /\ releases[journal.previous] = "whole"
              /\ journal.previous \notin Broken \cup NotExecutable

(* Property.  What the upgrade page says of the last upgrade is so: a      *)
(* confirmed version is the one that runs, and after a rollback, a failed  *)
(* exec or a failed upgrade it is neither running nor linked; unless the   *)
(* upgrade gave up with the link on its release.                           *)
PageTellsTheTruth ==
    proc = "serving" =>
      /\ StatusState = "confirmed" => journal.to = running
      /\ StatusState \in {"rolled_back", "exec_failed", "failed"} /\ ~strayed =>
           journal.to # running /\ journal.to # current

(* Property.  A process gives way to an older version only where the       *)
(* journal names that version as the way back of an upgrade: no manifest,  *)
(* retry, crash or prune makes an instance go back on its own.             *)
GoesBackOnlyByTheJournal ==
    [][running' < running =>
         /\ journal.state \in {"swapped", "rolled_back"}
         /\ running' = journal.previous]_vars

(* Property.  An upgrade under way ends, by an exec, an error, or with the *)
(* process; and a swapped release that cannot come up is reverted by the   *)
(* guard, however often its own writes fail first, unless the upgrade gave *)
(* up on it.  One that is linked while the journal still says staged is    *)
(* not: the guard stands aside for it.                                     *)
UpgradeEnds ==
    /\ (task # NoTask) ~> (task = NoTask)
    /\ (journal.state = "swapped" /\ current \in Broken) ~> (current \notin Broken \/ strayed)

=============================================================================

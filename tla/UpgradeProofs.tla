--------------------------- MODULE UpgradeProofs ---------------------------
(***************************************************************************)
(* Proofs about SelfUpgrade, for any versions, broken or not, any manifest,*)
(* any number of crashes and of failing writes, whichever they are.        *)
(***************************************************************************)
EXTENDS MCSelfUpgrade, TLAPS

-----------------------------------------------------------------------------
(* The link, the journal, the process and the task agree.                  *)

Processes == Down \cup Up
States == {"idle", "staged", "swapped", "confirmed", "exec_failed", "rolled_back", "failed"}
Steps == {"none", "clear", "download", "unpack", "snapshot", "stage", "swap", "record",
          "exec", "revert", "unexec", "fail"}
Journals == [state : States, to : Version \cup {None}, previous : Version \cup {None}]
Tasks == [step : Steps, to : Version \cup {None}]

UpgradeType ==
    /\ proc \in Processes
    /\ running \in Version /\ current \in Version
    /\ releases \in [Version -> {"absent", "partial", "whole"}]
    /\ journal \in Journals
    /\ task \in Tasks
    /\ strayed \in BOOLEAN

\* What ran last is whole and can be executed, what serves has come up, and a
\* confirmed journal names what runs.
RunInv ==
    /\ releases[running] = "whole" /\ running \notin NotExecutable
    /\ proc \in {"opening", "reconciling", "tidying"} => current = running
    /\ proc \in {"reconciling", "tidying", "serving"} => running \notin Broken
    /\ journal.state = "swapped" => journal.previous \in Version
    /\ journal.state = "confirmed" => journal.to = running /\ current = running
    /\ proc = "reverted" => journal.state = "swapped" /\ current = journal.previous
    /\ proc = "tidying" => journal.state = "confirmed"

\* The task installs a newer release than the one it runs in, and from the
\* journal on it is the one upgrade the journal is about.
TaskInv ==
    /\ task.step = "none" <=> task = NoTask
    /\ task # NoTask => proc = "serving" /\ task.to \in Version /\ task.to > running
    /\ task.step \in {"snapshot", "stage", "swap", "record", "exec", "revert", "unexec"} =>
         releases[task.to] = "whole"
    /\ task.step \in {"swap", "record"} => journal.state = "staged"
    /\ task.step \in {"exec", "revert", "unexec"} => journal.state = "swapped"
    /\ task.step \in {"swap", "record", "exec", "revert", "unexec"} =>
         journal.to = task.to /\ journal.previous \in Version

\* The link is ahead of the process: swapped, and the new release not yet up.
Ahead == task.step \in {"record", "exec", "revert"}

\* What holds until an upgrade gives up with the link on its release: the link
\* names a whole release, what runs but for an upgrade under way, and the journal
\* a way back to one that has run.
LinkInv ==
    /\ releases[current] = "whole"
    /\ proc = "serving" => IF Ahead THEN current = task.to ELSE current = running
    /\ task.step \in {"swap", "record", "exec", "revert", "unexec"} => journal.previous = running
    /\ journal.state \in {"swapped", "confirmed"} =>
         /\ journal.previous \in Version /\ releases[journal.previous] = "whole"
         /\ journal.previous \notin Broken \cup NotExecutable
    /\ journal.state \in {"swapped", "confirmed", "rolled_back", "exec_failed"} =>
         /\ journal.previous < journal.to
         /\ current \in {journal.previous, journal.to}
    /\ journal.state \in {"rolled_back", "exec_failed"} => current = journal.previous
    /\ journal.state = "failed" => current # journal.to

UpgradeInv == UpgradeType /\ RunInv /\ TaskInv /\ (~strayed => LinkInv)

\* A process that is up is not ahead of the link; one that is down is only while
\* the journal takes it back; and a way back written to the journal leads no
\* further back than the process that wrote it.
ForwardInv ==
    /\ proc \in Up => current >= running
    /\ \/ current >= running
       \/ journal.state \in {"swapped", "rolled_back"} /\ current = journal.previous
    /\ task.step \in {"swap", "record", "exec", "revert", "unexec"} => journal.previous >= running

LEMMA VersionsAreNumbers == None \notin Version /\ \A v \in Version : v \in Nat /\ v > 0
<1>1. MaxVersion \in Nat
  BY UpdateAssumption
<1>. QED  BY <1>1 DEF Version, None

LEMMA FirstVersion == 1 \in Version /\ 1 \notin Broken /\ 1 \notin NotExecutable
<1>1. MaxVersion \in Nat /\ MaxVersion > 0
  BY UpdateAssumption
<1>. QED  BY <1>1, UpgradeAssumption DEF Version

LEMMA InitUpgrade == Init => UpgradeInv
<1>. SUFFICES ASSUME Init PROVE UpgradeInv
  OBVIOUS
<1>1. UpgradeType
  BY FirstVersion
     DEF Init, UpgradeType, Processes, Up, Down, States, Steps, NoTask, Entry, Journals, Tasks
<1>2. RunInv
  BY FirstVersion DEF Init, RunInv, Entry
<1>3. TaskInv
  BY DEF Init, TaskInv, NoTask
<1>4. LinkInv
  BY FirstVersion DEF Init, LinkInv, Entry, NoTask, Ahead
<1>. QED  BY <1>1, <1>2, <1>3, <1>4 DEF UpgradeInv

-----------------------------------------------------------------------------
(* The steps of the task.                                                  *)

\* A step of the task goes on to `step` with the same release to install.
LEMMA GotoType ==
  ASSUME NEW step \in Steps, task \in Tasks, Goto(step)
  PROVE  task' \in Tasks /\ task'.step = step /\ task'.to = task.to
BY DEF Goto, Tasks

\* A write of the journal moves its state, or leaves it as it was.
LEMMA JournalMoves ==
  ASSUME NEW state \in States, journal \in Journals, journal' = [journal EXCEPT !.state = state]
  PROVE  /\ journal' \in Journals /\ journal'.state = state
         /\ journal'.to = journal.to /\ journal'.previous = journal.previous
BY DEF Journals

\* Before its journal is staged an upgrade writes only under its own release,
\* and one that ends there leaves that as it was.
LEMMA EarlySteps ==
  ASSUME UpgradeInv, NEW s \in {"download", "unpack", "snapshot", "stage", "fail"}, Goto(s),
         task.step \in {"clear", "download", "unpack", "snapshot", "stage"},
         UNCHANGED <<proc, running, current, journal, strayed>>,
         NEW r \in {"absent", "partial", "whole"},
         releases' = [releases EXCEPT ![task.to] = r],
         s \in {"snapshot", "stage"} => r = "whole"
  PROVE  UpgradeInv'
<1>. USE VersionsAreNumbers DEF UpgradeInv, UpgradeType
<1>1. task # NoTask
  BY DEF NoTask
<1>2. proc = "serving" /\ task.to \in Version /\ task.to > running
  BY <1>1 DEF TaskInv
<1>3. s \in Steps /\ s # "none"
  BY DEF Steps
<1>4. task' \in Tasks /\ task'.step = s /\ task'.to = task.to
  BY <1>3, GotoType
<1>5. /\ releases' \in [Version -> {"absent", "partial", "whole"}] /\ releases'[task.to] = r
      /\ \A v \in Version : v # task.to => releases'[v] = releases[v]
  BY <1>2
<1>6. releases'[running] = releases[running]
  BY <1>2, <1>5
<1>7. UpgradeType'
  BY <1>4, <1>5
<1>8. RunInv'
  BY <1>6 DEF RunInv
<1>9. TaskInv'
  BY <1>2, <1>3, <1>4, <1>5 DEF TaskInv, NoTask
<1>10. ASSUME LinkInv PROVE LinkInv'
  <2>1. current = running
    BY <1>2, <1>10 DEF LinkInv, Ahead
  <2>2. journal.state \in {"swapped", "confirmed"} => journal.previous # task.to
    BY <1>2, <1>10, <2>1 DEF LinkInv, Journals
  <2>3. journal.state \in {"swapped", "confirmed"} =>
          releases'[journal.previous] = releases[journal.previous]
    BY <1>5, <1>10, <2>2 DEF LinkInv
  <2>. QED  BY <1>4, <1>6, <1>10, <2>1, <2>3 DEF LinkInv, Ahead
<1>. QED  BY <1>7, <1>8, <1>9, <1>10

\* From the journal on the releases stay as they are.
LEMMA LateSteps ==
  ASSUME UpgradeInv, TaskInv', task' \in Tasks, journal' \in Journals, current' \in Version,
         proc = "serving", strayed' \in BOOLEAN, UNCHANGED <<proc, running, releases>>,
         journal'.state = "swapped" => journal'.previous \in Version,
         journal'.state # "confirmed",
         ~strayed' => LinkInv'
  PROVE  UpgradeInv'
BY DEF UpgradeInv, UpgradeType, RunInv

LEMMA TaskSteps ==
  ASSUME UpgradeInv, TaskStep PROVE UpgradeInv'
<1>. USE VersionsAreNumbers
<1>. USE DEF UpgradeInv, UpgradeType, At
<1>s. \A s \in {"clear", "download", "unpack", "snapshot", "stage", "swap", "record", "exec",
               "revert", "unexec", "fail"} : s \in Steps /\ s # "none"
  BY DEF Steps
<1>t. task.step # "none" => task # NoTask
  BY DEF NoTask
<1>1. CASE ClearStale
  <2>1. task.step = "clear" /\ task.to \in Version /\ releases[task.to] \in {"absent", "partial", "whole"}
        /\ releases = [releases EXCEPT ![task.to] = releases[task.to]]
    BY <1>1, <1>t DEF ClearStale, TaskInv
  <2>2. UNCHANGED <<proc, running, current, journal, strayed>>
    BY <1>1 DEF ClearStale, taskKeeps
  <2>3. CASE releases' = [releases EXCEPT ![task.to] = "absent"] /\ Goto("download")
    BY <2>1, <2>2, <2>3, EarlySteps
  <2>4. CASE releases' \in {releases, [releases EXCEPT ![task.to] = "partial"]} /\ Goto("fail")
    <3>1. PICK r \in {"absent", "partial", "whole"} : releases' = [releases EXCEPT ![task.to] = r]
      BY <2>1, <2>4
    <3>. QED  BY <2>1, <2>2, <2>4, <3>1, EarlySteps
  <2>. QED  BY <1>1, <2>3, <2>4 DEF ClearStale
<1>2. CASE Download \/ Snapshot
  <2>1. task.step \in {"download", "snapshot"} /\ task.to \in Version
        /\ releases[task.to] \in {"absent", "partial", "whole"}
        /\ releases' = [releases EXCEPT ![task.to] = releases[task.to]]
        /\ UNCHANGED <<proc, running, current, journal, strayed>>
    BY <1>2, <1>t DEF Download, Snapshot, TaskInv, taskKeeps
  <2>2. PICK s \in {"unpack", "stage", "fail"} : Goto(s) /\ (s = "stage" => releases[task.to] = "whole")
    BY <1>2 DEF Download, Snapshot, TaskInv
  <2>. QED  BY <2>1, <2>2, EarlySteps
<1>3. CASE Unpack
  <2>1. task.step = "unpack" /\ UNCHANGED <<proc, running, current, journal, strayed>>
    BY <1>3 DEF Unpack, taskKeeps
  <2>2. PICK s \in {"snapshot", "fail"}, r \in {"whole", "partial"} :
           /\ Goto(s) /\ releases' = [releases EXCEPT ![task.to] = r]
           /\ s = "snapshot" => r = "whole"
    BY <1>3 DEF Unpack
  <2>. QED  BY <2>1, <2>2, EarlySteps
<1>5. CASE Stage
  <2>1. /\ task.step = "stage" /\ proc = "serving" /\ UNCHANGED <<proc, running, current, releases>>
        /\ task.to \in Version /\ task.to > running /\ releases[task.to] = "whole"
    BY <1>5, <1>t DEF Stage, taskKeeps, TaskInv
  <2>2. \/ journal' = StageEntry /\ Goto("swap") /\ strayed' = (current # running)
        \/ journal' \in {journal, StageEntry} /\ Goto("fail") /\ UNCHANGED strayed
    BY <1>5 DEF Stage, Puts
  <2>3. /\ StageEntry.state = "staged" /\ StageEntry.to = task.to /\ StageEntry.previous = current
        /\ StageEntry \in Journals
    BY <2>1 DEF StageEntry, Entry, States, Journals
  <2>4. PICK s \in {"swap", "fail"} :
          /\ Goto(s)
          /\ s = "swap" => journal' = StageEntry /\ strayed' = (current # running)
          /\ s = "fail" => journal' \in {journal, StageEntry} /\ UNCHANGED strayed
    BY <2>2
  <2>5. task' \in Tasks /\ task'.step = s /\ task'.to = task.to
    BY <1>s, <2>4, GotoType
  <2>6. TaskInv'
    BY <1>s, <2>1, <2>3, <2>4, <2>5 DEF TaskInv, NoTask
  <2>7. CASE journal' = StageEntry
    <3>1. ASSUME ~strayed' PROVE current = running /\ LinkInv'
      <4>1. current = running
        BY <2>1, <2>4, <3>1 DEF LinkInv, Ahead
      <4>. QED  BY <2>1, <2>3, <2>4, <2>5, <2>7, <4>1 DEF LinkInv, Ahead, RunInv
    <3>. QED  BY <2>1, <2>3, <2>4, <2>5, <2>6, <2>7, <3>1 DEF RunInv
  <2>8. CASE journal' = journal /\ s = "fail" /\ UNCHANGED strayed
    <3>1. ASSUME LinkInv PROVE LinkInv'
      BY <2>1, <2>5, <2>8, <3>1 DEF LinkInv, Ahead
    <3>. QED  BY <2>1, <2>5, <2>6, <2>8, <3>1 DEF RunInv
  <2>. QED  BY <2>4, <2>7, <2>8
<1>6. CASE Swap
  <2>1. /\ task.step = "swap" /\ proc = "serving" /\ UNCHANGED <<proc, running, releases, journal>>
        /\ task.to \in Version /\ task.to > running /\ releases[task.to] = "whole"
        /\ journal.state = "staged" /\ journal.to = task.to
    BY <1>6, <1>t DEF Swap, taskKeeps, TaskInv
  <2>2. PICK s \in {"record", "fail"} :
          /\ Goto(s) /\ current' \in {current, task.to} /\ (strayed => strayed') /\ strayed' \in BOOLEAN
          /\ s = "record" => current' = task.to
          /\ s = "fail" /\ ~strayed' => current' # task.to
    BY <1>6 DEF Swap, Puts
  <2>3. task' \in Tasks /\ task'.step = s /\ task'.to = task.to
    BY <1>s, <2>2, GotoType
  <2>4. TaskInv'
    BY <1>s, <2>1, <2>2, <2>3 DEF TaskInv, NoTask
  <2>5. ASSUME LinkInv, ~strayed' PROVE LinkInv'
    BY <2>1, <2>2, <2>3, <2>5 DEF LinkInv, Ahead
  <2>. QED  BY <2>1, <2>2, <2>3, <2>4, <2>5, LateSteps
<1>7. CASE RecordSwap
  <2>1. /\ task.step = "record" /\ proc = "serving" /\ UNCHANGED <<proc, running, releases, current>>
        /\ task.to \in Version /\ task.to > running /\ releases[task.to] = "whole"
        /\ journal.state = "staged" /\ journal.to = task.to /\ journal.previous \in Version
    BY <1>7, <1>t DEF RecordSwap, taskKeeps, TaskInv
  <2>2. PICK s \in {"exec", "fail"} :
          /\ Goto(s) /\ journal' \in {journal, [journal EXCEPT !.state = "swapped"]}
          /\ s = "exec" => journal' = [journal EXCEPT !.state = "swapped"] /\ UNCHANGED strayed
          /\ s = "fail" => strayed'
          /\ strayed' \in BOOLEAN
    BY <1>7 DEF RecordSwap, Puts
  <2>3. task' \in Tasks /\ task'.step = s /\ task'.to = task.to
    BY <1>s, <2>2, GotoType
  <2>4. /\ journal' \in Journals /\ journal'.to = task.to /\ journal'.previous = journal.previous
        /\ journal'.state \in {"staged", "swapped"} /\ (s = "exec" => journal'.state = "swapped")
    BY <2>1, <2>2, JournalMoves DEF States
  <2>5. TaskInv'
    BY <1>s, <2>1, <2>3, <2>4 DEF TaskInv, NoTask
  <2>6. ASSUME LinkInv, s = "exec" PROVE LinkInv'
    <3>1. current = task.to /\ journal.previous = running
      BY <2>1, <2>6 DEF LinkInv, Ahead
    <3>2. releases[running] = "whole" /\ running \notin Broken \cup NotExecutable
      BY <2>1 DEF RunInv
    <3>. QED  BY <2>1, <2>3, <2>4, <2>6, <3>1, <3>2 DEF LinkInv, Ahead
  <2>. QED  BY <2>1, <2>2, <2>3, <2>4, <2>5, <2>6, LateSteps
<1>8. CASE Exec
  <2>1. /\ task.step = "exec" /\ proc = "serving" /\ UNCHANGED <<releases, current, journal, strayed>>
        /\ task.to \in Version /\ task.to > running /\ releases[task.to] = "whole"
        /\ journal.state = "swapped" /\ journal.to = task.to /\ journal.previous \in Version
    BY <1>8, <1>t DEF Exec, diskVars, TaskInv
  <2>2. CASE Runnable(current) /\ proc' = "opening" /\ running' = current /\ task' = NoTask
    <3>1. UpgradeType' /\ RunInv'
      BY <2>1, <2>2 DEF Processes, Up, NoTask, Steps, Tasks, RunInv, Runnable
    <3>2. TaskInv' /\ (LinkInv => LinkInv')
      BY <2>1, <2>2 DEF LinkInv, TaskInv, Ahead, NoTask
    <3>. QED  BY <2>1, <3>1, <3>2
  <2>3. CASE Goto("revert") /\ UNCHANGED <<proc, running>>
    <3>1. task' \in Tasks /\ task'.step = "revert" /\ task'.to = task.to
      BY <1>s, <2>3, GotoType
    <3>2. TaskInv' /\ (LinkInv => LinkInv')
      BY <2>1, <2>3, <3>1 DEF LinkInv, TaskInv, NoTask, Ahead
    <3>. QED  BY <2>1, <2>3, <3>1, <3>2, LateSteps
  <2>. QED  BY <1>8, <2>2, <2>3 DEF Exec
<1>9. CASE Revert
  <2>1. /\ task.step = "revert" /\ proc = "serving" /\ UNCHANGED <<proc, running, releases, journal>>
        /\ task.to \in Version /\ task.to > running /\ releases[task.to] = "whole"
        /\ journal.state = "swapped" /\ journal.to = task.to /\ journal.previous \in Version
    BY <1>9, <1>t DEF Revert, taskKeeps, TaskInv
  <2>2. PICK s \in {"unexec", "fail"} :
          /\ Goto(s) /\ current' \in {current, journal.previous}
          /\ (strayed => strayed') /\ strayed' \in BOOLEAN
          /\ s = "unexec" => current' = journal.previous
          /\ s = "fail" /\ ~strayed' => current' # task.to
    BY <1>9 DEF Revert, Puts
  <2>3. task' \in Tasks /\ task'.step = s /\ task'.to = task.to
    BY <1>s, <2>2, GotoType
  <2>4. TaskInv'
    BY <1>s, <2>1, <2>3 DEF TaskInv, NoTask
  <2>5. ASSUME LinkInv, ~strayed' PROVE LinkInv'
    <3>1. current' = running /\ journal.previous = running /\ releases[running] = "whole"
      BY <2>1, <2>2, <2>5 DEF LinkInv, Ahead, RunInv
    <3>. QED  BY <2>1, <2>2, <2>3, <2>5, <3>1 DEF LinkInv, Ahead
  <2>. QED  BY <2>1, <2>2, <2>3, <2>4, <2>5, LateSteps
<1>10. CASE ExecFailed
  <2>1. /\ task.step = "unexec" /\ proc = "serving"
        /\ UNCHANGED <<proc, running, releases, current, strayed>>
        /\ task.to \in Version /\ task.to > running
        /\ journal.state = "swapped" /\ journal.to = task.to /\ journal.previous \in Version
    BY <1>10, <1>t DEF ExecFailed, taskKeeps, TaskInv
  <2>2. /\ journal' \in {journal, [journal EXCEPT !.state = "exec_failed"]}
        /\ task' = NoTask \/ Goto("fail")
    BY <1>10 DEF ExecFailed, Puts
  <2>3. /\ journal' \in Journals /\ journal'.to = task.to /\ journal'.previous = journal.previous
        /\ journal'.state \in {"swapped", "exec_failed"}
    BY <2>1, <2>2, JournalMoves DEF States
  <2>4. /\ task' \in Tasks
        /\ \/ task' = NoTask /\ task'.step = "none"
           \/ task'.step = "fail" /\ task'.to = task.to
    <3>1. CASE task' = NoTask
      BY <3>1 DEF NoTask, Tasks, Steps
    <3>2. CASE Goto("fail")
      BY <1>s, <3>2, GotoType
    <3>. QED  BY <2>2, <3>1, <3>2
  <2>5. TaskInv'
    BY <2>1, <2>4 DEF TaskInv, NoTask
  <2>6. ASSUME LinkInv PROVE LinkInv'
    BY <2>1, <2>3, <2>4, <2>6 DEF LinkInv, Ahead
  <2>. QED  BY <2>1, <2>3, <2>4, <2>5, <2>6, LateSteps
<1>11. CASE TaskFails
  <2>1. /\ task.step = "fail" /\ proc = "serving"
        /\ UNCHANGED <<proc, running, releases, current, strayed>>
        /\ task.to \in Version /\ task.to > running /\ task' = NoTask
    BY <1>11, <1>t DEF TaskFails, taskKeeps, TaskInv
  <2>2. journal' \in {journal, Entry("failed", task.to, None)}
    BY <1>11 DEF TaskFails, Puts
  <2>3. task' \in Tasks /\ task'.step = "none"
    BY <2>1 DEF NoTask, Tasks, Steps
  <2>4. TaskInv'
    BY <2>1, <2>3 DEF TaskInv
  <2>5. CASE journal' = Entry("failed", task.to, None)
    <3>1. journal' \in Journals /\ journal'.state = "failed" /\ journal'.to = task.to
      BY <2>1, <2>5 DEF Entry, Journals, States
    <3>2. ASSUME LinkInv PROVE LinkInv'
      BY <2>1, <2>3, <3>1, <3>2 DEF LinkInv, Ahead
    <3>. QED  BY <2>1, <2>3, <2>4, <3>1, <3>2, LateSteps
  <2>6. CASE UNCHANGED journal
    <3>1. ASSUME LinkInv PROVE LinkInv'
      BY <2>1, <2>3, <2>6, <3>1 DEF LinkInv, Ahead
    <3>. QED  BY <2>1, <2>3, <2>4, <2>6, <3>1 DEF RunInv
  <2>. QED  BY <2>2, <2>5, <2>6
<1>. QED  BY <1>1, <1>2, <1>3, <1>5, <1>6, <1>7, <1>8, <1>9, <1>10, <1>11 DEF TaskStep

-----------------------------------------------------------------------------
(* The guard, and a process on its way up.                                 *)

LEMMA BootSteps ==
  ASSUME UpgradeInv, BootStep PROVE UpgradeInv'
<1>. USE VersionsAreNumbers
<1>. USE DEF UpgradeInv, UpgradeType
<1>p. /\ "down" \in Processes /\ "counted" \in Processes /\ "reverted" \in Processes
      /\ "resetting" \in Processes /\ "opening" \in Processes /\ "reconciling" \in Processes
      /\ "tidying" \in Processes /\ "serving" \in Processes
  BY DEF Processes, Up, Down
<1>n. ASSUME proc # "serving" PROVE task = NoTask /\ task.step = "none"
  BY <1>n DEF TaskInv, NoTask
\* What changes neither the disk nor what runs only has to keep what is said of `proc`.
<1>q. ASSUME UNCHANGED <<task, running, releases, current, journal, strayed>>, proc # "serving",
             NEW p \in Processes, proc' = p, p \notin {"reverted", "tidying"},
             p \in {"opening", "reconciling", "serving"} => current = running,
             p \in {"reconciling", "serving"} => running \notin Broken
      PROVE  UpgradeInv'
  <2>1. TaskInv' /\ RunInv' /\ UpgradeType'
    BY <1>n, <1>q DEF TaskInv, RunInv
  <2>2. LinkInv => LinkInv'
    BY <1>n, <1>q DEF LinkInv, Ahead
  <2>. QED  BY <1>q, <2>1, <2>2
<1>1. CASE GuardCannotRead \/ GuardStandsAside \/ GuardCounts \/ GuardMiscounts \/ GuardResets
  BY <1>1, <1>p, <1>q
     DEF GuardCannotRead, GuardStandsAside, GuardCounts, GuardMiscounts, GuardResets, guardKeeps
<1>2. CASE GuardReverts
  <2>1. /\ proc = "down" /\ journal.state = "swapped" /\ current' \in {current, journal.previous}
        /\ proc' \in {"reverted", "counted"}
        /\ proc' = "reverted" => current' = journal.previous
        /\ UNCHANGED <<running, task, releases, journal, strayed>>
    BY <1>2 DEF GuardReverts, guardKeeps, Puts
  <2>2. RunInv' /\ UpgradeType'
    BY <2>1, <1>p DEF RunInv
  <2>3. TaskInv'
    BY <2>1, <1>n DEF TaskInv
  <2>4. ASSUME LinkInv PROVE LinkInv'
    BY <2>1, <2>4, <1>n DEF LinkInv
  <2>. QED  BY <2>1, <2>2, <2>3, <2>4
<1>3. CASE GuardRecords
  <2>1. /\ proc = "reverted" /\ proc' = "resetting" /\ UNCHANGED <<running, task, releases, current, strayed>>
        /\ journal.state = "swapped" /\ current = journal.previous
    BY <1>3 DEF GuardRecords, guardKeeps, RunInv
  <2>2. journal' \in {journal, [journal EXCEPT !.state = "rolled_back"]}
    BY <1>3 DEF GuardRecords, Puts
  <2>3. /\ journal' \in Journals /\ journal'.state \in {"swapped", "rolled_back"}
        /\ journal'.to = journal.to /\ journal'.previous = journal.previous
    BY <2>1, <2>2, JournalMoves DEF States
  <2>4. RunInv' /\ UpgradeType'
    BY <2>1, <2>3, <1>p DEF RunInv
  <2>5. TaskInv'
    BY <2>1, <1>n DEF TaskInv
  <2>6. ASSUME LinkInv PROVE LinkInv'
    BY <2>1, <2>3, <2>6, <1>n DEF LinkInv
  <2>. QED  BY <2>1, <2>4, <2>5, <2>6
<1>4. CASE ExecStart
  <2>1. proc = "counted" /\ UNCHANGED <<task, releases, current, journal, strayed>>
    BY <1>4 DEF ExecStart, diskVars
  <2>2. CASE Runnable(current) /\ proc' = "opening" /\ running' = current
    <3>1. RunInv' /\ UpgradeType'
      BY <2>1, <2>2, <1>p DEF RunInv, Runnable
    <3>2. TaskInv'
      BY <2>1, <1>n DEF TaskInv
    <3>3. ASSUME LinkInv PROVE LinkInv'
      BY <2>1, <2>2, <3>3, <1>n DEF LinkInv
    <3>. QED  BY <2>1, <3>1, <3>2, <3>3
  <2>3. CASE proc' = "down" /\ UNCHANGED running
    BY <2>1, <2>3, <1>p, <1>q
  <2>. QED  BY <1>4, <2>2, <2>3 DEF ExecStart
<1>5. CASE OpenStore
  <2>1. /\ proc = "opening" /\ running \notin Broken /\ proc' \in {"reconciling", "down"}
        /\ UNCHANGED <<running, task, releases, current, journal, strayed>>
    BY <1>5 DEF OpenStore, bootKeeps
  <2>2. current = running
    BY <2>1 DEF RunInv
  <2>. QED  BY <2>1, <2>2, <1>p, <1>q
<1>6. CASE BrokenBoot
  BY <1>6, <1>p, <1>q DEF BrokenBoot, bootKeeps
<1>7. CASE Reconcile
  <2>1. /\ proc = "reconciling" /\ UNCHANGED <<running, task, releases, current, strayed>>
        /\ current = running /\ running \notin Broken
    BY <1>7 DEF Reconcile, bootKeeps, RunInv
  <2>2. \/ UNCHANGED journal /\ proc' = "serving"
        \/ /\ journal.state = "swapped" /\ journal.to = running
           /\ journal' = [journal EXCEPT !.state = "confirmed"] /\ proc' \in {"tidying", "serving"}
        \/ /\ journal.state = "swapped" /\ journal.to # running
           /\ journal' = [journal EXCEPT !.state = "failed"] /\ proc' = "serving"
    BY <1>7 DEF Reconcile, Puts
  <2>3. CASE UNCHANGED journal /\ proc' = "serving"
    BY <2>1, <2>3, <1>p, <1>q
  <2>4. ASSUME NEW state \in {"confirmed", "failed"}, journal.state = "swapped",
               state = "confirmed" <=> journal.to = running,
               journal' = [journal EXCEPT !.state = state], proc' \in {"tidying", "serving"},
               proc' = "tidying" => state = "confirmed"
        PROVE  UpgradeInv'
    <3>1. /\ journal' \in Journals /\ journal'.state = state
          /\ journal'.to = journal.to /\ journal'.previous = journal.previous
      BY <2>4, JournalMoves DEF States
    <3>2. RunInv' /\ UpgradeType'
      BY <2>1, <2>4, <3>1, <1>p DEF RunInv
    <3>3. TaskInv'
      BY <2>1, <1>n DEF TaskInv
    <3>4. ASSUME LinkInv PROVE LinkInv'
      BY <2>1, <2>4, <3>1, <3>4, <1>n DEF LinkInv, Ahead
    <3>. QED  BY <2>1, <3>2, <3>3, <3>4
  <2>. QED  BY <2>2, <2>3, <2>4
<1>8. CASE Tidy
  <2>1. /\ proc = "tidying" /\ proc' = "serving"
        /\ UNCHANGED <<running, task, current, journal, strayed>>
    BY <1>8 DEF Tidy, bootKeeps
  <2>2. /\ releases' \in [Version -> {"absent", "partial", "whole"}]
        /\ \A v \in Version : v \notin Doomed => releases'[v] = releases[v]
    BY <1>8 DEF Tidy
  <2>3. journal.previous \notin Doomed /\ journal.to \notin Doomed /\ current \notin Doomed
    BY DEF Doomed
  <2>4. /\ journal.state = "confirmed" /\ journal.to = running /\ current = running
        /\ releases'[running] = releases[running]
    BY <2>1, <2>2, <2>3 DEF RunInv
  <2>5. RunInv' /\ UpgradeType'
    BY <2>1, <2>2, <2>4, <1>p DEF RunInv
  <2>6. TaskInv'
    BY <2>1, <1>n DEF TaskInv
  <2>7. ASSUME LinkInv PROVE LinkInv'
    <3>1. releases'[journal.previous] = releases[journal.previous]
      BY <2>2, <2>3, <2>4, <2>7 DEF LinkInv
    <3>. QED  BY <2>1, <2>4, <2>7, <3>1, <1>n DEF LinkInv, Ahead
  <2>. QED  BY <2>1, <2>5, <2>6, <2>7
<1>. QED  BY <1>1, <1>2, <1>3, <1>4, <1>5, <1>6, <1>7, <1>8 DEF BootStep

LEMMA OtherSteps ==
  ASSUME UpgradeInv, NEW v \in Version, SetSelfUpgrade \/ CheckStep \/ Start(v) \/ Crash
  PROVE  UpgradeInv'
<1>. USE VersionsAreNumbers
<1>. USE DEF UpgradeInv, UpgradeType
<1>1. CASE SetSelfUpgrade \/ CheckStep
  <2>1. UNCHANGED <<proc, running, task, releases, current, journal, strayed>>
    BY <1>1 DEF SetSelfUpgrade, CheckStep, diskVars
  <2>. QED  BY <2>1 DEF LinkInv, RunInv, TaskInv, Ahead
<1>2. CASE Start(v)
  <2>1. /\ UNCHANGED <<proc, running, releases, current, journal, strayed>> /\ proc = "serving"
        /\ v > running /\ task = NoTask /\ task' = [step |-> "clear", to |-> v]
    BY <1>2 DEF Start, MayStart, diskVars
  <2>. QED  BY <2>1 DEF LinkInv, RunInv, TaskInv, Ahead, NoTask, Steps, Tasks
<1>3. CASE Crash
  <2>1. /\ UNCHANGED <<running, releases, current, journal, strayed>>
        /\ proc' = "down" /\ task' = NoTask
    BY <1>3 DEF Crash, diskVars
  <2>. QED  BY <2>1 DEF LinkInv, RunInv, TaskInv, NoTask, Steps, Tasks, Processes, Up, Down
<1>. QED  BY <1>1, <1>2, <1>3

LEMMA NextUpgrade == UpgradeInv /\ [Next]_vars => UpgradeInv'
<1>1. ASSUME UpgradeInv, UNCHANGED vars PROVE UpgradeInv'
  BY <1>1 DEF vars, diskVars, UpgradeInv, UpgradeType, LinkInv, RunInv, TaskInv, Ahead
<1>2. Next => TaskStep \/ BootStep \/ \E v \in Version : SetSelfUpgrade \/ CheckStep \/ Start(v) \/ Crash
  BY FirstVersion DEF Next
<1>. QED  BY <1>1, <1>2, TaskSteps, BootSteps, OtherSteps

LEMMA UpgradeInvariant == Spec => []UpgradeInv
BY InitUpgrade, NextUpgrade, PTL DEF Spec

-----------------------------------------------------------------------------
(* What follows.                                                           *)

\* Whatever was retried, pruned, reverted or interrupted before and whichever
\* writes failed, the release that ran last is whole; and until an upgrade gives
\* up with the link on its release, the link names a whole release and the
\* journal a way back to another one, known to run (run and prune_releases of
\* server/src/self_upgrade.rs, swap_current of bootguard/src/lib.rs).
THEOREM ThereIsAWayBack == Spec => []WayBack
<1>1. UpgradeInv => WayBack
  BY VersionsAreNumbers DEF UpgradeInv, UpgradeType, Journals, RunInv, LinkInv, WayBack
<1>. QED  BY <1>1, UpgradeInvariant, PTL

\* The upgrade page never calls a version confirmed that does not run; and until
\* an upgrade gives up with the link on its release, never one rolled back, not
\* started or failed that runs or is linked (status of server/src/self_upgrade.rs).
THEOREM PageIsRight == Spec => []PageTellsTheTruth
<1>1. UpgradeInv => PageTellsTheTruth
  <2>. SUFFICES ASSUME UpgradeInv, proc = "serving"
                PROVE  /\ StatusState = "confirmed" => journal.to = running
                       /\ StatusState \in {"rolled_back", "exec_failed", "failed"} /\ ~strayed =>
                            journal.to # running /\ journal.to # current
    BY DEF PageTellsTheTruth
  <2>1. StatusState \in {"confirmed", "rolled_back", "exec_failed", "failed"} =>
          task = NoTask /\ StatusState = journal.state
    BY DEF StatusState
  <2>2. task = NoTask /\ ~strayed => current = running
    BY DEF UpgradeInv, LinkInv, Ahead, NoTask
  <2>3. journal.state \in {"rolled_back", "exec_failed", "failed"} /\ ~strayed => journal.to # current
    BY VersionsAreNumbers DEF UpgradeInv, UpgradeType, LinkInv, Journals, None
  <2>. QED  BY <2>1, <2>2, <2>3 DEF UpgradeInv, RunInv
<1>. QED  BY <1>1, UpgradeInvariant, PTL

-----------------------------------------------------------------------------
(* Going back needs no more than where the link is against the process.    *)

LEMMA ForwardTask ==
  ASSUME UpgradeInv, ForwardInv, TaskStep PROVE ForwardInv'
<1>. USE VersionsAreNumbers
<1>. USE DEF ForwardInv, UpgradeInv, UpgradeType, At
<1>s. \A s \in {"clear", "download", "unpack", "snapshot", "stage", "swap", "record", "exec",
               "revert", "unexec", "fail"} : s \in Steps
  BY DEF Steps
<1>t. ASSUME task.step # "none" PROVE task # NoTask
  BY <1>t DEF NoTask
<1>u. task.step # "none" => proc = "serving" /\ task.to \in Version /\ task.to > running
                              /\ current >= running
  BY <1>t DEF TaskInv, Up
<1>g. \A s \in Steps : Goto(s) => task'.step = s
  BY GotoType
<1>1. ASSUME UNCHANGED <<proc, running>>, proc = "serving",
             current' \in Version, current' >= running,
             task'.step \in {"swap", "record", "exec", "revert", "unexec"} =>
               journal'.previous >= running
      PROVE  ForwardInv'
  BY <1>1
<1>2. CASE ClearStale \/ Download \/ Unpack \/ Snapshot
  <2>1. /\ UNCHANGED <<proc, running, current>> /\ task.step # "none"
        /\ \E s \in {"download", "unpack", "snapshot", "stage", "fail"} : Goto(s)
    BY <1>2 DEF ClearStale, Download, Unpack, Snapshot, taskKeeps
  <2>. QED  BY <2>1, <1>1, <1>u, <1>s, <1>g
<1>3. CASE Stage
  <2>1. /\ UNCHANGED <<proc, running, current>> /\ task.step # "none"
        /\ (journal' = StageEntry /\ Goto("swap")) \/ Goto("fail")
    BY <1>3 DEF Stage, taskKeeps, Puts
  <2>2. StageEntry.previous = current
    BY DEF StageEntry, Entry
  <2>. QED  BY <2>1, <2>2, <1>1, <1>u, <1>s, <1>g
<1>4. CASE Swap
  <2>1. /\ UNCHANGED <<proc, running, journal>> /\ task.step = "swap"
        /\ current' \in {current, task.to}
    BY <1>4 DEF Swap, taskKeeps, Puts
  <2>. QED  BY <2>1, <1>1, <1>u
<1>5. CASE RecordSwap \/ ExecFailed
  <2>1. /\ UNCHANGED <<proc, running, current>> /\ task.step \in {"record", "unexec"}
        /\ \/ journal' = journal
           \/ \E s \in {"swapped", "exec_failed"} : journal' = [journal EXCEPT !.state = s]
    BY <1>5 DEF RecordSwap, ExecFailed, taskKeeps, Puts
  <2>2. journal'.previous = journal.previous
    BY <2>1, JournalMoves DEF States
  <2>. QED  BY <2>1, <2>2, <1>1, <1>u
<1>6. CASE Exec
  <2>1. CASE proc' = "opening" /\ running' = current /\ task' = NoTask
    BY <1>6, <2>1 DEF Exec, diskVars, NoTask, Up
  <2>2. CASE UNCHANGED <<proc, running>>
    BY <1>6, <2>2, <1>1, <1>u DEF Exec, diskVars
  <2>. QED  BY <1>6, <2>1, <2>2 DEF Exec
<1>7. CASE Revert
  <2>1. /\ UNCHANGED <<proc, running, journal>> /\ task.step = "revert"
        /\ current' \in {current, journal.previous}
    BY <1>7 DEF Revert, taskKeeps, Puts
  <2>2. journal.previous \in Version
    BY <2>1 DEF TaskInv
  <2>. QED  BY <2>1, <2>2, <1>1, <1>u
<1>8. CASE TaskFails
  BY <1>8, <1>1, <1>u DEF TaskFails, taskKeeps, NoTask
<1>. QED  BY <1>2, <1>3, <1>4, <1>5, <1>6, <1>7, <1>8 DEF TaskStep

LEMMA ForwardBoot ==
  ASSUME UpgradeInv, ForwardInv, BootStep PROVE ForwardInv'
<1>. USE VersionsAreNumbers
<1>. USE DEF ForwardInv, UpgradeInv, UpgradeType, Up
<1>t. task.step = "none" \/ proc = "serving"
  BY DEF TaskInv, NoTask
<1>1. CASE GuardCannotRead \/ GuardStandsAside \/ GuardCounts \/ GuardMiscounts \/ GuardResets
  BY <1>1, <1>t DEF GuardCannotRead, GuardStandsAside, GuardCounts, GuardMiscounts, GuardResets, guardKeeps
<1>2. CASE GuardReverts
  <2>1. /\ proc = "down" /\ journal.state = "swapped" /\ current' \in {current, journal.previous}
        /\ proc' \in {"reverted", "counted"} /\ UNCHANGED <<running, task, journal>>
    BY <1>2 DEF GuardReverts, guardKeeps, Puts
  <2>. QED  BY <2>1, <1>t
<1>3. CASE GuardRecords
  <2>1. /\ proc = "reverted" /\ proc' = "resetting" /\ UNCHANGED <<running, task, current>>
        /\ journal' \in {journal, [journal EXCEPT !.state = "rolled_back"]}
        /\ journal.state = "swapped" /\ current = journal.previous
    BY <1>3 DEF GuardRecords, guardKeeps, Puts, RunInv
  <2>2. journal'.state \in {"swapped", "rolled_back"} /\ journal'.previous = journal.previous
    BY <2>1, JournalMoves DEF States
  <2>. QED  BY <2>1, <2>2, <1>t
<1>4. CASE ExecStart
  BY <1>4, <1>t DEF ExecStart, diskVars
<1>5. CASE OpenStore \/ BrokenBoot
  BY <1>5, <1>t DEF OpenStore, BrokenBoot, bootKeeps
<1>6. CASE Reconcile \/ Tidy
  BY <1>6, <1>t DEF Reconcile, Tidy, bootKeeps
<1>. QED  BY <1>1, <1>2, <1>3, <1>4, <1>5, <1>6 DEF BootStep

LEMMA ForwardNext == UpgradeInv /\ ForwardInv /\ [Next]_vars => ForwardInv'
<1>1. ASSUME ForwardInv, UNCHANGED vars PROVE ForwardInv'
  BY <1>1 DEF vars, diskVars, ForwardInv
<1>2. ASSUME ForwardInv, SetSelfUpgrade \/ CheckStep PROVE ForwardInv'
  BY <1>2 DEF SetSelfUpgrade, CheckStep, diskVars, ForwardInv
<1>3. ASSUME ForwardInv, NEW v \in Version, Start(v) PROVE ForwardInv'
  BY <1>3 DEF Start, diskVars, ForwardInv
<1>4. ASSUME ForwardInv, Crash PROVE ForwardInv'
  BY <1>4 DEF Crash, diskVars, ForwardInv, NoTask, Up
<1>. QED  BY <1>1, <1>2, <1>3, <1>4, ForwardTask, ForwardBoot DEF Next

\* No manifest, retry, crash or prune makes an instance go back, and no failing
\* write: a process gives way to an older version only where the journal of an
\* upgrade names it as the way back (start, run and reconcile_in of
\* server/src/self_upgrade.rs, guard of bootguard/src/main.rs).
THEOREM NeverBackOnItsOwn == Spec => GoesBackOnlyByTheJournal
<1>1. ASSUME UpgradeInv, ForwardInv, Next, running' < running
      PROVE  journal.state \in {"swapped", "rolled_back"} /\ running' = journal.previous
  <2>1. running \in Version /\ current \in Version
    BY <1>1 DEF UpgradeInv, UpgradeType
  <2>2. running' # running
    BY <1>1, <2>1, VersionsAreNumbers
  <2>3. running' = current
    <3>1. CASE SetSelfUpgrade \/ CheckStep \/ (\E v \in Version : Start(v)) \/ Crash
      BY <3>1, <2>2 DEF SetSelfUpgrade, CheckStep, Start, Crash
    <3>2. CASE TaskStep
      BY <3>2, <2>2 DEF TaskStep, ClearStale, Download, Unpack, Snapshot, Stage, Swap, RecordSwap,
         Exec, Revert, ExecFailed, TaskFails, taskKeeps
    <3>3. CASE BootStep
      BY <3>3, <2>2 DEF BootStep, GuardCannotRead, GuardStandsAside, GuardCounts, GuardMiscounts, GuardReverts,
         GuardRecords, GuardResets, guardKeeps, ExecStart, OpenStore, BrokenBoot, Reconcile, Tidy,
         bootKeeps
    <3>. QED  BY <1>1, <3>1, <3>2, <3>3 DEF Next
  <2>. QED  BY <1>1, <2>1, <2>3, VersionsAreNumbers DEF ForwardInv
<1>2. UpgradeInv /\ ForwardInv /\ [Next]_vars =>
        [running' < running => /\ journal.state \in {"swapped", "rolled_back"}
                               /\ running' = journal.previous]_vars
  BY <1>1
<1>3. Init => ForwardInv
  BY DEF Init, ForwardInv, NoTask
<1>. QED  BY <1>2, <1>3, UpgradeInvariant, ForwardNext, PTL DEF Spec, GoesBackOnlyByTheJournal
=============================================================================

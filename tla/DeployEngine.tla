---------------------------- MODULE DeployEngine ----------------------------
(***************************************************************************)
(* The deploy engine, for one service on one target: start_deploy and its  *)
(* background task, automatic and manual rollback, cancellation, the       *)
(* retention sweep, and the restart of the processes that host the tasks.  *)
(*                                                                         *)
(* Nothing in the code serializes the deployments of a service, so any     *)
(* number of tasks interleave here; each step of a task is one remote      *)
(* command or one database write together with the reads and returns that  *)
(* no other task can tell apart from it.  Database writes succeed.         *)
(*                                                                         *)
(* A deployment that ships something produces exactly one release, fresh   *)
(* for it, so the release of deployment d is named d.                      *)
(***************************************************************************)
EXTENDS ReleaseRetention

CONSTANTS
  Deployment,   \* the deployments that may be asked for
  Seeded,       \* releases already deployed one after the other, oldest first
  NoRelease,    \* the empty string of a release id, link or process
  Keep,         \* the service's keep_releases
  HasMvT,       \* whether the target's mv knows -T
  OneProcess,   \* all-in-one: gRPC server and dashboard die together
  Overlap,      \* whether people start a deployment while another one runs
  Triggers,     \* who asks: a subset of {"api", "webhook", "rollback"}
  MaxCrashes    \* bound on process deaths

SeededRelease == {Seeded[i] : i \in DOMAIN Seeded}
Release == Deployment \cup SeededRelease
Process == {"server", "web"}

ASSUME ConstantsAssumption ==
  /\ Seeded \in Seq(SeededRelease)
  /\ \A i, j \in DOMAIN Seeded : Seeded[i] = Seeded[j] => i = j
  /\ Deployment \cap SeededRelease = {}
  /\ NoRelease \notin Release
  /\ Keep \in Nat
  /\ {HasMvT, OneProcess, Overlap} \subseteq BOOLEAN
  /\ Triggers \subseteq {"api", "webhook", "rollback"}
  /\ MaxCrashes \in Nat

VARIABLES
  row,        \* the deployments table
  current,    \* services.current_release_id
  rank,       \* releases table: creation order of each row, 0 when absent
  recorded,   \* number of rows in it
  pruned,     \* its rows with pruned = 1
  installed,  \* release directories complete and in place on the target
  link,       \* what <release_root>/current points at
  temp,       \* what <release_root>/current.new points at: one name, shared
  running,    \* the release whose binary the unit last started, if it did
  task,       \* the engine task of each deployment
  proc,       \* the processes that host tasks
  orphans,    \* rows the booting server has listed and not yet failed
  crashes,
  vetted      \* releases observed healthy while they were the running one

db     == <<current, rank, recorded, pruned>>
target == <<installed, link, temp, running, vetted>>
procs  == <<proc, orphans, crashes>>
vars   == <<row, db, target, task, procs>>

-----------------------------------------------------------------------------
Active   == {"queued", "building", "uploading", "activating", "health_checking"}
Terminal == {"succeeded", "failed", "cancelled", "rolled_back"}

\* The verdict a task still has to write, by its pc.
Verdict == [endSucceeded  |-> "succeeded", endFailed     |-> "failed",
            endCancelled  |-> "cancelled", endRolledBack |-> "rolled_back"]

PC == {"idle", "resolve", "begin", "obtain", "upload", "record", "configure",
       "stage", "move", "restage", "moveInto", "restart", "gate", "health",
       "commit", "list", "remove", "mark", "failed", "find"} \cup DOMAIN Verdict

HostOf(trigger) == IF trigger = "webhook" THEN "web" ELSE "server"

Listed == {r \in Release : rank[r] # 0 /\ r \notin pruned}

NoRow  == [status |-> "none", cancel |-> FALSE, finished |-> FALSE,
           previous |-> NoRelease, release |-> NoRelease]
NoTask == [pc |-> "idle", trigger |-> "api", mode |-> "deploy",
           goal |-> NoRelease, skip |-> FALSE, auto |-> FALSE, doomed |-> {}]

Row  == [status   : {"none"} \cup Active \cup Terminal,
         cancel   : BOOLEAN,   \* cancel_requested
         finished : BOOLEAN,   \* finished_at IS NOT NULL
         previous : Release \cup {NoRelease},
         release  : Release \cup {NoRelease}]

Task == [pc      : PC,
         trigger : {"api", "webhook", "rollback"},
         mode    : {"deploy", "revert"},  \* which error and end apply
         goal    : Release \cup {NoRelease},
         skip    : BOOLEAN,               \* skip_health_check
         auto    : BOOLEAN,               \* auto_rollback_on_failure
         doomed  : SUBSET Release]

TypeOK ==
  /\ row \in [Deployment -> Row]
  /\ task \in [Deployment -> Task]
  /\ rank \in [Release -> Nat] /\ recorded \in Nat
  /\ pruned \subseteq Release /\ installed \subseteq Release /\ vetted \subseteq Release
  /\ {current, link, temp, running} \subseteq Release \cup {NoRelease}
  /\ proc \in [Process -> {"down", "booting", "up"}]
  /\ orphans \subseteq Deployment
  /\ crashes \in 0 .. MaxCrashes

Init ==
  /\ row = [d \in Deployment |-> NoRow]
  /\ rank = [r \in Release |-> IF r \in SeededRelease
                                 THEN CHOOSE i \in DOMAIN Seeded : Seeded[i] = r
                                 ELSE 0]
  /\ recorded = Len(Seeded)
  /\ current = IF Seeded = <<>> THEN NoRelease ELSE Seeded[Len(Seeded)]
  /\ pruned = {}
  /\ installed = SeededRelease
  /\ link = current
  /\ temp = NoRelease
  /\ running = current
  /\ vetted = SeededRelease
  /\ task = [d \in Deployment |-> NoTask]
  /\ proc = [p \in Process |-> "up"]
  /\ orphans = {}
  /\ crashes = 0

-----------------------------------------------------------------------------
(* Small pieces the steps are built from.                                  *)

At(d, pc) == task[d].pc = pc

Goto(d, pc) == task' = [task EXCEPT ![d].pc = pc]

\* An error return: of try_deploy, or of activate_release.
Bail(d) == Goto(d, IF task[d].mode = "deploy" THEN "failed" ELSE "endFailed")

\* set_deployment_status: a terminal status also stamps finished_at, which
\* nothing ever clears.
SetStatus(d, s) ==
  row' = [row EXCEPT ![d].status = s, ![d].finished = @ \/ s \in Terminal]

\* check_cancelled, then the step after it with its transition (if any).
CheckedGoto(d, pc, s) ==
  IF row[d].cancel THEN Bail(d) /\ UNCHANGED row
                   ELSE Goto(d, pc) /\ SetStatus(d, s)

\* Whether someone starts a deployment now.  The code always accepts one; a
\* careful operator (Overlap = FALSE) waits for the last one to end.
MayStart == Overlap \/ \A e \in Deployment : At(e, "idle") /\ row[e].status \notin Active

-----------------------------------------------------------------------------
(* The calls: Deploy, the webhook's deploy, Rollback and Cancel.           *)

\* start_deploy: the release to go back to is read here, once.
StartDeploy(d, trigger, skip, auto) ==
  /\ trigger \in Triggers \ {"rollback"}
  /\ proc[HostOf(trigger)] = "up"
  /\ row[d].status = "none" /\ At(d, "idle") /\ MayStart
  /\ auto \/ skip
  /\ trigger = "webhook" => auto /\ ~skip
  /\ row' = [row EXCEPT ![d] = [NoRow EXCEPT !.status = "queued", !.previous = current]]
  /\ task' = [task EXCEPT ![d] = [NoTask EXCEPT !.pc = "begin", !.trigger = trigger,
                                                !.goal = d, !.skip = skip, !.auto = auto]]
  /\ UNCHANGED <<db, target, procs>>

\* Rollback reads the service first ...
RollbackRead(d) ==
  /\ "rollback" \in Triggers
  /\ proc["server"] = "up"
  /\ row[d].status = "none" /\ At(d, "idle") /\ MayStart
  /\ task' = [task EXCEPT ![d] = [NoTask EXCEPT !.pc = "resolve", !.trigger = "rollback",
                                                !.mode = "revert", !.goal = current]]
  /\ UNCHANGED <<row, db, target, procs>>

\* ... then lists the releases, chooses one and inserts the row, all of it
\* against the current release it read (kept in goal until then).
RollbackResolve(d, requested) ==
  /\ At(d, "resolve")
  /\ LET choice == RollbackChoice(Listed, rank, task[d].goal, requested)
     IN IF choice = {}
          THEN task' = [task EXCEPT ![d] = NoTask] /\ UNCHANGED row
          ELSE \E chosen \in choice :
                 /\ row' = [row EXCEPT ![d] =
                             [NoRow EXCEPT !.status = "activating",
                                           !.previous = task[d].goal,
                                           !.release = chosen]]
                 /\ task' = [task EXCEPT ![d].pc = "find", ![d].goal = chosen]
  /\ UNCHANGED <<db, target, procs>>

\* Variant of Cancel: the row is not checked for finished_at.
CancelAnyRow(d) ==
  /\ proc["server"] = "up"
  /\ row[d].status # "none" /\ ~row[d].cancel
  /\ row' = [row EXCEPT ![d].cancel = TRUE]
  /\ UNCHANGED <<db, target, task, procs>>

\* request_cancel: refused once finished_at is set.
Cancel(d) ==
  /\ proc["server"] = "up"
  /\ row[d].status # "none" /\ ~row[d].finished /\ ~row[d].cancel
  /\ row' = [row EXCEPT ![d].cancel = TRUE]
  /\ UNCHANGED <<db, target, task, procs>>

-----------------------------------------------------------------------------
(* try_deploy, from the first checkpoint to the release row.               *)

Begin(d) ==
  /\ At(d, "begin")
  /\ \E s \in {"queued", "building"} : CheckedGoto(d, "obtain", s)
  /\ UNCHANGED <<db, target, procs>>

\* Building or downloading takes minutes, then the second checkpoint.
Obtain(d) ==
  /\ At(d, "obtain")
  /\ \/ Bail(d) /\ UNCHANGED row
     \/ CheckedGoto(d, "upload", "uploading")
  /\ UNCHANGED <<db, target, procs>>

\* Connect, upload into the staging directory, verify, and rename it into
\* place; a failure may come after the rename.
Upload(d) ==
  /\ At(d, "upload")
  /\ \/ Goto(d, "record") /\ installed' = installed \cup {d}
     \/ Bail(d) /\ installed' \in {installed, installed \cup {d}}
  /\ UNCHANGED <<row, db, link, temp, running, vetted, procs>>

\* create_release and set_deployment_release, then the third checkpoint.
Record(d) ==
  /\ At(d, "record")
  /\ recorded' = recorded + 1
  /\ rank' = [rank EXCEPT ![d] = recorded + 1]
  /\ row' = [row EXCEPT ![d].release = d]
  /\ IF row[d].cancel THEN Bail(d) ELSE Goto(d, "configure")
  /\ UNCHANGED <<current, pruned, target, procs>>

\* Variant of Configure: no checkpoint before the swap.
ConfigureUnchecked(d) ==
  /\ At(d, "configure")
  /\ \/ Bail(d) /\ UNCHANGED row
     \/ Goto(d, "stage") /\ SetStatus(d, "activating")
  /\ UNCHANGED <<db, target, procs>>

\* The environment file and the unit, then the fourth checkpoint.
Configure(d) ==
  /\ At(d, "configure")
  /\ \/ Bail(d) /\ UNCHANGED row
     \/ CheckedGoto(d, "stage", "activating")
  /\ UNCHANGED <<db, target, procs>>

-----------------------------------------------------------------------------
(* Making a release live, in a deploy and in a rollback:                   *)
(*   ln -sfn R T && mv -T T L || (ln -sfn R T && mv T L)                   *)
(* with the same T for every deployment.  It runs on the target, so the    *)
(* commands of two deployments interleave.  An ln that fails does so again *)
(* in the fallback.                                                        *)

Stage(d) ==
  /\ At(d, "stage")
  /\ \/ Goto(d, "move") /\ temp' = task[d].goal
     \/ Bail(d) /\ temp' \in {temp, task[d].goal}
  /\ UNCHANGED <<row, db, installed, link, running, vetted, procs>>

\* mv -T, or the fallback when it fails for want of T or of -T itself.  The
\* session may die once the rename is done.
Move(d) ==
  /\ At(d, "move")
  /\ IF HasMvT /\ temp # NoRelease
       THEN /\ link' = temp
            /\ temp' = NoRelease
            /\ Goto(d, "restart") \/ Bail(d)
       ELSE Goto(d, "restage") /\ UNCHANGED <<link, temp>>
  /\ UNCHANGED <<row, db, installed, running, vetted, procs>>

Restage(d) ==
  /\ At(d, "restage")
  /\ Goto(d, "moveInto")
  /\ temp' = task[d].goal
  /\ UNCHANGED <<row, db, installed, link, running, vetted, procs>>

\* Plain mv follows a link to a directory and moves T into it; it replaces
\* only a link that is missing or dangling.
MoveInto(d) ==
  /\ At(d, "moveInto")
  /\ temp' = NoRelease
  /\ link' = IF temp = NoRelease \/ link \in installed THEN link ELSE temp
  /\ IF temp = NoRelease THEN Bail(d) ELSE Goto(d, "restart")
  /\ UNCHANGED <<row, db, installed, running, vetted, procs>>

\* Variant of Restart: systemctl start, which leaves a running unit alone.
RestartAsStart(d) ==
  /\ At(d, "restart")
  /\ running' = IF running = NoRelease THEN link ELSE running
  /\ Goto(d, IF task[d].mode = "deploy" THEN "gate" ELSE "commit")
  /\ UNCHANGED <<row, db, installed, link, temp, vetted, procs>>

\* daemon-reload, enable (in a deploy) and restart.  The unit starts what the
\* link names now; a failure can come before, during or after that.
Restart(d) ==
  /\ At(d, "restart")
  /\ LET started == IF link \in installed THEN link ELSE NoRelease
     IN \/ /\ running' = started
           /\ Goto(d, IF task[d].mode = "deploy" THEN "gate" ELSE "commit")
        \/ /\ running' \in {running, NoRelease, started}
           /\ Bail(d)
  /\ UNCHANGED <<row, db, installed, link, temp, vetted, procs>>

-----------------------------------------------------------------------------
(* Health check, commit, sweep.                                            *)

\* Variant of Gate: skipping the check skips the commit too.
GateSkipsCommit(d) ==
  /\ At(d, "gate")
  /\ IF task[d].skip THEN Goto(d, "list") /\ UNCHANGED row
                     ELSE CheckedGoto(d, "health", "health_checking")
  /\ UNCHANGED <<db, target, procs>>

\* Skipped by request, or the last checkpoint.
Gate(d) ==
  /\ At(d, "gate")
  /\ IF task[d].skip THEN Goto(d, "commit") /\ UNCHANGED row
                     ELSE CheckedGoto(d, "health", "health_checking")
  /\ UNCHANGED <<db, target, procs>>

\* health::evaluate probes the unit, whatever release that is running.
Health(d) ==
  /\ At(d, "health")
  /\ \/ /\ running # NoRelease
        /\ vetted' = vetted \cup {running}
        /\ Goto(d, "commit")
     \/ Bail(d) /\ UNCHANGED vetted
  /\ UNCHANGED <<row, db, installed, link, temp, running, procs>>

\* set_current_release; a rollback is then done, a deploy goes on to sweep.
Commit(d) ==
  /\ At(d, "commit")
  /\ current' = task[d].goal
  /\ Goto(d, IF task[d].mode = "deploy" THEN "list"
             ELSE IF task[d].trigger = "rollback" THEN "endSucceeded"
             ELSE "endRolledBack")
  /\ UNCHANGED <<row, rank, recorded, pruned, target, procs>>

\* Variant of List: the listing is oldest first.
ListOldestFirst(d) ==
  /\ At(d, "list")
  /\ LET doomed == {r \in Listed : Cardinality({q \in Listed : rank[q] < rank[r]})
                                     >= EffectiveKeep(Keep)}
     IN task' = [task EXCEPT ![d].doomed = doomed,
                             ![d].pc = IF doomed = {} THEN "endSucceeded" ELSE "remove"]
  /\ UNCHANGED <<row, db, target, procs>>

\* prune_releases lists once, and passes its own release as the current one.
List(d) ==
  /\ At(d, "list")
  /\ LET doomed == Prunable(Listed, rank, Keep, d)
     IN task' = [task EXCEPT ![d].doomed = doomed,
                             ![d].pc = IF doomed = {} THEN "endSucceeded" ELSE "remove"]
  /\ UNCHANGED <<row, db, target, procs>>

\* Variant of Remove: the exit status of rm is ignored.
RemoveUnchecked(d) ==
  /\ At(d, "remove")
  /\ \E r \in Newest(task[d].doomed, rank) : installed' \in {installed, installed \ {r}}
  /\ Goto(d, "mark")
  /\ UNCHANGED <<row, db, link, temp, running, vetted, procs>>

\* One doomed release at a time, newest first: rm -rf.  An error ends the
\* sweep with a note and not the deploy.
Remove(d) ==
  /\ At(d, "remove")
  /\ \E r \in Newest(task[d].doomed, rank) :
       \/ installed' = installed \ {r} /\ Goto(d, "mark")
       \/ installed' \in {installed, installed \ {r}} /\ Goto(d, "endSucceeded")
  /\ UNCHANGED <<row, db, link, temp, running, vetted, procs>>

\* ... then mark_release_pruned.
Mark(d) ==
  /\ At(d, "mark")
  /\ \E r \in Newest(task[d].doomed, rank) :
       /\ pruned' = pruned \cup {r}
       /\ task' = [task EXCEPT ![d].doomed = @ \ {r},
                               ![d].pc = IF task[d].doomed = {r} THEN "endSucceeded"
                                                                 ELSE "remove"]
  /\ UNCHANGED <<row, current, rank, recorded, target, procs>>

-----------------------------------------------------------------------------
(* run_deploy's error arm, and the end of a task.                          *)

\* Variant of Fail: a cancelled deploy just stops.
FailSilently(d) ==
  /\ At(d, "failed")
  /\ IF row[d].cancel THEN task' = [task EXCEPT ![d] = NoTask] ELSE Goto(d, "endFailed")
  /\ UNCHANGED <<row, db, target, procs>>

\* A cancelled deploy is not rolled back; neither is a first release.
Fail(d) ==
  /\ At(d, "failed")
  /\ IF row[d].cancel THEN Goto(d, "endCancelled")
     ELSE IF task[d].auto /\ row[d].previous # NoRelease
       THEN task' = [task EXCEPT ![d].pc = "find", ![d].mode = "revert",
                                 ![d].goal = row[d].previous]
       ELSE Goto(d, "endFailed")
  /\ UNCHANGED <<row, db, target, procs>>

\* Variant of FindRelease: a rollback that restarts without swapping back.
FindWithoutSwap(d) ==
  /\ At(d, "find")
  /\ Goto(d, "restart") \/ Bail(d)
  /\ UNCHANGED <<row, db, target, procs>>

\* activate_release connects and tests that the release is still there.
FindRelease(d) ==
  /\ At(d, "find")
  /\ \/ task[d].goal \in installed /\ Goto(d, "stage")
     \/ Bail(d)
  /\ UNCHANGED <<row, db, target, procs>>

Finish(d) ==
  /\ task[d].pc \in DOMAIN Verdict
  /\ SetStatus(d, Verdict[task[d].pc])
  /\ task' = [task EXCEPT ![d] = NoTask]
  /\ UNCHANGED <<db, target, procs>>

TaskStep(d) ==
  \/ \E req \in {{}} \cup {{r} : r \in Release} : RollbackResolve(d, req)
  \/ Begin(d) \/ Obtain(d) \/ Upload(d) \/ Record(d) \/ Configure(d)
  \/ Stage(d) \/ Move(d) \/ Restage(d) \/ MoveInto(d) \/ Restart(d)
  \/ Gate(d) \/ Health(d) \/ Commit(d) \/ List(d) \/ Remove(d) \/ Mark(d)
  \/ Fail(d) \/ FindRelease(d) \/ Finish(d)

-----------------------------------------------------------------------------
(* Processes die and come back.  Tasks are not persisted.                  *)

Crash(p) ==
  /\ crashes < MaxCrashes /\ proc[p] # "down"
  /\ crashes' = crashes + 1
  /\ LET dead == IF OneProcess THEN Process ELSE {p}
     IN /\ proc' = [q \in Process |-> IF q \in dead THEN "down" ELSE proc[q]]
        /\ task' = [d \in Deployment |-> IF HostOf(task[d].trigger) \in dead
                                           THEN NoTask ELSE task[d]]
        /\ orphans' = IF "server" \in dead THEN {} ELSE orphans
  /\ UNCHANGED <<row, db, target>>

\* Variants of BootServer: queued rows are forgotten; every row is listed.
BootForgetsQueued ==
  /\ proc["server"] = "down"
  /\ proc' = [proc EXCEPT !["server"] = "booting"]
  /\ orphans' = {d \in Deployment : row[d].status \in Active \ {"queued"}}
  /\ UNCHANGED <<row, db, target, task, crashes>>

\* reconcile_interrupted_deployments lists the active rows ...
BootServer ==
  /\ proc["server"] = "down"
  /\ proc' = [proc EXCEPT !["server"] = "booting"]
  /\ orphans' = {d \in Deployment : row[d].status \in Active}
  /\ UNCHANGED <<row, db, target, task, crashes>>

\* ... fails each of them ...
Reconcile(d) ==
  /\ proc["server"] = "booting" /\ d \in orphans
  /\ SetStatus(d, "failed")
  /\ orphans' = orphans \ {d}
  /\ UNCHANGED <<db, target, task, proc, crashes>>

\* ... and only then does the server take calls.
Serve ==
  /\ proc["server"] = "booting" /\ orphans = {}
  /\ proc' = [proc EXCEPT !["server"] = "up"]
  /\ UNCHANGED <<row, db, target, task, orphans, crashes>>

\* The all-in-one binary starts the dashboard once the gRPC port answers.  It
\* waits five seconds and then goes on anyway; this action assumes that the
\* server is up by then.
BootWeb ==
  /\ proc["web"] = "down"
  /\ OneProcess => proc["server"] = "up"
  /\ proc' = [proc EXCEPT !["web"] = "up"]
  /\ UNCHANGED <<row, db, target, task, orphans, crashes>>

Boot == BootServer \/ Serve \/ BootWeb \/ \E d \in Deployment : Reconcile(d)

-----------------------------------------------------------------------------
Call(d) ==
  \/ \E trigger \in Triggers, skip, auto \in BOOLEAN : StartDeploy(d, trigger, skip, auto)
  \/ RollbackRead(d)
  \/ Cancel(d)

Next ==
  \/ \E d \in Deployment : Call(d) \/ TaskStep(d)
  \/ \E p \in Process : Crash(p)
  \/ Boot

Spec == Init /\ [][Next]_vars

\* The runtime polls every ready task, and a remote command ends: by its exit,
\* by a timeout or by the session's inactivity limit.  The supervisor restarts
\* a dead process.  Nobody has to call, cancel or crash anything.
Fairness == /\ \A d \in Deployment : WF_vars(TaskStep(d))
            /\ WF_vars(Boot)

FairSpec == Spec /\ Fairness

-----------------------------------------------------------------------------
(* What holds however deployments overlap and processes die.               *)

\* A release marked pruned is gone from the target: the directory goes first,
\* the mark second, and a crash between them only leaves a row too many
\* (prune_releases; list_releases relies on it to offer no missing release).
PrunedMeansGone == pruned \cap installed = {}

\* Nothing ever names, starts or commits a release that was not completely
\* uploaded and recorded first (deploy.rs: "the symlink swap ... happens after
\* the artifact is fully on disk"), through any interleaving on the shared
\* temporary link.
LiveIsRecorded ==
  \A r \in {link, temp, running, current} \ {NoRelease} : rank[r] # 0

\* Once a cancel is accepted while a deploy is still before its last checkpoint
\* ahead of the symlink swap, that deploy never starts to swap (request_cancel
\* against the checks of try_deploy).
BeforeSwap == {"begin", "obtain", "upload", "record", "configure"}
CancelBeforeSwapIsHonoured ==
  \A d \in Deployment :
    [](row[d].cancel /\ task[d].pc \in BeforeSwap =>
         [](task[d].mode = "deploy" => ~At(d, "stage")))

(* What holds when the processes that host tasks die together.             *)

\* No task works for a row that already reports an outcome (serve.rs: a row that
\* reconcile_interrupted_deployments fails has lost its engine task).
NoTaskBehindAnOutcome ==
  \A d \in Deployment :
    task[d].pc \notin {"idle", "resolve"} => row[d].status \in Active

\* A task runs for exactly the rows that say so: besides, while the server takes
\* calls every active row has its task, so that none is stuck.
RowMatchesTask ==
  /\ NoTaskBehindAnOutcome
  /\ proc["server"] = "up" =>
       \A d \in Deployment : row[d].status \in Active => ~At(d, "idle")

\* A reported outcome never changes, across failures, cancels and restarts
\* (set_deployment_status, reconcile_interrupted_deployments).
OutcomeIsFinal ==
  [][\A d \in Deployment :
       row[d].status \in Terminal => row'[d].status = row[d].status]_vars

\* Every deployment that was accepted ends, whatever fails, is cancelled or
\* dies on the way (run_deploy always reaches finish; reconcile on boot).
EveryDeploymentEnds ==
  \A d \in Deployment :
    row[d].status \in Active ~> row[d].status \in Terminal

(* What holds when, besides, deployments do not overlap.                   *)

\* The release a deploy would go back to is on the target until the deploy has
\* committed (README: "The previous release is untouched until the new one is
\* proven healthy, so rollback is always available").
PreviousStaysInstalled ==
  \A d \in Deployment :
    (/\ task[d].pc \notin {"idle", "resolve", "list", "remove", "mark"} \cup DOMAIN Verdict
     /\ task[d].mode = "deploy"
     /\ row[d].previous # NoRelease) => row[d].previous \in installed

\* The release the symlink names is never removed from under it
\* (systemd.rs: "The currently-live release is never a candidate for deletion").
LiveIsInstalled == link # NoRelease => link \in installed

\* A deploy that did not skip the check commits only a release that was seen
\* healthy while it was the one running.
CommitsWhatItChecked ==
  \A d \in Deployment :
    (/\ task[d].mode = "deploy" /\ ~task[d].skip
     /\ task[d].pc \in {"commit", "list", "remove", "mark", "endSucceeded"}) =>
       d \in vetted

\* The outcome a task reports is what the target and the database say then:
\* succeeded, the link, the unit and the current release are the one it made
\* live; rolled back, they are the previous one; otherwise the current release
\* is still the previous one (run_deploy, rollback_after_failure).
OutcomeIsTrue ==
  [][\A d \in Deployment : Finish(d) =>
       CASE task[d].pc = "endSucceeded"  -> {link, running, current} = {row[d].release}
         [] task[d].pc = "endRolledBack" -> {link, running, current} = {row[d].previous}
         [] OTHER                        -> current = row[d].previous]_vars

(* What the documentation says and the code does not do; see the findings.  *)

(* The abstract life of a deployment.                                      *)

Lifecycle == INSTANCE DeployLifecycle WITH
  phase <- [d \in Deployment |->
              IF row[d].status \in Active THEN "active" ELSE row[d].status],
  asked <- [d \in Deployment |-> row[d].cancel]

\* The row of every deployment lives the abstract life: it is accepted once,
\* cancels are recorded only while it is active, it ends once, and it ends as
\* cancelled only if that was asked for.
ImplementsLifecycle == Lifecycle!Spec
=============================================================================

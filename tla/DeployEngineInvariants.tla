----------------------- MODULE DeployEngineInvariants -----------------------
(***************************************************************************)
(* The inductive invariants behind the theorems of DeployEngineProofs, and *)
(* the parts they are made of.                                             *)
(***************************************************************************)
EXTENDS DeployEngine

-----------------------------------------------------------------------------
(* What every task knows of the releases, in any configuration.            *)

Recorded(r) == r \in Release /\ rank[r] # 0

\* The releases table orders its rows by creation, and no two alike.
RankIsAnOrder ==
  /\ \A r \in Release : rank[r] <= recorded
  /\ \A q, r \in Release : rank[q] # 0 /\ rank[q] = rank[r] => q = r

\* A deployment owns the release of its name from its first step to its row.
Owned(d) ==
  /\ row[d].status = "none" => rank[d] = 0 /\ task[d].pc \in {"idle", "resolve"}
  /\ task[d].pc \in BeforeSwap => task[d].mode = "deploy"
  /\ task[d].pc \in BeforeSwap \ {"configure"} => task[d].goal = d /\ rank[d] = 0

\* What a task is about to link, to go back to or to commit is recorded.
Acting == {"configure", "stage", "move", "restage", "moveInto", "restart", "gate",
           "health", "commit", "find"}
GoalIsRecorded(d) ==
  /\ row[d].previous # NoRelease => Recorded(row[d].previous)
  /\ At(d, "resolve") /\ task[d].goal # NoRelease => Recorded(task[d].goal)
  /\ task[d].pc \in Acting => Recorded(task[d].goal)

\* What a sweep is to mark was recorded, and is gone once it gets to it.
SweepIsAhead(d) ==
  /\ \A r \in task[d].doomed : Recorded(r)
  /\ At(d, "mark") => Newest(task[d].doomed, rank) \cap installed = {}

TaskAgrees(d) == Owned(d) /\ GoalIsRecorded(d) /\ SweepIsAhead(d)

\* The releases table, the target and the locals of all tasks agree on what has
\* been recorded and what has been removed, whatever overlaps and dies: the
\* strengthening of PrunedMeansGone and LiveIsRecorded.
ReleasesAgree ==
  /\ RankIsAnOrder
  /\ \A d \in Deployment : TaskAgrees(d)
  /\ \A r \in pruned : Recorded(r)
  /\ PrunedMeansGone
  /\ LiveIsRecorded

-----------------------------------------------------------------------------
(* What rows, tasks and processes know of one another, in one process.     *)

ActiveRows == {d \in Deployment : row[d].status \in Active}

\* Tasks run only in a server that takes calls, and while it boots the rows it
\* has listed are the active ones.
BootIsOrdered ==
  /\ proc["web"] = "up" => proc["server"] = "up"
  /\ proc["server"] # "up" => \A d \in Deployment : At(d, "idle")
  /\ proc["server"] = "booting" => orphans = ActiveRows

\* finished_at is set with the outcome, and a cancel belongs to a row.
StampsAgree(d) ==
  /\ row[d].finished <=> row[d].status \in Terminal
  /\ row[d].status = "none" => ~row[d].cancel
  /\ At(d, "resolve") => row[d].status = "none"
  /\ At(d, "endCancelled") => row[d].cancel

\* Rows, tasks and processes agree in the all-in-one binary, at every point of a
\* boot and a crash: the strengthening of RowMatchesTask, from which the
\* refinement of DeployLifecycle follows.
RowsAgree ==
  /\ BootIsOrdered
  /\ \A d \in Deployment : StampsAgree(d)
  /\ RowMatchesTask

-----------------------------------------------------------------------------
(* What a task knows of the target when it has it to itself: deployments   *)
(* do not overlap, and the target's mv knows -T.                           *)

OneAtATime == \A d, e \in Deployment : ~At(d, "idle") /\ ~At(e, "idle") => d = e

Committed == {"list", "remove", "mark", "endSucceeded", "endRolledBack"}
Restarted == {"gate", "health", "commit"} \cup Committed
Present   == {"record", "configure", "stage", "move", "restart"} \cup Restarted

\* Which steps belong to a deploy, to a rollback, and to each kind of rollback.
PathAgrees(d) ==
  /\ task[d].pc \notin {"restage", "moveInto"}
  /\ task[d].pc \in BeforeSwap \cup {"gate", "health", "list", "remove", "mark", "failed",
                                     "endCancelled"} => task[d].mode = "deploy"
  /\ task[d].pc \in {"resolve", "find", "endRolledBack"} => task[d].mode = "revert"
  /\ At(d, "resolve") => task[d].trigger = "rollback"
  /\ task[d].trigger = "rollback" => task[d].mode = "revert" /\ ~At(d, "endRolledBack")
  /\ At(d, "endSucceeded") /\ task[d].mode = "revert" => task[d].trigger = "rollback"

\* How the goal of a task, its row and the current release belong together.
GoalAgrees(d) ==
  /\ At(d, "resolve") => task[d].goal = current
  /\ task[d].mode = "deploy" => task[d].goal = d
  /\ task[d].mode = "deploy" /\ task[d].pc \in Present \ {"record"} => row[d].release = d
  /\ task[d].mode = "revert" /\ ~At(d, "resolve") =>
       task[d].goal = IF task[d].trigger = "rollback" THEN row[d].release
                                                      ELSE row[d].previous
  /\ task[d].pc \in Committed => current = task[d].goal
  /\ task[d].pc \notin Committed \cup {"resolve"} => row[d].previous = current

\* How far the goal has come on the target.
TargetAgrees(d) ==
  /\ task[d].pc \in Present => task[d].goal \in installed
  /\ At(d, "move") => temp = task[d].goal
  /\ task[d].pc \in Restarted \cup {"restart"} => link = task[d].goal
  /\ task[d].pc \in Restarted => running = task[d].goal
  /\ task[d].pc \in {"remove", "mark"} => task[d].goal \notin task[d].doomed
  /\ (/\ task[d].mode = "deploy" /\ ~task[d].skip
      /\ task[d].pc \in {"commit", "list", "remove", "mark", "endSucceeded"}) => d \in vetted

SerialTask(d) == ~At(d, "idle") => PathAgrees(d) /\ GoalAgrees(d) /\ TargetAgrees(d)

CurrentIsInstalled == current # NoRelease => current \in installed

\* One deployment at a time, the task, its row, the database and the target tell
\* the same story: the strengthening of PreviousStaysInstalled, LiveIsInstalled
\* and CommitsWhatItChecked, from which OutcomeIsTrue follows.
SerialAgrees ==
  /\ OneAtATime
  /\ \A d \in Deployment : SerialTask(d)
  /\ CurrentIsInstalled
  /\ LiveIsInstalled
=============================================================================
